-------------------------- MODULE IssuanceEvidence --------------------------
(***************************************************************************)
(* What the research product promises of the evidence of one issuance: a    *)
(* request is captured, then a qualified cohort is admitted out of it, then  *)
(* one analysis of exactly that cohort is issued.  Each piece of evidence is *)
(* written at most once and never changes, and nothing is admitted or issued *)
(* that was not captured before.  ResearchDaily implements this.             *)
(***************************************************************************)
EXTENDS Naturals

CONSTANTS Issuances, Core, Saved, Benchmark, MaxVintage, V2, None

Symbols == Core \cup Saved
Admission == [Symbols \cup {Benchmark} -> 0..MaxVintage]

Admitted(adm) == {s \in Symbols : adm[s] # 0}

VARIABLES intake, batch, snap, output, issued

vars == <<intake, batch, snap, output, issued>>

Init ==
  /\ intake = [i \in Issuances |-> None]
  /\ batch = [i \in Issuances |-> None]
  /\ snap = [i \in Issuances |-> None]
  /\ output = [i \in Issuances |-> None]
  /\ issued = [i \in Issuances |-> 0]

\* An admission covers no more than the captured request.
Covers(i, adm) == Admitted(adm) \subseteq Core \cup intake[i]

Capture(i) ==
  /\ intake[i] = None
  /\ \E saved \in SUBSET Saved : intake' = [intake EXCEPT ![i] = saved]
  /\ UNCHANGED <<batch, snap, output, issued>>

\* The second product closes its acquisition before it admits a cohort.
CloseBatch(i) ==
  /\ i \in V2 /\ intake[i] # None /\ batch[i] = None /\ snap[i] = None
  /\ \E adm \in Admission : Covers(i, adm) /\ batch' = [batch EXCEPT ![i] = adm]
  /\ UNCHANGED <<intake, snap, output, issued>>

Admit(i) ==
  /\ intake[i] # None /\ snap[i] = None
  /\ \E adm \in Admission :
       /\ Covers(i, adm) /\ Admitted(adm) # {}
       /\ i \in V2 => adm = batch[i]
       /\ snap' = [snap EXCEPT ![i] = adm]
  /\ UNCHANGED <<intake, batch, output, issued>>

Issue(i) ==
  /\ snap[i] # None /\ issued[i] = 0
  /\ output' = [output EXCEPT ![i] = snap[i]]
  /\ issued' = [issued EXCEPT ![i] = 1]
  /\ UNCHANGED <<intake, batch, snap>>

Next == \E i \in Issuances : Capture(i) \/ CloseBatch(i) \/ Admit(i) \/ Issue(i)

Spec == Init /\ [][Next]_vars
=============================================================================
