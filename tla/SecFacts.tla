----------------------------- MODULE SecFacts -----------------------------
(***************************************************************************)
(* One company's SEC companyfacts: what _ingest_company retrieves, what it   *)
(* makes of it, and what an as-of reader is later shown.  The provider may   *)
(* restate a value under the accession it already has, and restate it back:  *)
(* the bytes of a reversion are on file already and their DataAsset is       *)
(* reused, so the time of a retrieval is kept by observation events, and     *)
(* corrections and replays are ordered by those.  A run may stop after any   *)
(* of its commits, and a later one replays what it left behind.              *)
(*                                                                          *)
(* A payload maps an accession to the one value it reports for a concept and *)
(* a period, or to None.  Instants are whole numbers, Day(t) their date.     *)
(***************************************************************************)
EXTENDS Naturals, Sequences, FiniteSets, FiniteSetsExt

CONSTANTS
  Accessions, First,   \* First was filed before the program ever ran
  Values, None,
  Payloads,            \* what the provider may publish
  AcceptedAt, FiledDayAfter,  \* acceptance from submissions, and its fallback
  ReconcileDays,       \* companyfacts older than this are asked for again
  RetryDays,           \* a filing without companyfacts is looked for this long
  DayLength,
  MaxTime,             \* bound: the instants of a behaviour
  Legacy               \* what databases older than the events hold: see Chain

Contents == [Accessions -> Values \cup {None}]

ASSUME SecAssumption ==
  /\ First \in Accessions /\ None \notin Values \cup Contents \cup Nat
  /\ Payloads \subseteq {p \in Contents : p[First] # None}
  /\ AcceptedAt \in [Accessions -> Nat] /\ FiledDayAfter \in [Accessions -> Nat]
  /\ AcceptedAt[First] = 0
  /\ {ReconcileDays, RetryDays} \subseteq Nat /\ {DayLength, MaxTime} \subseteq Nat \ {0}
  /\ \A h \in Legacy :
       /\ h.values \in Seq(Values) /\ Len(h.values) < MaxTime
       /\ h.made \in Seq(1..Len(h.values))

Times == 1..MaxTime
Day(t) == t \div DayLength
Only(v) == [a \in Accessions |-> IF a = First THEN v ELSE None]

VARIABLES
  now,
  observed,     \* the payload retrieved at an instant: an event, or a legacy asset
  upgraded,     \* instants up to this one have no event
  submissions,  \* when each list of filings was first retrieved
  facts,        \* the revisions of each accession's fact
  verification, \* the company's entry in the provider's companyfacts_verifications
  run,          \* the run under way
  normalised    \* the filing lists and instants whose payload facts were made of together

vars == <<now, observed, upgraded, submissions, facts, verification, run, normalised>>

Idle == [pc |-> "idle"]

(***************************************************************************)
(* A legacy history has the value of each retrieval, and the retrievals that  *)
(* facts were made of.  Corrections of that time carry the original acceptance. *)
(***************************************************************************)
\* A row's source asset is known by its retrieved_at: an instant has one payload.
Revision(value, accepted, available, bound, asset, filing) ==
  [value |-> value, accepted |-> accepted, available |-> available, bound |-> bound,
   asset |-> asset, filing |-> filing]

Chain(h) ==
  LET Asset(t) == Min({u \in 1..Len(h.values) : h.values[u] = h.values[t]})
  IN  [i \in 1..Len(h.made) |->
         Revision(h.values[h.made[i]], 0, 0, FALSE, Asset(h.made[i]), 1)]

Init ==
  \E h \in Legacy :
    /\ now = Len(h.values) + 1 /\ upgraded = Len(h.values)
    /\ observed = [t \in Times |-> IF t <= Len(h.values) THEN Only(h.values[t]) ELSE None]
    /\ submissions = [s \in SUBSET Accessions |->
                       IF s = {First} /\ h.values # <<>> THEN 1 ELSE 0]
    /\ facts = [a \in Accessions |-> IF a = First THEN Chain(h) ELSE <<>>]
    /\ verification = None
    /\ run = Idle
    /\ normalised = {<<{First}, h.made[i]>> : i \in 1..Len(h.made)}

-----------------------------------------------------------------------------
(* What is on file *)

Retrieved == {t \in Times : observed[t] # None}
Events == {t \in Retrieved : t > upgraded}

\* An asset is stored once: its retrieved_at is the first retrieval of these bytes.
RetrievedAt(p) == Min({t \in Retrieved : observed[t] = p})

\* Faulty variant: assets ordered by retrieved_at in every case.
RecoveredByRetrieval ==
  LET t == Max({RetrievedAt(observed[u]) : u \in Retrieved})
  IN  [payload |-> observed[t], at |-> t, legacy |-> FALSE]

\* _latest_observed_companyfacts: by the events, and by the assets where there are none.
Recovered ==
  IF Events # {} THEN [payload |-> observed[Max(Events)], at |-> Max(Events), legacy |-> FALSE]
  ELSE LET t == Max({RetrievedAt(observed[u]) : u \in Retrieved})
       IN  [payload |-> observed[t], at |-> t, legacy |-> TRUE]

Latest(a) == facts[a][Len(facts[a])]

\* When the i-th revision is proven, None where it is not.  A legacy correction is proven by
\* the retrieval of its own asset, unless what it says was an earlier revision's or its
\* asset is older than what it would replace.
ProvenNext(revisions, shown, p, i) ==
  LET f == revisions[i]
      before == {j \in shown : j < i}
      own == Max({f.available, f.asset})
  IN  IF i \notin shown THEN None
      ELSE IF i = 1 \/ f.bound THEN f.available
      ELSE IF \/ \E j \in before : <<revisions[j].value, revisions[j].accepted>>
                                      = <<f.value, f.accepted>>
              \/ \E j \in before : p[j] # None /\ p[j] > own
           THEN None
      ELSE own

\* resolve_availability, over the revisions in `shown`.
Proven(revisions, shown) ==
  LET p[i \in 1..Len(revisions)] == ProvenNext(revisions, shown, p, i)
  IN  p

\* PointInTimeReader at a decision and an equal cutoff, partition_unproven_corrections and
\* select_latest_fact_vintages: the value shown, None if there is none.
Shown(revisions, d) ==
  {i \in 1..Len(revisions) :
     revisions[i].available <= d /\ revisions[i].asset <= d /\ revisions[i].filing <= d}

Admitted(revisions, d) ==
  LET shown == Shown(revisions, d)
  IN  {i \in shown : Proven(revisions, shown)[i] # None /\ Proven(revisions, shown)[i] <= d}

Read(a, d) ==
  LET admitted == Admitted(facts[a], d)
  IN  IF admitted = {} THEN None ELSE facts[a][Max(admitted)].value

-----------------------------------------------------------------------------
(* A run for the company *)

Tick == /\ now < MaxTime /\ now' = now + 1
        /\ UNCHANGED <<observed, upgraded, submissions, facts, verification, run, normalised>>

\* The recorded verification, where it is about the payload on file.
Verified ==
  IF Retrieved # {} /\ verification # None /\ verification.payload = Recovered.payload
  THEN verification ELSE None

NoCheck == [a \in Accessions |-> None]
MissingChecks == IF Verified = None THEN NoCheck ELSE Verified.missing

\* _reconciliation_due
ReconciliationDue ==
  \/ Retrieved = {}
  \/ LET reference == IF Verified = None THEN Recovered.at ELSE Verified.checked
     IN  Day(now) >= Day(reference) + ReconcileDays

\* _missing_accession_retry_due
RetryDue(check) ==
  \/ check = None
  \/ /\ Day(check.first) < Day(now) /\ Day(now) <= Day(check.first) + RetryDays
     /\ Day(check.last) < Day(now)

Missing(listed, p) == {a \in listed : p[a] = None}

MustFetch(listed, new) ==
  \/ Retrieved = {} \/ new \/ ReconciliationDue
  \/ \E a \in Missing(listed, Recovered.payload) : RetryDue(MissingChecks[a])

NormalisationComplete(listed) == Verified # None /\ Verified.listed = listed

\* _assert_replay_is_recoverable
Recoverable ==
  /\ Recovered.legacy => \A a \in Accessions : Len(facts[a]) <= 1
  /\ \A a \in Accessions : \A i \in 1..Len(facts[a]) :
       facts[a][i].bound => facts[a][i].available <= Recovered.at

Task(pc, listed, fetched, p, at) ==
  [pc |-> pc, listed |-> listed, fetched |-> fetched, payload |-> p, at |-> at,
   checked |-> now, missing |-> MissingChecks]

\* The submissions are retrieved and stored, and what else to do is decided.  A run with
\* nothing to do is a success, one that would have to guess what to replay fails.
Begin(listed) ==
  LET new == submissions[listed] = 0
      fetch == MustFetch(listed, new)
      complete == ~fetch /\ NormalisationComplete(listed)
  IN  /\ run = Idle
      /\ submissions' = [submissions EXCEPT ![listed] = IF new THEN now ELSE @]
      /\ run' = IF fetch THEN Task("fetch", listed, TRUE, None, 0)
                ELSE IF ~complete /\ Recoverable
                     THEN Task("normalise", listed, FALSE, Recovered.payload, Recovered.at)
                ELSE Idle
      /\ UNCHANGED <<now, observed, upgraded, facts, verification, normalised>>

\* What submissions may list: every filing listed before, and none not yet accepted.
Listable(s) ==
  /\ First \in s /\ \A a \in s : AcceptedAt[a] <= now
  /\ \A t \in SUBSET Accessions : submissions[t] # 0 => t \subseteq s

\* Companyfacts are retrieved: the asset, unless these bytes are on file, and the event.
\* Other bytes for an instant that has its event are refused (the run fails: see Fail).
Fetch(p) ==
  /\ run.pc = "fetch"
  /\ \A a \in Accessions : p[a] # None => AcceptedAt[a] <= now
  /\ observed[now] \in {None, p}
  /\ observed' = [observed EXCEPT ![now] = p]
  /\ run' = [run EXCEPT !.pc = "normalise", !.payload = p, !.at = now]
  /\ UNCHANGED <<now, upgraded, submissions, facts, verification, normalised>>

\* _derive_sec_fact: acceptance and filing evidence from the submissions that list the
\* accession, otherwise from the payload's own filing date.
Accepted(a) == IF a \in run.listed THEN AcceptedAt[a] ELSE FiledDayAfter[a]
FilingEvidence(a) ==
  IF a \in run.listed THEN submissions[run.listed] ELSE RetrievedAt(run.payload)

\* _latest_facts_by_raw_lineage: the accession's value in the payload before this one.  A
\* legacy asset has its place in the order only while no event is bound to it.
Ordered ==
  Events \cup {t \in Retrieved \ Events :
                 /\ t = RetrievedAt(observed[t])
                 /\ \A e \in Events : e <= run.at => observed[e] # observed[t]}
Before(a) == {t \in Ordered : t < run.at /\ observed[t][a] # None}
ReplaysHead(a) ==
  /\ Latest(a).asset = RetrievedAt(run.payload) /\ Latest(a).accepted = Accepted(a)
  /\ Latest(a).available = Max({Accepted(a), run.at})
Signature(a) ==
  IF ReplaysHead(a) \/ Before(a) = {} THEN Latest(a).value ELSE observed[Max(Before(a))][a]

\* _needs_observation_rebinding: the same value again, and this time proven.
NeedsRebinding(a) ==
  /\ Len(facts[a]) > 1 /\ ~Latest(a).bound
  /\ Proven(facts[a], 1..Len(facts[a]))[Len(facts[a])] = None

Reused(a) ==
  /\ facts[a] # <<>>
  /\ <<Latest(a).value, Latest(a).accepted>> = <<run.payload[a], Accepted(a)>>
  /\ Signature(a) = run.payload[a]
  /\ ~NeedsRebinding(a)

\* Faulty variant: from the retrieval of its asset.
AvailableFromAsset(a) ==
  IF facts[a] = <<>> THEN Accepted(a) ELSE Max({Accepted(a), RetrievedAt(run.payload)})

\* An original is available from its acceptance, a correction from the retrieval that first
\* carried it.
AvailableAt(a) ==
  IF facts[a] = <<>> THEN Accepted(a) ELSE Max({Accepted(a), run.at})

\* _normalize_companyfacts: every fact of the payload, in one transaction.
Normalise ==
  /\ run.pc = "normalise"
  /\ facts' = [a \in Accessions |->
       IF run.payload[a] = None \/ Reused(a) THEN facts[a]
       ELSE Append(facts[a],
              Revision(run.payload[a], Accepted(a), AvailableAt(a), facts[a] # <<>>,
                       RetrievedAt(run.payload), FilingEvidence(a)))]
  /\ normalised' = normalised \cup {<<run.listed, run.at>>}
  /\ run' = [run EXCEPT !.pc = "verify"]
  /\ UNCHANGED <<now, observed, upgraded, submissions, verification>>

\* _updated_missing_accession_checks
MissingCheck(a, checked) ==
  LET old == run.missing[a]
      t == RetrievedAt(run.payload)
  IN  CASE a \notin Missing(run.listed, run.payload) -> None
        [] a \in Missing(run.listed, run.payload) /\ run.fetched ->
             [first |-> IF old = None THEN checked ELSE old.first, last |-> checked]
        [] a \in Missing(run.listed, run.payload) /\ ~run.fetched ->
             IF old = None THEN [first |-> t, last |-> t] ELSE old

\* _record_companyfacts_verification, and the run succeeds.
Verify ==
  /\ run.pc = "verify"
  /\ LET checked == CASE run.fetched -> run.checked
                      [] ~run.fetched /\ Verified # None -> Verified.checked
                      [] ~run.fetched /\ Verified = None -> RetrievedAt(run.payload)
     IN  verification' = [payload |-> run.payload, checked |-> checked, listed |-> run.listed,
                          missing |-> [a \in Accessions |-> MissingCheck(a, checked)]]
  /\ run' = Idle
  /\ UNCHANGED <<now, observed, upgraded, submissions, facts, normalised>>

\* A provider error, a refused event, a full disk, a crash.
Fail ==
  /\ run # Idle /\ run' = Idle
  /\ UNCHANGED <<now, observed, upgraded, submissions, facts, verification, normalised>>

Next ==
  \/ Tick
  \/ \E s \in SUBSET Accessions : Listable(s) /\ Begin(s)
  \/ \E p \in Payloads : Fetch(p)
  \/ Normalise \/ Verify \/ Fail

Spec == Init /\ [][Next]_vars

-----------------------------------------------------------------------------
(* Properties *)

\* What a reader is shown was there to see: some payload retrieved by the time of the
\* decision carried the value, and of the payloads that facts were made of by then, none
\* between that one and the decision reported another value.  (The second half is about
\* payloads with an event: over older ones the readers may stay with a superseded value.)
ReadsAreObserved ==
  \A a \in Accessions : \A d \in 1..now :
    LET shown == Read(a, d)
    IN  shown # None =>
          \E t \in Retrieved :
            /\ t <= d /\ observed[t][a] = shown
            /\ \A n \in normalised :
                 n[2] \in Events /\ t < n[2] /\ n[2] <= d /\ submissions[n[1]] <= d
                   => observed[n[2]][a] \in {None, shown}

Made(t) == \E n \in normalised : n[2] = t

\* Once facts were made of the newest payload, readers from then on see it: also after a value
\* went there and back, after an interrupted run, and over legacy corrections that nothing
\* proves.  (A filing that only its date dates is read from the day after.)
NewestIsRead ==
  Events # {} /\ Made(Max(Events)) =>
    \A a \in Accessions : \A d \in now..MaxTime + 1 :
      LET newest == observed[Max(Events)][a]
      IN  newest # None /\ FiledDayAfter[a] <= d => Read(a, d) = newest

\* All evidence retrieved by d has been made facts of.
Settled(d) ==
  /\ \A t \in Retrieved : t <= d => Made(t)
  /\ \A s \in SUBSET Accessions : submissions[s] \in 1..d => \E n \in normalised : n[1] = s

\* A decision of the past is not shown anything else later, whatever is retrieved,
\* corrected or replayed meanwhile, unless an interrupted run had left evidence it could
\* have known without facts.
PastReadsStand ==
  [][\A d \in Times : d < now /\ Settled(d) => \A a \in Accessions : Read(a, d)' = Read(a, d)]_vars
=============================================================================
