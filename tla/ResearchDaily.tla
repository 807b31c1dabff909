--------------------------- MODULE ResearchDaily ---------------------------
(***************************************************************************)
(* The daily research job of one target date: execute_daily_research_job in *)
(* data/research_product_jobs.py, with the parts of research_product.py     *)
(* (intake and membership), liquidity_evidence.py (the closed batch of the  *)
(* second product), product_pipeline.py / product_eligibility_pipeline.py   *)
(* (the committed analysis), market_state.py (the market projection) and    *)
(* product_frequency_evidence.py that it calls.                             *)
(*                                                                          *)
(* An issuance is (owner, issuance key, product version).  One lock per     *)
(* target date is held for a whole call, so calls run one at a time: "cur"  *)
(* is the issuance whose call holds it.  What runs beside a call are people *)
(* and commands that do not take this lock.  Of the two job ledgers of an   *)
(* issuance (the daily job, and its intake child) only the successes are    *)
(* kept: running, failed and NO_DATA attempts are all tried again, which is *)
(* TargetJob's subject.                                                     *)
(*                                                                          *)
(* A price vintage is a number, newer ones greater, 0 for none that         *)
(* qualifies; vintages past MaxVintage are not told apart.                  *)
(***************************************************************************)
EXTENDS Naturals

CONSTANTS
  Issuances,
  Scheduled,      \* issuances of the scheduler: observed grade, on time only;
                  \* the others are manual: research grade
  V2,             \* issuances of research-product-v2; the others are of v1
  Core, Saved,    \* symbols of the curated core, and those a user may save
  Benchmark, Witness,
  None,
  MaxVintage,     \* bound: price vintages told apart
  MaxCorrections  \* bound: price publications by other commands

ASSUME ConstantsAssumption ==
  /\ Scheduled \subseteq Issuances /\ V2 \subseteq Issuances
  /\ None \notin Issuances
  /\ Core \cap Saved = {} /\ Witness \in Core /\ Benchmark \notin Core \cup Saved
  /\ MaxVintage \in Nat \ {0} /\ MaxCorrections \in Nat

Symbols == Core \cup Saved
Priced == Symbols \cup {Benchmark}
Admission == [Priced -> 0..MaxVintage]

ASSUME NoneAssumption == (\A s \in SUBSET Saved : s # None) /\ (\A a \in Admission : a # None)

VARIABLES
  saved,         \* TrackedSymbol: the symbols the owner has saved
  enabled,       \* settings.RESEARCH_PRODUCT_ENABLED
  declared,      \* the v2 forward protocol has been declared
  open,          \* the next session has not opened yet
  vintage,       \* newest complete price history of each symbol
  conflict,      \* symbols a newer partial history contradicts
  market,        \* the vintage behind LatestMarketData of each symbol
  intake,        \* the captured request: its saved symbols
  batch,         \* the closed liquidity batch: its admissions
  snap,          \* the materialised membership: its admissions
  output,        \* the admissions the committed analysis was computed from
  issued,        \* how many analyses are committed
  frequencies,   \* issuances with a registered frequency report
  asked,         \* the issuance that is asked for, again and again: the lock keeps
                 \* issuances apart, so a behaviour follows one of them
  daily, child,  \* issuances with a successful daily job, and intake child
  cur, pc,       \* the call that holds the lock, and where it is
  adm,           \* "selected": the vintage chosen for each symbol
  listed,        \* "listings": symbols with an admissible catalog identity
  fresh,         \* "freshly_paired"
  todo,          \* symbols a loop has still to visit
  corrections

evidence == <<intake, batch, snap, output, issued>>
env == <<saved, enabled, declared, open, corrections>>
prices == <<vintage, conflict, market>>
jobs == <<asked, daily, child>>
locals == <<adm, listed, fresh, todo>>
vars == <<env, prices, evidence, frequencies, jobs, cur, pc, locals>>

NoAdmission == [s \in Priced |-> 0]

Init ==
  /\ saved \in SUBSET Saved /\ enabled \in BOOLEAN /\ declared \in BOOLEAN
  /\ open = TRUE
  /\ vintage = NoAdmission /\ conflict = {} /\ market = NoAdmission
  /\ intake = [i \in Issuances |-> None] /\ batch = [i \in Issuances |-> None]
  /\ snap = [i \in Issuances |-> None] /\ output = [i \in Issuances |-> None]
  /\ issued = [i \in Issuances |-> 0]
  /\ frequencies = {}
  /\ asked \in Issuances
  /\ daily = {} /\ child = {}
  /\ cur = None /\ pc = "idle"
  /\ adm = NoAdmission /\ listed = {} /\ fresh = {} /\ todo = {}
  /\ corrections = 0

Newer(v) == IF v = MaxVintage THEN v ELSE v + 1
Later(v, w) == IF v >= w THEN v ELSE w
Admitted(a) == {s \in Symbols : a[s] # 0}
Goto(label) == pc' = label

ForgetLocals ==
  /\ adm' = NoAdmission /\ listed' = {} /\ fresh' = {} /\ todo' = {}

\* The call returns or raises, and the lock is released.
Leave == cur' = None /\ pc' = "idle" /\ ForgetLocals

-----------------------------------------------------------------------------
(* The daily attempt *)

\* The lock is taken.  An earlier success makes the call a skip, which is checked
\* against its output; otherwise a new attempt begins.
Start(i) ==
  /\ cur = None /\ i = asked
  /\ cur' = i
  /\ Goto(IF i \in daily THEN "check" ELSE "load")
  /\ UNCHANGED <<env, prices, evidence, frequencies, jobs, locals>>

\* Faulty variants: the recovery of a committed analysis is left out, or asks for the
\* observed window first.
NeverCompleted(i) == FALSE
CompletedOnTime(i) ==
  intake[i] # None /\ snap[i] # None /\ issued[i] = 1 /\ (i \in Scheduled => open)

Completed(i) == intake[i] # None /\ snap[i] # None /\ issued[i] = 1

\* Faulty variant: the benchmark is left out.
AdmittedOnly(a) == Admitted(a)

\* What _project_product_market_state visits after an analysis of the admission.
ToProject(a) == Admitted(a) \cup {Benchmark}

\* load_product_intake and _completed_product_run: a committed analysis is recovered,
\* whatever the switches and the clock say now.
Recover ==
  /\ pc = "load" /\ Completed(cur)
  /\ todo' = ToProject(output[cur])
  /\ Goto("project")
  /\ UNCHANGED <<env, prices, evidence, frequencies, jobs, cur, adm, listed, fresh>>

\* Faulty variant: the product switch stops work that needs no acquisition.
MayIssueEnabled(i) ==
  /\ i \in Scheduled => open
  /\ i \in V2 => declared /\ enabled

MayIssue(i) ==
  /\ i \in Scheduled => open
  /\ i \in V2 => declared /\ (intake[i] = None => enabled)

Proceed ==
  /\ pc = "load" /\ ~Completed(cur) /\ MayIssue(cur)
  /\ Goto(IF intake[cur] = None THEN "capture" ELSE "child")
  /\ UNCHANGED <<env, prices, evidence, frequencies, jobs, cur, locals>>

\* capture_authorized_product_intake reads the saved symbols once, and registers them.
Capture ==
  /\ pc = "capture"
  /\ intake' = [intake EXCEPT ![cur] = saved]
  /\ Goto("child")
  /\ UNCHANGED <<env, prices, batch, snap, output, issued, frequencies, jobs, cur,
                 locals>>

\* The intake child: an earlier success is a skip.
BeginChild ==
  /\ pc = "child"
  /\ Goto(IF cur \in child THEN "analyze" ELSE "intake")
  /\ UNCHANGED <<env, prices, evidence, frequencies, jobs, cur, locals>>

-----------------------------------------------------------------------------
(* intake_task: recovery first, then acquisition *)

RecoverSnapshot ==
  /\ pc = "intake" /\ snap[cur] # None
  /\ Goto("admitted")
  /\ UNCHANGED <<env, prices, evidence, frequencies, jobs, cur, locals>>

\* Faulty variant: a closed batch is not looked for.
NoBatch(i) == FALSE

ClosedBatch(i) == i \in V2 /\ batch[i] # None

\* Where the admissions lead: nothing qualifies, or a membership is materialised.
Qualify(a) == IF Admitted(a) = {} THEN "nodata" ELSE "materialize"

RecoverBatch ==
  /\ pc = "intake" /\ snap[cur] = None /\ ClosedBatch(cur)
  /\ adm' = batch[cur]
  /\ Goto(Qualify(batch[cur]))
  /\ UNCHANGED <<env, prices, evidence, frequencies, jobs, cur, listed, fresh, todo>>

Requested == Core \cup intake[cur]
Usable(s) == IF s \in conflict THEN 0 ELSE vintage[s]

\* _acquire_product_membership up to its request loops: catalogs and listings, and the
\* histories that need no request.
Select ==
  /\ pc = "intake" /\ snap[cur] = None /\ ~ClosedBatch(cur)
  /\ cur \in V2 => enabled
  /\ \E ls \in SUBSET Requested :
       /\ listed' = ls
       /\ adm' = [s \in Priced |-> IF s \in ls \cup {Benchmark} THEN Usable(s) ELSE 0]
       /\ todo' = IF cur \in V2 /\ Witness \in ls THEN ls ELSE {}
  /\ fresh' = {}
  /\ Goto("pair")
  /\ UNCHANGED <<env, prices, evidence, frequencies, jobs, cur>>

\* acquire_liquidity_pairs: the witness first.  A pair is a new split vintage (which does
\* not touch the market row) and an unadjusted one.
Pairable(s) == s \in todo /\ (Witness \in todo => s = Witness)

Pair(s) ==
  /\ pc = "pair" /\ Pairable(s)
  /\ vintage' = [vintage EXCEPT ![s] = Newer(@)]
  /\ conflict' = conflict \ {s}
  /\ adm' = [adm EXCEPT ![s] = vintage'[s]]
  /\ fresh' = fresh \cup {s}
  /\ todo' = todo \ {s}
  /\ UNCHANGED <<env, market, evidence, frequencies, jobs, cur, pc, listed>>

\* The witness, or the quota, stops the pairs that remain; another payload only its own.
PairFails(s) ==
  /\ pc = "pair" /\ Pairable(s)
  /\ \E rest \in {{}, todo \ {s}} : (s = Witness => rest = {}) /\ todo' = rest
  /\ UNCHANGED <<env, prices, evidence, frequencies, jobs, cur, pc, adm, listed, fresh>>

BeginFetch ==
  /\ pc = "pair" /\ todo = {}
  /\ todo' = {s \in listed \cup {Benchmark} : adm[s] = 0}
  /\ listed' = {}
  /\ Goto("fetch")
  /\ UNCHANGED <<env, prices, evidence, frequencies, jobs, cur, adm, fresh>>

\* The benchmark is requested last.
Next1(s) == s \in todo /\ (s = Benchmark => todo = {s})

\* A missing history arrives and qualifies.
Fetch(s) ==
  /\ pc = "fetch" /\ Next1(s)
  /\ vintage' = [vintage EXCEPT ![s] = Newer(@)]
  /\ conflict' = conflict \ {s}
  /\ market' = IF s = Benchmark THEN market ELSE [market EXCEPT ![s] = Later(@, vintage'[s])]
  /\ adm' = [adm EXCEPT ![s] = vintage'[s]]
  /\ todo' = todo \ {s}
  /\ UNCHANGED <<env, evidence, frequencies, jobs, cur, pc, listed, fresh>>

\* It fails or is too short: the symbol is not admitted.  (Without the benchmark the
\* whole attempt fails.)
FetchFails(s) ==
  /\ pc = "fetch" /\ Next1(s) /\ s # Benchmark
  /\ todo' = todo \ {s}
  /\ UNCHANGED <<env, prices, evidence, frequencies, jobs, cur, pc, adm, listed, fresh>>

\* At the decision time everything selected is selected again: what another command
\* published meanwhile counts.
Reselected == [s \in Priced |-> IF s \in fresh \/ adm[s] = 0 THEN adm[s] ELSE Usable(s)]

Decide ==
  /\ pc = "fetch" /\ todo = {} /\ Reselected[Benchmark] # 0
  /\ adm' = Reselected /\ fresh' = {}
  /\ Goto(IF cur \in V2 THEN "close" ELSE Qualify(Reselected))
  /\ UNCHANGED <<env, prices, evidence, frequencies, jobs, cur, listed, todo>>

\* close_liquidity_batch.
CloseBatch ==
  /\ pc = "close" /\ batch[cur] = None
  /\ batch' = [batch EXCEPT ![cur] = adm]
  /\ Goto(Qualify(adm))
  /\ UNCHANGED <<env, prices, intake, snap, output, issued, frequencies, jobs, cur,
                 locals>>

\* materialize_product_membership, one transaction.
Materialize ==
  /\ pc = "materialize" /\ snap[cur] \in {None, adm}
  /\ snap' = [snap EXCEPT ![cur] = adm]
  /\ ForgetLocals
  /\ Goto("admitted")
  /\ UNCHANGED <<env, prices, intake, batch, output, issued, frequencies, jobs, cur>>

FinishChild ==
  /\ pc = "admitted"
  /\ child' = child \cup {cur}
  /\ Goto("analyze")
  /\ UNCHANGED <<env, prices, evidence, frequencies, asked, daily, cur, locals>>

\* Nothing qualified: the child ends with NO_DATA, and so does the daily job.
NoData ==
  /\ pc = "nodata"
  /\ Leave
  /\ UNCHANGED <<env, prices, evidence, frequencies, jobs>>

-----------------------------------------------------------------------------
(* Analysis and what follows it *)

\* analyze_snapshot: one transaction, with the deadline asked again inside it.
Analyze ==
  /\ pc = "analyze" /\ snap[cur] # None
  /\ cur \in Scheduled => open
  /\ output' = [output EXCEPT ![cur] = snap[cur]]
  /\ issued' = [issued EXCEPT ![cur] = @ + 1]
  /\ todo' = ToProject(snap[cur])
  /\ Goto("project")
  /\ UNCHANGED <<env, prices, intake, batch, snap, frequencies, jobs, cur,
                 adm, listed, fresh>>

\* Faulty variant: the projection overwrites what is there.
Overwritten(s) == output[cur][s]

\* update_latest_market_data
Projected(s) == Later(market[s], output[cur][s])

\* _project_product_market_state: one transaction per symbol, the benchmark last.
Project(s) ==
  /\ pc = "project" /\ Next1(s)
  /\ market' = [market EXCEPT ![s] = Projected(s)]
  /\ todo' = todo \ {s}
  /\ UNCHANGED <<env, vintage, conflict, evidence, frequencies, jobs, cur, pc,
                 adm, listed, fresh>>

\* Faulty variant: frequencies are left to the scheduler for manual issuances too.
NoFrequencies == frequencies

\* register_product_frequencies, for a manual issuance.
Registered == IF cur \in Scheduled THEN frequencies ELSE frequencies \cup {cur}

RegisterFrequencies ==
  /\ pc = "project" /\ todo = {}
  /\ frequencies' = Registered
  /\ Goto("finish")
  /\ UNCHANGED <<env, prices, evidence, jobs, cur, locals>>

FinishDaily ==
  /\ pc = "finish"
  /\ daily' = daily \cup {cur}
  /\ Goto("check")
  /\ UNCHANGED <<env, prices, evidence, frequencies, asked, child, cur, locals>>

\* The recorded success is checked against the intake and its output.
Check ==
  /\ pc = "check"
  /\ Leave
  /\ UNCHANGED <<env, prices, evidence, frequencies, jobs>>

-----------------------------------------------------------------------------
(* Failures *)

InTask == {"load", "capture", "child", "intake", "pair", "fetch", "close", "materialize",
           "admitted", "nodata", "analyze", "project", "finish", "check"}

\* A guard of the code refuses to go on: the deadline, the declaration, the product switch,
\* or a benchmark whose history another command has contradicted meanwhile.
Refused ==
  \/ pc = "load" /\ ~Completed(cur) /\ ~MayIssue(cur)
  \/ pc = "intake" /\ snap[cur] = None /\ ~ClosedBatch(cur) /\ cur \in V2 /\ ~enabled
  \/ pc = "fetch" /\ todo = {} /\ Reselected[Benchmark] = 0
  \/ pc = "analyze" /\ cur \in Scheduled /\ ~open

Refuse ==
  /\ Refused
  /\ Leave
  /\ UNCHANGED <<env, prices, evidence, frequencies, jobs>>

\* Any other step may raise (the provider, the database, storage), and the process may die
\* anywhere: committed evidence stays, and the lock is released.  (A death in the last
\* check is not told apart from its end.)
Abort ==
  /\ pc \in InTask \ {"nodata", "check"} /\ ~Refused
  /\ Leave
  /\ UNCHANGED <<env, prices, evidence, frequencies, jobs>>

-----------------------------------------------------------------------------
(* What goes on without the lock *)

\* The owner edits the saved symbols; the operator flips the product switch.
ChangeSaved ==
  /\ \E s \in SUBSET Saved : s # saved /\ saved' = s
  /\ UNCHANGED <<enabled, declared, open, corrections, prices, evidence, frequencies, jobs,
                 cur, pc, locals>>

SwitchProduct ==
  /\ enabled' = ~enabled
  /\ UNCHANGED <<saved, declared, open, corrections, prices, evidence, frequencies, jobs,
                 cur, pc, locals>>

Declare ==
  /\ ~declared /\ declared' = TRUE
  /\ UNCHANGED <<saved, enabled, open, corrections, prices, evidence, frequencies, jobs,
                 cur, pc, locals>>

NextSessionOpens ==
  /\ open /\ open' = FALSE
  /\ UNCHANGED <<saved, enabled, declared, corrections, prices, evidence, frequencies, jobs,
                 cur, pc, locals>>

\* A saved-list price refresh, or the daily job of the older product, publishes a complete
\* history, or a partial one that contradicts the complete one.
Correct(s) ==
  /\ corrections < MaxCorrections /\ corrections' = corrections + 1
  /\ \/ /\ vintage' = [vintage EXCEPT ![s] = Newer(@)]
        /\ conflict' = conflict \ {s}
        /\ market' = [market EXCEPT ![s] = Later(@, vintage'[s])]
     \/ /\ vintage[s] # 0 /\ conflict' = conflict \cup {s}
        /\ UNCHANGED <<vintage, market>>
  /\ UNCHANGED <<saved, enabled, declared, open, evidence, frequencies, jobs, cur, pc,
                 locals>>

\* The standalone backfill of a frequency report.
Backfill(i) ==
  /\ issued[i] = 1 /\ i \notin frequencies
  /\ frequencies' = frequencies \cup {i}
  /\ UNCHANGED <<env, prices, evidence, jobs, cur, pc, locals>>

TaskStep ==
  \/ Recover \/ Proceed \/ Capture \/ BeginChild
  \/ RecoverSnapshot \/ RecoverBatch \/ Select
  \/ \E s \in Symbols : Pair(s) \/ PairFails(s) \/ FetchFails(s)
  \/ BeginFetch \/ Decide \/ CloseBatch \/ Materialize
  \/ FinishChild \/ NoData
  \/ \E s \in Priced : Fetch(s) \/ Project(s)
  \/ Analyze \/ RegisterFrequencies \/ FinishDaily \/ Check
  \/ Refuse

Environment ==
  \/ ChangeSaved \/ SwitchProduct \/ Declare \/ NextSessionOpens
  \/ \E s \in Priced : Correct(s)
  \/ \E i \in Issuances : Backfill(i)

Next ==
  \/ \E i \in Issuances : Start(i)
  \/ TaskStep \/ Abort
  \/ Environment

Spec == Init /\ [][Next]_vars

\* Whoever asked for an issuance asks again while it is not satisfied, a call that is not
\* killed goes on, and calls do not fail or die for ever (they may be refused for ever).
Fairness ==
  /\ WF_vars(TaskStep)
  /\ \A i \in Issuances : SF_vars(Start(i))
  /\ <>[][~Abort]_vars

FairSpec == Spec /\ Fairness

-----------------------------------------------------------------------------
(* Properties *)

\* Every variable has its type; in particular an issuance has at most one analysis, so
\* that its recovery is never ambiguous.
TypeOK ==
  /\ saved \subseteq Saved /\ enabled \in BOOLEAN /\ declared \in BOOLEAN /\ open \in BOOLEAN
  /\ vintage \in Admission /\ market \in Admission /\ conflict \subseteq Priced
  /\ intake \in [Issuances -> (SUBSET Saved) \cup {None}]
  /\ batch \in [Issuances -> Admission \cup {None}]
  /\ snap \in [Issuances -> Admission \cup {None}]
  /\ output \in [Issuances -> Admission \cup {None}]
  /\ issued \in [Issuances -> 0..1]
  /\ frequencies \subseteq Issuances
  /\ asked \in Issuances /\ daily \subseteq Issuances /\ child \subseteq Issuances
  /\ cur \in Issuances \cup {None}
  /\ pc \in InTask \cup {"idle"}
  /\ (pc = "idle") <=> (cur = None)
  /\ adm \in Admission /\ listed \subseteq Symbols /\ fresh \subseteq Symbols
  /\ todo \subseteq Priced
  /\ corrections \in 0..MaxCorrections

\* No provider credit is spent for an issuance whose evidence can be recovered: requests
\* are made only while it has no closed batch, no membership and no analysis.
RequestsOnlyWhileOpen ==
  pc \in {"pair", "fetch"} =>
    /\ snap[cur] = None /\ issued[cur] = 0
    /\ cur \in V2 => batch[cur] = None

\* A successful daily job stands on the whole chain, wherever earlier attempts were cut
\* off: the child succeeded, one analysis of exactly the admitted cohort is committed,
\* the market rows are at least as new as the prices it used, and a manual issuance has
\* its frequency report.  The check at the end of a call never fails.
SuccessComplete ==
  \A i \in daily :
    /\ i \in child /\ issued[i] = 1 /\ output[i] = snap[i]
    /\ \A s \in Admitted(output[i]) \cup {Benchmark} : market[s] >= output[i][s]
    /\ i \notin Scheduled => i \in frequencies

\* Latest market data never goes back to an older price vintage, although issuances
\* project the vintages they captured, late and in any order.
MarketNeverRegresses == [][\A s \in Priced : market'[s] >= market[s]]_market

\* The evidence of an issuance is captured, closed, admitted and issued in order, each
\* once, each from the one before, and never changed.
Evidence == INSTANCE IssuanceEvidence
ImplementsEvidence == Evidence!Spec

\* A committed analysis is recovered: its daily job succeeds in the end, whether or not
\* the session has opened or the product was switched off since.
CommittedEventuallySucceeds ==
  \A i \in Issuances : (issued[i] = 1) ~> (i \in daily)

\* An admitted cohort is analysed, even with the product switched off for new work,
\* unless it was meant for a session that has opened since.
AdmittedEventuallyIssued ==
  \A i \in Issuances : (snap[i] # None) ~> (issued[i] = 1 \/ (i \in Scheduled /\ ~open))
=============================================================================
