----------------------------- MODULE DailyGate -----------------------------
(***************************************************************************)
(* The US daily market job of one target date and the legacy scheduled      *)
(* refresh that wraps it: data/jobs.py (the frozen long-forecast gate and   *)
(* its reservation), the recovery in data/live_us.py: run_us_daily, and     *)
(* core/management/commands/scheduled_refresh.py.                           *)
(*                                                                          *)
(* Whether the run asks for long forecasts (the gate) is decided once per   *)
(* target and frozen in the details of an attempt row, because the setting  *)
(* it is sampled from (SEC enabled) may change between attempts.  The       *)
(* scheduler reserves the gate for its own market stage; operators run the  *)
(* daily command beside it.  The refresh succeeds when what stands in the   *)
(* database passes core/refresh_verification.py: evidence committed on time *)
(* at the revision the scheduler runs, whoever committed it.                *)
(*                                                                          *)
(* Attempt rows appear here only through what the                           *)
(* code reads of them: the gates they record, the running rows that carry   *)
(* the reservation marker, and whether one succeeded (TargetJob has the     *)
(* ledger itself).  The reviewed configuration files a verification loads   *)
(* are taken to stay as they are: an upgrade changes the revision alone.     *)
(***************************************************************************)
EXTENDS Naturals, FiniteSets

CONSTANTS
  Operators,   \* processes that run the daily command by hand
  Sched,       \* the scheduler process; contention for its own lock is TargetJob's
  Ids,         \* identities of reservation rows, reused once forgotten
  None,        \* absent: no gate, reservation, output or record; an unknown revision
  MaxUpgrades  \* bound: new revisions of the checkout

ASSUME ConstantsAssumption ==
  /\ Sched \notin Operators
  /\ None \notin Operators \cup {Sched} /\ None \notin BOOLEAN /\ None \notin Nat
  /\ None \notin Ids /\ \E i, j \in Ids : i # j
  /\ MaxUpgrades \in Nat

Procs == Operators \cup {Sched}

VARIABLES
  secEnabled,    \* ProviderRecord("sec").enabled, an operator's switch
  secDone,       \* a successful SEC fundamentals run exists for the target
  frozen,        \* the gates recorded in details of daily attempts
  reservations,  \* running daily attempts that carry the reservation marker
  success,       \* the gate recorded by the successful daily run, or None
  output,        \* the committed analysis: its gate and revision, and if it was on time
  commits,       \* history: how many analyses were committed
  parent,        \* the scheduler's latest row: "none", "running", "failed", "success"
  record,        \* the details a successful parent names, or None
  children,      \* the evaluation and the portfolio child of the target: "none" until both
                 \* have succeeded, then "hold" while the evaluation verifies, or "overtaken"
  late,          \* the next session has opened
  head,          \* the revision of the checkout
  moved,         \* another job replaced a market row the analysis was made from
  dlock,         \* the holder of the daily target lock
  pc, gate, expect, cur, first, observed, task  \* locals of each process, see Init

marketvars == <<frozen, success, output, commits>>
stagevars == <<parent, record, children>>
outside == <<secEnabled, late, head, moved>>
dbvars == <<secDone, reservations, marketvars, stagevars>>
locals == <<gate, expect, cur, first, observed, task>>
vars == <<dbvars, outside, dlock, pc, locals>>

Gates == BOOLEAN \cup {None}
Outputs == [gate : BOOLEAN, revision : (0..MaxUpgrades) \cup {None}, onTime : BOOLEAN]
Tasks == [revision : 0..MaxUpgrades, observed : BOOLEAN, sec : BOOLEAN]
ASSUME NoneAssumption == None \notin Outputs \cup Tasks

\* A reservation's owner is the daily command, the scheduler's running row, or a
\* scheduler row that is no longer running.
Reservation == [id : Ids, owner : {"daily", "parent", "ended"}, gate : BOOLEAN]

Init ==
  /\ secEnabled \in BOOLEAN
  /\ secDone \in BOOLEAN
  /\ frozen = {} /\ reservations = {}
  /\ success = None /\ output = None /\ commits = 0
  /\ parent = "none" /\ record = None
  /\ children = "none"
  /\ late = FALSE /\ head = 0 /\ moved = FALSE
  /\ dlock = None
  /\ pc = [p \in Procs |-> "idle"]
  /\ gate = [p \in Procs |-> None]     \* the explicit, then the effective gate
  /\ expect = [p \in Procs |-> None]   \* target_gate_reservation_id
  /\ cur = [p \in Procs |-> None]      \* the reserved attempt being executed
  /\ first = [p \in Procs |-> FALSE]   \* market_output_committed, as the scheduler read it
  /\ observed = [p \in Procs |-> FALSE]  \* the grade its command resolved when it started
  /\ task = None                       \* revision, grade and required stages, of Sched

Goto(p, label) == pc' = [pc EXCEPT ![p] = label]
Unlocked == dlock = None

\* The process forgets its locals.
Forget(p) ==
  /\ Goto(p, "idle")
  /\ gate' = [gate EXCEPT ![p] = None]
  /\ expect' = [expect EXCEPT ![p] = None]
  /\ cur' = [cur EXCEPT ![p] = None]
  /\ first' = [first EXCEPT ![p] = FALSE]
  /\ observed' = [observed EXCEPT ![p] = FALSE]
  /\ task' = IF p = Sched THEN None ELSE task

\* Faulty variant: a reservation stays with the scheduler's row for ever.
StillOwned(rs) == rs

\* The scheduler's row stops running: reservations it owned lose their protection.
Disowned(rs) == {IF r.owner = "parent" THEN [r EXCEPT !.owner = "ended"] ELSE r : r \in rs}

\* The grade a command resolves for the target, by the time it starts.
Observed == ~late

\* Faulty variant: the committed analysis is not found.
NeverCompleted == FALSE

Completed == output # None

-----------------------------------------------------------------------------
(* _reserve_us_daily_target_gate_locked *)

\* Faulty variant: an active reservation is adopted whoever owns it.
AdoptAnyRefused(explicit, expected) ==
  \/ Cardinality(frozen) > 1 \/ Cardinality(reservations) > 1
  \/ Completed /\ frozen = {}
  \/ explicit # None /\ frozen # {} /\ explicit \notin frozen
  \/ expected # None /\ ~\E r \in reservations : r.id = expected

GateRefused(explicit, expected) ==
  \/ Cardinality(frozen) > 1 \/ Cardinality(reservations) > 1
  \/ Completed /\ frozen = {}
  \/ explicit # None /\ frozen # {} /\ explicit \notin frozen
  \/ IF expected # None THEN ~\E r \in reservations : r.id = expected
                        ELSE \E r \in reservations : r.owner = "parent"

\* Faulty variants: the switch is not sampled, or every call samples it again.
GateUnsampled(explicit) == explicit
GateResampled(explicit) == IF explicit # None THEN explicit ELSE secEnabled

GateFor(explicit) ==
  IF frozen # {} THEN CHOOSE g \in frozen : TRUE
  ELSE IF explicit # None THEN explicit ELSE secEnabled

\* An identity no row and no process holds.
FreshId == CHOOSE i \in Ids : i \notin {r.id : r \in reservations}
                                \cup {expect[p] : p \in Procs} \cup {cur[p] : p \in Procs}

\* The transaction, when it is not refused: the active reservation is adopted unless
\* it is the expected one; without one, and without a success, a row is created.
ReserveRow(explicit, owner, expected) ==
  LET g == GateFor(explicit) IN
    IF reservations # {}
      THEN /\ reservations' = IF expected # None THEN reservations
                              ELSE {[r EXCEPT !.owner = owner] : r \in reservations}
           /\ UNCHANGED frozen
    ELSE IF success = None
      THEN /\ reservations' = {[id |-> FreshId, owner |-> owner, gate |-> g]}
           /\ frozen' = frozen \cup {g}
    ELSE UNCHANGED <<reservations, frozen>>

\* reservation_id of the result, read after the transaction.
ActiveId(rs) == IF rs = {} THEN None ELSE (CHOOSE r \in rs : TRUE).id

-----------------------------------------------------------------------------
(* execute_us_daily_job, entered at "gate" *)

\* The operator runs the daily command.
RunDaily(p) ==
  /\ p \in Operators /\ pc[p] = "idle"
  /\ Goto(p, "gate")
  /\ observed' = [observed EXCEPT ![p] = Observed]
  /\ UNCHANGED <<dbvars, outside, dlock, gate, expect, cur, first, task>>

\* execute_us_daily_job ends with an error: an operator's command ends, and the
\* scheduler's market stage fails its whole row.
DailyError(p) ==
  /\ dlock' = IF dlock = p THEN None ELSE dlock
  /\ Forget(p)
  /\ IF p = Sched THEN parent' = "failed" /\ reservations' = Disowned(reservations)
                  ELSE UNCHANGED <<parent, reservations>>
  /\ UNCHANGED <<secDone, marketvars, record, children, outside>>

\* It returns a satisfied run: an operator's command ends, and the scheduler goes on to
\* SEC (when the output had been committed before) or to its other children.
DailyReturn(p) ==
  /\ dlock' = None
  /\ IF p = Sched
       THEN /\ Goto(p, IF first[p] THEN "sec" ELSE "children")
            /\ cur' = [cur EXCEPT ![p] = None]
            /\ expect' = [expect EXCEPT ![p] = None]
            /\ UNCHANGED <<gate, first, observed, task>>
       ELSE Forget(p)

GateError(p) ==
  /\ pc[p] = "gate" /\ Unlocked
  /\ GateRefused(gate[p], expect[p])
  /\ DailyError(p)

\* before_attempt: the lock is taken and the gate resolved.
ResolveGate(p) ==
  /\ pc[p] = "gate" /\ Unlocked
  /\ ~GateRefused(gate[p], expect[p])
  /\ dlock' = p
  /\ ReserveRow(gate[p], "daily", expect[p])
  /\ gate' = [gate EXCEPT ![p] = GateFor(@)]
  /\ cur' = [cur EXCEPT ![p] = ActiveId(reservations')]
  /\ Goto(p, "begin")
  /\ UNCHANGED <<secDone, success, output, commits, stagevars, outside, expect, first,
                 observed, task>>

\* A prior success: the run is a skip, and its gate must be the resolved one.
SkipDaily(p) ==
  /\ pc[p] = "begin" /\ success # None
  /\ IF success = gate[p] THEN DailyReturn(p) /\ UNCHANGED <<dbvars, outside>>
                          ELSE DailyError(p)

\* The reserved row becomes the real attempt, and the task's first statement rewrites its
\* details to the gate alone; any other running row is superseded.  No reservation is left.
Begin(p) ==
  /\ pc[p] = "begin" /\ success = None
  /\ reservations' = {}
  /\ Goto(p, "run")
  /\ UNCHANGED <<secDone, marketvars, stagevars, outside, dlock, locals>>

\* The scheduler's run is refused when its command was already too late, before anything is
\* recovered, and rolls back when the deadline passes before its commit.
Refused(p) == p = Sched /\ ~observed[p]
MayCommit(p) == p = Sched => ~late

\* The revision the process has in its environment, if any: the scheduler puts HEAD there.
Revision(p) == IF p = Sched THEN {task.revision} ELSE {None, head}

\* run_us_daily: recover the committed analysis,
Recover(p) ==
  /\ pc[p] = "run" /\ ~Refused(p) /\ Completed
  /\ Goto(p, "finish")
  /\ UNCHANGED <<dbvars, outside, dlock, locals>>

\* or acquire prices and commit one, in one transaction.
Commit(p) ==
  /\ pc[p] = "run" /\ ~Refused(p) /\ ~Completed /\ MayCommit(p)
  /\ commits' = commits + 1
  /\ \E r \in Revision(p) :
       output' = [gate |-> gate[p], revision |-> r, onTime |-> observed[p] /\ ~late]
  /\ Goto(p, "finish")
  /\ UNCHANGED <<secDone, frozen, reservations, success, stagevars, outside, dlock, locals>>

Run(p) == Recover(p) \/ Commit(p)

\* The attempt's row becomes the success and records the gate; the row of SPY has followed
\* the commit or the recovery.
Finish(p) ==
  /\ pc[p] = "finish"
  /\ success' = gate[p]
  /\ DailyReturn(p)
  /\ UNCHANGED <<secDone, frozen, reservations, output, commits, stagevars, outside>>

\* Provider, deadline or validation failure before the commit, or a failure after it
\* (provider bookkeeping, the SPY sync): the row fails and keeps its gate.
FailDaily(p) == pc[p] \in {"run", "finish"} /\ DailyError(p)

-----------------------------------------------------------------------------
(* scheduled_refresh, for one target *)

\* The parent attempt begins and supersedes a stale running one.
StartParent ==
  /\ pc[Sched] = "idle" /\ parent # "success"
  /\ parent' = "running"
  /\ reservations' = Disowned(reservations)
  /\ observed' = [observed EXCEPT ![Sched] = Observed]
  /\ task' = [revision |-> head, observed |-> Observed, sec |-> FALSE]
  /\ Goto(Sched, "propose")
  /\ UNCHANGED <<secDone, marketvars, record, children, outside,
                 dlock, gate, expect, cur, first>>

EndParent(status) ==
  /\ parent' = status
  /\ reservations' = Disowned(reservations)
  /\ Forget(Sched)
  /\ UNCHANGED <<secDone, marketvars, children, outside, dlock>>

FailParent == EndParent("failed") /\ UNCHANGED record

\* proposed_us_daily_target_gate: read without the daily lock.
Propose ==
  /\ pc[Sched] = "propose"
  /\ ~(Completed /\ frozen = {}) /\ Cardinality(frozen) <= 1
  /\ gate' = [gate EXCEPT ![Sched] = GateFor(None)]
  /\ Goto(Sched, "reserve")
  /\ UNCHANGED <<dbvars, outside, dlock, expect, cur, first, observed, task>>

\* The checkout has uncommitted changes, or the proposal is refused.
FailPropose == pc[Sched] = "propose" /\ FailParent

\* reserve_us_daily_target_gate, with the proposal as the explicit gate.
ReserveGate ==
  /\ pc[Sched] = "reserve" /\ Unlocked
  /\ ~GateRefused(gate[Sched], None)
  /\ ReserveRow(gate[Sched], "parent", None)
  /\ expect' = [expect EXCEPT ![Sched] = ActiveId(reservations')]
  /\ LET committed == success # None \/ Completed IN
       /\ first' = [first EXCEPT ![Sched] = committed]
       /\ Goto(Sched, IF committed THEN "gate" ELSE "sec")
  /\ UNCHANGED <<secDone, success, output, commits, stagevars, outside,
                 dlock, gate, cur, observed, task>>

ReserveRefused ==
  /\ pc[Sched] = "reserve" /\ Unlocked
  /\ GateRefused(gate[Sched], None)
  /\ FailParent

SecRequired == gate[Sched] \/ secDone

\* Faulty variant: no success is recovered behind a committed analysis.
CommittedFirst == first[Sched]

\* The analysis was committed before any SEC success: a new one would come after it.
SecTooLate == first[Sched] /\ ~secDone

AfterSec == IF first[Sched] THEN "children" ELSE "gate"

\* Every request of the SEC job takes a slot of the provider's row, which must be enabled; a
\* job that succeeded before is a skip and asks for nothing.
SecMayRun == secDone \/ secEnabled

\* The SEC stage is not needed, or it succeeds.
PassSec ==
  /\ pc[Sched] = "sec"
  /\ IF SecRequired THEN ~SecTooLate /\ SecMayRun /\ secDone' = TRUE ELSE UNCHANGED secDone
  /\ task' = [task EXCEPT !.sec = SecRequired]
  /\ Goto(Sched, AfterSec)
  /\ UNCHANGED <<reservations, marketvars, stagevars, outside,
                 dlock, gate, expect, cur, first, observed>>

\* The stage fails, or the market output was committed before any SEC success.
FailSec == pc[Sched] = "sec" /\ SecRequired /\ FailParent

\* The evaluation and portfolio children succeed, now or before (a success is a skip, its
\* evidence stays as it is), or one of them fails; the other is run all the same.
CompleteChildren ==
  /\ pc[Sched] = "children"
  /\ children' = IF children = "none" THEN "hold" ELSE children
  /\ Goto(Sched, "verify")
  /\ UNCHANGED <<secDone, reservations, marketvars, parent, record, outside, dlock, locals>>

FailChildren == pc[Sched] = "children" /\ children = "none" /\ FailParent

\* The stages succeeded, and the outcomes of the evaluation are derived again from the rows
\* of the moment.
ChildrenSatisfied(t) == success # None /\ (t.sec => secDone) /\ children = "hold"
GateServed(t) == success => t.sec

\* Faulty variant: an analysis of any revision will do.
IssuedOnTime(t) == output.onTime

IssuedAsNamed(t) == output.onTime /\ output.revision = t.revision

\* The market rows still name the prices the analysis used.
PricesCurrent == ~moved

\* verify_scheduled_refresh
Verified(t) ==
  ChildrenSatisfied(t) /\ GateServed(t) /\ IssuedAsNamed(t) /\ PricesCurrent

FailVerification == pc[Sched] = "verify" /\ ~Verified(task) /\ FailParent

SucceedParent ==
  /\ pc[Sched] = "verify" /\ Verified(task)
  /\ record' = task
  /\ EndParent("success")

\* replay_recorded_scheduled_refresh: an SEC success of the target is required whether or
\* not it was there when the parent ran, and so is the grade of a run before the next open.
Replays ==
  /\ record.sec = (success \/ secDone)
  /\ record.observed
  /\ Verified(record)

-----------------------------------------------------------------------------
Process == <<dlock, pc, locals>>
Inside == UNCHANGED <<reservations, marketvars, stagevars, Process>>

\* The operator switches SEC on or off, or runs the SEC job alone.
SwitchSec ==
  /\ secEnabled' = ~secEnabled
  /\ UNCHANGED <<secDone, late, head, moved>> /\ Inside

RunSec ==
  /\ ~secDone /\ secEnabled
  /\ secDone' = TRUE
  /\ UNCHANGED outside /\ Inside

\* The next session opens; until it closes the target stays the one to refresh.
Open ==
  /\ ~late /\ late' = TRUE
  /\ UNCHANGED <<secDone, secEnabled, head, moved>> /\ Inside

\* A new revision is checked out.
Upgrade ==
  /\ head < MaxUpgrades /\ head' = head + 1
  /\ UNCHANGED <<secDone, secEnabled, late, moved>> /\ Inside

\* My List, or the refresh of another session, publishes prices: update_latest_market_data.
\* What is published before the analysis reads them is what it reads.
MoveRows ==
  /\ output # None /\ ~moved /\ moved' = TRUE
  /\ UNCHANGED <<secDone, secEnabled, late, head>> /\ Inside

\* The evaluate command, or the evaluation of another target, writes an outcome again that
\* the child had left unresolved, or a price history of the child's time commits after it: the
\* evaluation does not verify any more.  (Before both children have succeeded this is the
\* same as right after.)
Overtake ==
  /\ children = "hold" /\ children' = "overtaken"
  /\ UNCHANGED <<secDone, reservations, marketvars, parent, record, outside, Process>>

\* A process dies.  Rows stay as they are: a running scheduler row keeps running, and a
\* reservation not yet rewritten stays a reservation.
Crash(p) ==
  /\ pc[p] # "idle"
  /\ dlock' = IF dlock = p THEN None ELSE dlock
  /\ Forget(p)
  /\ UNCHANGED <<dbvars, secEnabled, late, head, moved>>

DailyStep(p) ==
  \/ GateError(p) \/ ResolveGate(p) \/ SkipDaily(p) \/ Begin(p)
  \/ Run(p) \/ Finish(p) \/ FailDaily(p)

SchedStep ==
  \/ StartParent \/ Propose \/ FailPropose \/ ReserveGate \/ ReserveRefused
  \/ PassSec \/ FailSec
  \/ CompleteChildren \/ FailChildren \/ FailVerification \/ SucceedParent

Next ==
  \/ \E p \in Procs : RunDaily(p) \/ DailyStep(p) \/ Crash(p)
  \/ SchedStep
  \/ SwitchSec \/ RunSec \/ Open \/ Upgrade \/ MoveRows \/ Overtake

Spec == Init /\ [][Next]_vars

\* The scheduler takes the lock of the daily target.
SchedLocks == ReserveGate \/ ReserveRefused \/ ResolveGate(Sched) \/ GateError(Sched)

\* Assumed of the operation: while the target is not done somebody starts its refresh
\* again, a process that is not killed goes on, the scheduler gets a lock it waits for, and
\* none of its stages fails for ever when it is tried for ever.
Fairness ==
  /\ WF_vars(SchedStep) /\ SF_vars(SchedLocks)
  /\ SF_vars(Propose) /\ SF_vars(PassSec)
  /\ SF_vars(Run(Sched)) /\ SF_vars(Finish(Sched))
  /\ SF_vars(CompleteChildren)
  /\ \A p \in Procs : WF_vars(DailyStep(p))
  /\ <>[][\A p \in Procs : ~Crash(p)]_vars

FairSpec == Spec /\ Fairness

-----------------------------------------------------------------------------
(* Properties *)

\* Every variable has its type.
TypeOK ==
  /\ secEnabled \in BOOLEAN /\ secDone \in BOOLEAN
  /\ frozen \subseteq BOOLEAN /\ reservations \subseteq Reservation
  /\ success \in Gates /\ output \in Outputs \cup {None} /\ commits \in Nat
  /\ parent \in {"none", "running", "failed", "success"} /\ record \in Tasks \cup {None}
  /\ children \in {"none", "hold", "overtaken"}
  /\ late \in BOOLEAN /\ head \in 0..MaxUpgrades /\ moved \in BOOLEAN
  /\ dlock \in Procs \cup {None}
  /\ pc \in [Procs -> {"idle", "gate", "begin", "run", "finish", "propose", "reserve",
                       "sec", "children", "verify"}]
  /\ gate \in [Procs -> Gates] /\ first \in [Procs -> BOOLEAN]
  /\ observed \in [Procs -> BOOLEAN] /\ task \in Tasks \cup {None}
  /\ expect \in [Procs -> Ids \cup {None}] /\ cur \in [Procs -> Ids \cup {None}]

\* The gate of a target is decided once, and so is its analysis: whatever the operator
\* switches, and whoever dies between a commit and the success of its row, all attempts
\* record one gate, at most one reservation is active, one analysis is committed (a later
\* run recovers it), and it and the successful run were made with that gate.  The
\* ValueErrors data/jobs.py raises for conflicting gates are never raised.
OneGatePerTarget ==
  /\ Cardinality(frozen) <= 1 /\ Cardinality(reservations) <= 1 /\ commits <= 1
  /\ output # None => frozen = {output.gate}
  /\ success # None => output # None /\ success = output.gate

\* A reservation that belongs to a running scheduler row is consumed or changed by the
\* scheduler alone; an operator's daily command never takes it over.
ReservationRespected ==
  [][\A r \in reservations : r.owner = "parent" /\ r \notin reservations'
       => pc'[Sched] # pc[Sched]]_vars

\* A successful scheduled refresh stands on an analysis that was issued on time at the
\* revision it names, although an operator's run may have committed it, late, or an
\* upgrade come between; when the analysis asked for long forecasts the SEC evidence is
\* there.  And the success replays, unless it was started after the next open (a skip of a
\* market run that succeeded before it), and until prices it used are replaced, an SEC
\* success of the target appears that it has not recorded, or its evaluation is overtaken.
ParentSuccessBacked ==
  parent = "success" =>
    /\ success # None /\ (success => secDone)
    /\ output.onTime /\ output.revision = record.revision
    /\ \/ Replays
       \/ ~record.observed \/ moved \/ (secDone /\ ~record.sec) \/ children = "overtaken"

\* A gate frozen with long forecasts finds its SEC success, or the switch to make one.
SecAvailable == TRUE \in frozen => SecMayRun

\* No crash, reservation or changed switch blocks the market run of a target for ever, before
\* the next session opens, but for this: the run of a gate frozen with long forecasts waits
\* until SEC has succeeded, for which the switch must in the end stay on.
MarketEventuallySucceeds == <>[]SecAvailable => <>(success # None \/ late)

\* Once the market run has succeeded with an analysis on time and at the checkout's
\* revision, whose prices stay current and whose SEC evidence, if it needs any, is there,
\* and as long as its evaluation is not overtaken, nothing a dead or failed attempt left
\* behind keeps the refresh from succeeding, before or after the next open.
Ready ==
  /\ success # None /\ (success => secDone)
  /\ output.onTime /\ output.revision = head
  /\ ~moved /\ children # "overtaken"

RefreshEventuallySucceeds == <>[]Ready => <>(parent = "success")
=============================================================================
