----------------------------- MODULE TargetJob -----------------------------
(***************************************************************************)
(* core/jobs.py: execute_target_job for one target identity                 *)
(* (job_name, region, target_date), run by several operating-system         *)
(* processes, any of which may die at any step.                             *)
(*                                                                          *)
(* The target lock (a PostgreSQL advisory lock, or a thread lock plus flock *)
(* on SQLite) is released when its holder dies.  The JobRun rows of the     *)
(* target are an append-only sequence: attempt numbers are max + 1 and no   *)
(* row is deleted, so a row's position is its attempt number.               *)
(***************************************************************************)
EXTENDS Naturals, Sequences

CONSTANTS
  Procs,        \* processes that run the job: scheduler, command line, web worker
  NoProc,       \* nobody holds the lock
  MaxAttempts   \* the largest attempt the column can store (smallint)

ASSUME NoProcAssumption == NoProc \notin Procs
ASSUME MaxAttemptsAssumption == MaxAttempts \in Nat \ {0}

VARIABLES
  rows,   \* the JobRun rows of this target, in attempt order
  lock,   \* the holder of the target lock
  pc,     \* where each process is in execute_target_job
  cur     \* the attempt a process works on (reserved or begun), 0 for none

vars == <<rows, lock, pc, cur>>

Status == {"running", "success", "failed", "skipped", "no_data"}
\* Faulty variant: the status a task returns is not validated.
UncheckedResult == {"success", "no_data", "skipped", "cancelled"}
\* The statuses a task may return; anything else is a ValueError and fails the run.
TaskResult == {"success", "no_data", "skipped"}
\* of: details.successful_run_id of a row skipped because the target already succeeded.
Row == [status : Status, of : 0..MaxAttempts]

NewRow(s, a) == [status |-> s, of |-> a]
Attempts == DOMAIN rows
Succeeded == {a \in Attempts : rows[a].status = "success"}
Running == {a \in Attempts : rows[a].status = "running"}
NextAttempt == Len(rows) + 1

Init ==
  /\ rows = <<>>
  /\ lock = NoProc
  /\ pc = [p \in Procs |-> "idle"]
  /\ cur = [p \in Procs |-> 0]

\* The caller reaches `with target_job_lock(...)` and blocks there.
Request(p) ==
  /\ pc[p] = "idle"
  /\ pc' = [pc EXCEPT ![p] = "waiting"]
  /\ UNCHANGED <<rows, lock, cur>>

\* Faulty variant: the lock excludes nobody.
AcquireUnlocked(p) ==
  /\ pc[p] = "waiting"
  /\ lock' = p
  /\ pc' = [pc EXCEPT ![p] = "before"]
  /\ UNCHANGED <<rows, cur>>

Acquire(p) ==
  /\ pc[p] = "waiting"
  /\ lock = NoProc
  /\ lock' = p
  /\ pc' = [pc EXCEPT ![p] = "before"]
  /\ UNCHANGED <<rows, cur>>

\* Faulty variant: an exit that forgets the lock.
KeepLock(p) ==
  /\ pc' = [pc EXCEPT ![p] = "idle"]
  /\ cur' = [cur EXCEPT ![p] = 0]
  /\ UNCHANGED lock

\* Every exit from the `with` block: the lock is released whatever happened.
Leave(p) ==
  /\ lock' = NoProc
  /\ pc' = [pc EXCEPT ![p] = "idle"]
  /\ cur' = [cur EXCEPT ![p] = 0]

\* before_attempt is absent or returns None.
NoReservation(p) ==
  /\ pc[p] = "before"
  /\ pc' = [pc EXCEPT ![p] = "ready"]
  /\ UNCHANGED <<rows, lock, cur>>

\* before_attempt returns a running row.  The callers return only rows they reserved
\* (DailyGate); execute_target_job itself accepts any running row of the target.
AdoptReservation(p) ==
  /\ pc[p] = "before"
  /\ \E a \in Running : cur' = [cur EXCEPT ![p] = a]
  /\ pc' = [pc EXCEPT ![p] = "ready"]
  /\ UNCHANGED <<rows, lock>>

\* before_attempt creates a running row, which it does only while the target has no
\* success (see DailyGate).
Reserve(p) ==
  /\ pc[p] = "before"
  /\ Succeeded = {}
  /\ NextAttempt <= MaxAttempts
  /\ rows' = Append(rows, NewRow("running", 0))
  /\ cur' = [cur EXCEPT ![p] = NextAttempt]
  /\ pc' = [pc EXCEPT ![p] = "ready"]
  /\ UNCHANGED lock

\* The lock was taken only to reserve (reserve_us_daily_target_gate), or
\* before_attempt raised.
LeaveBefore(p) ==
  /\ pc[p] \in {"before", "ready"}
  /\ Leave(p)
  /\ UNCHANGED rows

\* A prior success: record a skipped attempt that names it and return.
Skip(p) ==
  /\ pc[p] = "ready"
  /\ NextAttempt <= MaxAttempts
  /\ \E a \in Succeeded : rows' = Append(rows, NewRow("skipped", a))
  /\ Leave(p)

\* The rows after every running attempt but the reserved one is marked failed.
SupersededExcept(r) ==
  [a \in Attempts |->
     IF a # r /\ rows[a].status = "running"
       THEN [rows[a] EXCEPT !.status = "failed"] ELSE rows[a]]

\* Faulty variant: the prior success is not looked for.
BeginIgnoringSuccess(p) ==
  /\ pc[p] = "ready"
  /\ IF cur[p] = 0
       THEN /\ NextAttempt <= MaxAttempts
            /\ rows' = Append(SupersededExcept(0), NewRow("running", 0))
            /\ cur' = [cur EXCEPT ![p] = NextAttempt]
       ELSE /\ rows' = SupersededExcept(cur[p])
            /\ UNCHANGED cur
  /\ pc' = [pc EXCEPT ![p] = "task"]
  /\ UNCHANGED lock

\* Faulty variant: stale running attempts are left as they are.
BeginWithoutSuperseding(p) ==
  /\ pc[p] = "ready"
  /\ Succeeded = {}
  /\ IF cur[p] = 0
       THEN /\ NextAttempt <= MaxAttempts
            /\ rows' = Append(rows, NewRow("running", 0))
            /\ cur' = [cur EXCEPT ![p] = NextAttempt]
       ELSE UNCHANGED <<rows, cur>>
  /\ pc' = [pc EXCEPT ![p] = "task"]
  /\ UNCHANGED lock

\* No prior success: supersede stale attempts, then create the attempt or take
\* the reserved one, all in one transaction, and enter the task.
Begin(p) ==
  /\ pc[p] = "ready"
  /\ Succeeded = {}
  /\ IF cur[p] = 0
       THEN /\ NextAttempt <= MaxAttempts
            /\ rows' = Append(SupersededExcept(0), NewRow("running", 0))
            /\ cur' = [cur EXCEPT ![p] = NextAttempt]
       ELSE /\ rows' = SupersededExcept(cur[p])
            /\ UNCHANGED cur
  /\ pc' = [pc EXCEPT ![p] = "task"]
  /\ UNCHANGED lock

\* The attempt column cannot hold max + 1: the insert raises, the transaction rolls
\* back and the lock is released.
AttemptOverflow(p) ==
  /\ \/ pc[p] = "before" /\ Succeeded = {}
     \/ pc[p] = "ready" /\ (Succeeded # {} \/ cur[p] = 0)
  /\ NextAttempt > MaxAttempts
  /\ Leave(p)
  /\ UNCHANGED rows

\* The task returned s.  The row is updated by primary key alone, except that the
\* database refuses a second success and the handler then records a failure.
Finish(p, s) ==
  /\ pc[p] = "task"
  /\ rows' = [rows EXCEPT ![cur[p]].status =
                IF s = "success" /\ Succeeded \ {cur[p]} # {} THEN "failed" ELSE s]
  /\ Leave(p)

\* The task raised, or returned a status outside TaskResult.
Fail(p) ==
  /\ pc[p] = "task"
  /\ rows' = [rows EXCEPT ![cur[p]].status = "failed"]
  /\ Leave(p)

\* The process dies, or leaves through an exception that is not an Exception: no row
\* changes, and the lock goes with the session or the file descriptor.
Crash(p) ==
  /\ pc[p] # "idle"
  /\ lock' = IF lock = p THEN NoProc ELSE lock
  /\ pc' = [pc EXCEPT ![p] = "idle"]
  /\ cur' = [cur EXCEPT ![p] = 0]
  /\ UNCHANGED rows

Step(p) ==
  \/ Acquire(p)
  \/ NoReservation(p)
  \/ AdoptReservation(p)
  \/ Reserve(p)
  \/ LeaveBefore(p)
  \/ Skip(p)
  \/ Begin(p)
  \/ AttemptOverflow(p)
  \/ \E s \in TaskResult : Finish(p, s)
  \/ Fail(p)

Next == \E p \in Procs : Request(p) \/ Step(p) \/ Crash(p)

Spec == Init /\ [][Next]_vars

\* A process that holds the lock keeps running (WF), and the lock is granted to a
\* waiter that keeps waiting: both PostgreSQL's lock queue and a blocked flock wake
\* their waiters (SF).  Nothing forces a request or a crash.
Fairness == \A p \in Procs : WF_vars(pc[p] # "waiting" /\ Step(p)) /\ SF_vars(Acquire(p))

FairSpec == Spec /\ Fairness

-----------------------------------------------------------------------------
(* Properties *)

\* Every variable has its type.
TypeOK ==
  /\ rows \in Seq(Row)
  /\ lock \in Procs \cup {NoProc}
  /\ pc \in [Procs -> {"idle", "waiting", "before", "ready", "task"}]
  /\ cur \in [Procs -> Nat]

\* The process that is past the lock, before its own exit, is its holder.
LockHeld ==
  \A p \in Procs : pc[p] \in {"before", "ready", "task"} <=> lock = p

\* A reserved or begun attempt is running until its holder says otherwise.
AttemptHeld ==
  \A p \in Procs :
    /\ pc[p] \in {"ready", "task"} /\ cur[p] # 0 => cur[p] \in Running
    /\ pc[p] = "task" => cur[p] # 0
    /\ pc[p] \in {"idle", "waiting", "before"} => cur[p] = 0

\* A target that has succeeded has nothing running.
ClosedAfterSuccess == Succeeded # {} => Running = {}

\* A process inside the task works on the one running row of a target that has not
\* succeeded: nobody else is in the task, nobody marked its attempt stale, and no
\* success was recorded behind its back (core/jobs.py trusts the lock for all three
\* and updates the row by primary key without looking again).
LiveAttemptAuthoritative ==
  \A p \in Procs : pc[p] = "task" =>
    /\ Running = {cur[p]}
    /\ Succeeded = {}
    /\ \A q \in Procs \ {p} : pc[q] # "task"

\* The inductive invariant behind LiveAttemptAuthoritative and the action properties.
IInv ==
  /\ TypeOK
  /\ LockHeld
  /\ AttemptHeld
  /\ ClosedAfterSuccess
  /\ LiveAttemptAuthoritative

\* Once an attempt has succeeded the ledger of the target is closed: nothing is left
\* running, no row changes any more, and every later row is a skip that names the
\* success (the "target_already_succeeded" branch of execute_target_job).
AfterSuccessOnlySkips ==
  [][Succeeded # {} =>
       /\ Running = {}
       /\ \A a \in Attempts : rows'[a] = rows[a]
       /\ \A a \in DOMAIN rows' \ Attempts :
            rows'[a].status = "skipped" /\ rows'[a].of \in Succeeded]_rows

\* A finished attempt is never reopened or overwritten, whichever processes die or
\* come back (a superseded worker must not write its late result).
FinishedAttemptsFrozen ==
  [][\A a \in Attempts \ Running : a \in DOMAIN rows' /\ rows'[a] = rows[a]]_rows

\* execute_target_job implements the one-worker, succeed-once contract of
\* TargetOutcome.
OutcomeOf == IF Succeeded = {} THEN "open" ELSE "done"
WorkerOf == IF \E p \in Procs : pc[p] = "task"
              THEN CHOOSE p \in Procs : pc[p] = "task" ELSE NoProc

Outcome == INSTANCE TargetOutcome WITH outcome <- OutcomeOf, worker <- WorkerOf

ImplementsTargetOutcome == Outcome!Spec

\* Every caller gets an answer: no crash, failure or contention leaves the target
\* lock held for ever (execute_target_job's `with` block and the operating system
\* release it).
EveryCallReturns == \A p \in Procs : pc[p] = "waiting" ~> pc[p] = "idle"
=============================================================================
