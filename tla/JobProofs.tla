----------------------------- MODULE JobProofs -----------------------------
(***************************************************************************)
(* Proofs about what every job runs on: TargetJob, for every set of        *)
(* processes and every size of the attempt column, and ProviderCredits, for*)
(* any number of jobs, any limit, pace and length of day.                  *)
(***************************************************************************)
EXTENDS TargetJob, ProviderCredits, SequenceTheorems, TLAPS

-----------------------------------------------------------------------------
(* One target's attempts *)

\* The state of a ledger row after a new row is appended: earlier rows keep their
\* status, and the new row is the last.
LEMMA AppendedLedger ==
  ASSUME rows \in Seq(Row), NEW r \in Row, rows' = Append(rows, r)
  PROVE  /\ rows' \in Seq(Row)
         /\ Attempts = 1..Len(rows)
         /\ Attempts' = 1..(Len(rows) + 1)
         /\ \A a \in Attempts : rows'[a] = rows[a]
         /\ rows'[NextAttempt] = r
  BY AppendProperties, LenProperties DEF Attempts, NextAttempt

\* Superseding turns every running row but r into a failed one and touches no other.
LEMMA SupersededLedger ==
  ASSUME rows \in Seq(Row), NEW r
  PROVE  /\ SupersededExcept(r) \in Seq(Row)
         /\ Len(SupersededExcept(r)) = Len(rows)
         /\ \A a \in Attempts :
              /\ a \notin Running \/ a = r => SupersededExcept(r)[a] = rows[a]
              /\ a \in Running /\ a # r => SupersededExcept(r)[a].status = "failed"
<1> DEFINE n == Len(rows)
           t == [a \in 1..n |->
                   IF a # r /\ rows[a].status = "running"
                     THEN [rows[a] EXCEPT !.status = "failed"] ELSE rows[a]]
<1>1. n \in Nat /\ Attempts = 1..n
  BY LenProperties DEF Attempts
<1>2. SupersededExcept(r) = t
  BY <1>1 DEF SupersededExcept
<1>3. ASSUME NEW a \in 1..n PROVE t[a] \in Row
  <2>1. rows[a] \in Row
    BY ElementOfSeq
  <2>2. QED
    BY <2>1 DEF Row, Status
<1>4. t \in [1..n -> Row]
  BY <1>3
<1>5. t \in Seq(Row) /\ Len(t) = n
  BY <1>1, <1>4, SeqDef
<1>6. ASSUME NEW a \in Attempts
      PROVE  /\ a \notin Running \/ a = r => t[a] = rows[a]
             /\ a \in Running /\ a # r => t[a].status = "failed"
  <2>1. rows[a] \in Row
    BY <1>1, ElementOfSeq
  <2>2. QED
    BY <1>1, <2>1 DEF Running, Row, Status
<1>7. QED
  BY <1>2, <1>5, <1>6

\* Updating the status of one row leaves the others alone.
LEMMA UpdatedLedger ==
  ASSUME rows \in Seq(Row), NEW a \in Attempts, NEW s \in Status,
         rows' = [rows EXCEPT ![a].status = s]
  PROVE  /\ rows' \in Seq(Row)
         /\ Attempts' = Attempts
         /\ rows'[a].status = s
         /\ \A b \in Attempts : b # a => rows'[b] = rows[b]
<1>1. Attempts = 1..Len(rows)
  BY LenProperties DEF Attempts
<1>2. rows[a] \in Row
  BY <1>1, ElementOfSeq
<1>3. [rows[a] EXCEPT !.status = s] \in Row
  BY <1>2 DEF Row
<1>4. rows' = [rows EXCEPT ![a] = [rows[a] EXCEPT !.status = s]]
  OBVIOUS
<1>5. rows' \in Seq(Row) /\ Len(rows') = Len(rows)
  BY <1>1, <1>3, <1>4, ExceptSeq
<1>6. Attempts' = 1..Len(rows')
  BY <1>5, LenProperties DEF Attempts
<1>7. /\ rows'[a].status = s
      /\ \A b \in Attempts : b # a => rows'[b] = rows[b]
  BY <1>1, <1>2, <1>4 DEF Row, Attempts
<1>8. QED
  BY <1>1, <1>5, <1>6, <1>7

\* The empty ledger of an idle system satisfies the invariant.
LEMMA InitIInv == Init => IInv
<1> SUFFICES ASSUME Init PROVE IInv
  OBVIOUS
<1> USE DEF Init
<1>1. TypeOK
  BY EmptySeq DEF TypeOK
<1>2. Attempts = {}
  BY DEF Attempts
<1>3. LockHeld
  BY NoProcAssumption DEF LockHeld
<1>4. AttemptHeld /\ ClosedAfterSuccess /\ LiveAttemptAuthoritative
  BY <1>2 DEF AttemptHeld, ClosedAfterSuccess, LiveAttemptAuthoritative, Succeeded
<1>5. QED
  BY <1>1, <1>3, <1>4 DEF IInv

\* A step that appends a row that is not running, or changes no row, and lets its process
\* leave keeps the invariant.
LEMMA LeaveIInv ==
  ASSUME IInv, NEW p \in Procs, pc[p] # "idle", pc[p] # "waiting", Leave(p),
         rows' \in Seq(Row), Running' \subseteq Running,
         ClosedAfterSuccess'
  PROVE  IInv'
<1> USE DEF IInv, TypeOK, Leave
<1>1. lock = p /\ \A q \in Procs \ {p} : pc[q] \in {"idle", "waiting"}
  BY NoProcAssumption DEF LockHeld
<1>2. TypeOK'
  OBVIOUS
<1>3. LockHeld'
  BY <1>1, NoProcAssumption DEF LockHeld
<1>4. AttemptHeld'
  BY <1>1 DEF AttemptHeld
<1>5. LiveAttemptAuthoritative'
  BY <1>1 DEF LiveAttemptAuthoritative
<1>6. QED
  BY <1>2, <1>3, <1>4, <1>5

\* Reaching the lock changes neither the ledger nor who holds the lock.
LEMMA RequestIInv == ASSUME IInv, NEW p \in Procs, Request(p) PROVE IInv'
BY DEF IInv, TypeOK, LockHeld, AttemptHeld, ClosedAfterSuccess,
       LiveAttemptAuthoritative, Request, Running, Succeeded, Attempts

\* Only a free lock is taken, so its new holder is the only process past it.
LEMMA AcquireIInv == ASSUME IInv, NEW p \in Procs, Acquire(p) PROVE IInv'
<1> USE DEF IInv, TypeOK, Acquire
<1>1. Running' = Running /\ Succeeded' = Succeeded
  BY DEF Running, Succeeded, Attempts
<1>2. LockHeld'
  BY NoProcAssumption DEF LockHeld
<1>3. QED
  BY <1>1, <1>2 DEF AttemptHeld, ClosedAfterSuccess, LiveAttemptAuthoritative

\* before_attempt without a reservation leaves the holder without an attempt.
LEMMA NoReservationIInv == ASSUME IInv, NEW p \in Procs, NoReservation(p) PROVE IInv'
<1> USE DEF IInv, TypeOK, NoReservation
<1>1. Running' = Running /\ Succeeded' = Succeeded
  BY DEF Running, Succeeded, Attempts
<1>2. QED
  BY <1>1 DEF LockHeld, AttemptHeld, ClosedAfterSuccess, LiveAttemptAuthoritative

\* A reservation the holder adopts is a running row of the target.
LEMMA AdoptReservationIInv ==
  ASSUME IInv, NEW p \in Procs, AdoptReservation(p) PROVE IInv'
<1> USE DEF IInv, TypeOK
<1>1. Running' = Running /\ Succeeded' = Succeeded
  BY DEF Running, Succeeded, Attempts, AdoptReservation
<1>2. PICK a \in Running : cur' = [cur EXCEPT ![p] = a]
  BY DEF AdoptReservation
<1>3. a \in Nat /\ a # 0
  BY LenProperties DEF Running, Attempts
<1>4. QED
  BY <1>1, <1>2, <1>3
     DEF AdoptReservation, LockHeld, AttemptHeld, ClosedAfterSuccess,
         LiveAttemptAuthoritative

\* A reservation is made while nothing has succeeded, and its row is running.
LEMMA ReserveIInv == ASSUME IInv, NEW p \in Procs, Reserve(p) PROVE IInv'
<1> DEFINE r == NewRow("running", 0)
<1>1. r \in Row
  BY MaxAttemptsAssumption DEF NewRow, Row, Status
<1>2. rows \in Seq(Row) /\ rows' = Append(rows, r)
  BY DEF IInv, TypeOK, Reserve
<1>3. /\ rows' \in Seq(Row)
      /\ Attempts = 1..Len(rows)
      /\ Attempts' = 1..(Len(rows) + 1)
      /\ \A a \in Attempts : rows'[a] = rows[a]
      /\ rows'[NextAttempt] = r
  BY <1>1, <1>2, AppendedLedger
<1>4. Len(rows) \in Nat
  BY <1>2, LenProperties
<1>5. Running' = Running \cup {NextAttempt} /\ Succeeded' = {}
  BY <1>3, <1>4 DEF Running, Succeeded, NewRow, NextAttempt, Reserve
<1>6. lock = p /\ \A q \in Procs \ {p} : pc[q] \in {"idle", "waiting"}
  BY NoProcAssumption DEF IInv, TypeOK, LockHeld, Reserve
<1>7. TypeOK' /\ LockHeld'
  BY <1>3, <1>4 DEF IInv, TypeOK, LockHeld, Reserve, NextAttempt
<1>8. AttemptHeld' /\ LiveAttemptAuthoritative'
  BY <1>4, <1>5, <1>6
     DEF IInv, TypeOK, AttemptHeld, LiveAttemptAuthoritative, Reserve, NextAttempt
<1>9. ClosedAfterSuccess'
  BY <1>5 DEF ClosedAfterSuccess
<1>10. QED
  BY <1>7, <1>8, <1>9 DEF IInv

\* Leaving before the attempt begins changes no row.
LEMMA LeaveBeforeIInv == ASSUME IInv, NEW p \in Procs, LeaveBefore(p) PROVE IInv'
<1>1. Running' = Running /\ ClosedAfterSuccess'
  BY DEF IInv, ClosedAfterSuccess, Running, Succeeded, Attempts, LeaveBefore
<1>2. QED
  BY <1>1, LeaveIInv DEF LeaveBefore, IInv, TypeOK

\* A full attempt column makes the call leave with the ledger as it was.
LEMMA AttemptOverflowIInv ==
  ASSUME IInv, NEW p \in Procs, AttemptOverflow(p) PROVE IInv'
<1>1. Running' = Running /\ ClosedAfterSuccess'
  BY DEF IInv, ClosedAfterSuccess, Running, Succeeded, Attempts, AttemptOverflow
<1>2. QED
  BY <1>1, LeaveIInv DEF AttemptOverflow, IInv, TypeOK

\* A skip appends one finished row, so nothing starts to run after a success.
LEMMA SkipIInv == ASSUME IInv, NEW p \in Procs, Skip(p) PROVE IInv'
<1>1. PICK s \in Succeeded : rows' = Append(rows, NewRow("skipped", s))
  BY DEF Skip
<1> DEFINE r == NewRow("skipped", s)
<1>2. rows \in Seq(Row) /\ Len(rows) \in Nat /\ Attempts = 1..Len(rows)
  BY LenProperties DEF IInv, TypeOK, Attempts
<1>3. r \in Row
  BY <1>2, MaxAttemptsAssumption DEF NewRow, Row, Status, Succeeded, Skip, NextAttempt
<1>4. /\ rows' \in Seq(Row)
      /\ Attempts' = 1..(Len(rows) + 1)
      /\ \A a \in Attempts : rows'[a] = rows[a]
      /\ rows'[NextAttempt] = r
  BY <1>1, <1>2, <1>3, AppendedLedger
<1>5. Attempts' = Attempts \cup {NextAttempt} /\ rows'[NextAttempt].status = "skipped"
  BY <1>2, <1>4 DEF NewRow, NextAttempt
<1>6. Running' = Running
  BY <1>4, <1>5 DEF Running
<1>7. Succeeded' = Succeeded
  BY <1>4, <1>5 DEF Succeeded
<1>8. QED
  BY <1>4, <1>6, <1>7, LeaveIInv DEF Skip, IInv, TypeOK, ClosedAfterSuccess

\* Beginning leaves exactly one running row, the attempt of the process: every other
\* one is superseded in the same transaction.
LEMMA BeginIInv == ASSUME IInv, NEW p \in Procs, Begin(p) PROVE IInv'
<1> DEFINE old == SupersededExcept(cur[p])
           r == NewRow("running", 0)
<1>1. /\ rows \in Seq(Row) /\ Len(rows) \in Nat /\ Attempts = 1..Len(rows)
      /\ cur[p] \in Nat
  BY LenProperties DEF IInv, TypeOK, Attempts
<1>2. /\ old \in Seq(Row) /\ Len(old) = Len(rows)
      /\ \A a \in Attempts :
           /\ a \notin Running \/ a = cur[p] => old[a] = rows[a]
           /\ a \in Running /\ a # cur[p] => old[a].status = "failed"
  BY <1>1, SupersededLedger
<1>3. \A a \in Attempts : old[a].status = "running" <=> a \in Running /\ a = cur[p]
  BY <1>2 DEF Running
<1>4. \A a \in Attempts : old[a].status # "success"
  BY <1>2 DEF Running, Succeeded, Begin
<1>5. lock = p /\ \A q \in Procs \ {p} : pc[q] \in {"idle", "waiting"}
  BY NoProcAssumption DEF IInv, TypeOK, LockHeld, Begin
<1>6. /\ rows' \in Seq(Row) /\ Succeeded' = {}
      /\ cur' \in [Procs -> Nat] /\ cur'[p] # 0 /\ Running' = {cur'[p]}
      /\ \A q \in Procs \ {p} : cur'[q] = cur[q]
  <2>1. CASE cur[p] = 0
    <3>1. r \in Row /\ r.status = "running"
      BY MaxAttemptsAssumption DEF NewRow, Row, Status
    <3>2. rows' = Append(old, r) /\ cur' = [cur EXCEPT ![p] = NextAttempt]
      BY <2>1 DEF Begin
    <3>3. /\ rows' \in Seq(Row)
          /\ Len(rows') = Len(rows) + 1
          /\ \A a \in Attempts : rows'[a] = old[a]
          /\ rows'[NextAttempt] = r
      BY <1>1, <1>2, <3>1, <3>2, AppendProperties DEF NextAttempt
    <3>4. Attempts' = Attempts \cup {NextAttempt} /\ NextAttempt \in Nat \ {0}
      BY <1>1, <3>3, LenProperties DEF Attempts, NextAttempt
    <3>5. Succeeded' = {}
      BY <1>4, <3>1, <3>3, <3>4 DEF Succeeded
    <3>6. \A a \in Attempts : rows'[a].status # "running"
      BY <1>1, <1>3, <2>1, <3>3
    <3>7. Running' = {NextAttempt}
      BY <3>1, <3>3, <3>4, <3>6 DEF Running
    <3>8. QED
      BY <3>2, <3>3, <3>4, <3>5, <3>7 DEF IInv, TypeOK
  <2>2. CASE cur[p] # 0
    <3>1. rows' = old /\ cur' = cur
      BY <2>2 DEF Begin
    <3>2. cur[p] \in Running
      BY <2>2 DEF IInv, AttemptHeld, Begin
    <3>3. Attempts' = Attempts
      BY <1>1, <1>2, <3>1, LenProperties DEF Attempts
    <3>4. Succeeded' = {}
      BY <1>4, <3>1, <3>3 DEF Succeeded
    <3>5. Running' = {cur[p]}
      BY <1>3, <3>1, <3>2, <3>3 DEF Running
    <3>6. QED
      BY <1>2, <2>2, <3>1, <3>4, <3>5 DEF IInv, TypeOK
  <2>3. QED
    BY <2>1, <2>2
<1>7. TypeOK' /\ LockHeld'
  BY <1>6 DEF IInv, TypeOK, LockHeld, Begin
<1>8. AttemptHeld' /\ LiveAttemptAuthoritative'
  BY <1>5, <1>6 DEF IInv, TypeOK, AttemptHeld, LiveAttemptAuthoritative, Begin
<1>9. ClosedAfterSuccess'
  BY <1>6 DEF ClosedAfterSuccess
<1>10. QED
  BY <1>7, <1>8, <1>9 DEF IInv

\* The row a process finishes is the only running one, so nothing runs afterwards.
LEMMA EndTask ==
  ASSUME IInv, NEW p \in Procs, pc[p] = "task", NEW s \in Status \ {"running"},
         rows' = [rows EXCEPT ![cur[p]].status = s], Leave(p)
  PROVE  /\ IInv'
         /\ Attempts' = Attempts
         /\ rows'[cur[p]].status = s
         /\ \A b \in Attempts : b # cur[p] => rows'[b] = rows[b]
<1>1. rows \in Seq(Row) /\ Running = {cur[p]} /\ cur[p] \in Attempts
  BY DEF IInv, TypeOK, LiveAttemptAuthoritative, Running
<1>2. /\ rows' \in Seq(Row)
      /\ Attempts' = Attempts
      /\ rows'[cur[p]].status = s
      /\ \A b \in Attempts : b # cur[p] => rows'[b] = rows[b]
  BY <1>1, UpdatedLedger
<1>3. Running' = {}
  BY <1>1, <1>2 DEF Running
<1>4. IInv'
  BY <1>2, <1>3, LeaveIInv DEF ClosedAfterSuccess
<1>5. QED
  BY <1>2, <1>4

\* The result of the task goes to the one running row; a success closes the target.
LEMMA FinishIInv ==
  ASSUME IInv, NEW p \in Procs, NEW s \in TaskResult, Finish(p, s)
  PROVE  IInv' /\ rows' = [rows EXCEPT ![cur[p]].status = s]
<1>1. Succeeded = {}
  BY DEF IInv, LiveAttemptAuthoritative, Finish
<1>2. rows' = [rows EXCEPT ![cur[p]].status = s]
  BY <1>1 DEF Finish
<1>3. s \in Status \ {"running"}
  BY DEF TaskResult, Status
<1>4. QED
  BY <1>2, <1>3, EndTask DEF Finish

\* A failure ends the one running row.
LEMMA FailIInv == ASSUME IInv, NEW p \in Procs, Fail(p) PROVE IInv'
<1>1. "failed" \in Status \ {"running"}
  BY DEF Status
<1>2. QED
  BY <1>1, EndTask DEF Fail

\* A death changes no row, and frees the lock only if it was the holder's.
LEMMA CrashIInv == ASSUME IInv, NEW p \in Procs, Crash(p) PROVE IInv'
<1> USE DEF IInv, TypeOK, Crash
<1>1. Running' = Running /\ Succeeded' = Succeeded
  BY DEF Running, Succeeded, Attempts
<1>2. LockHeld'
  BY NoProcAssumption DEF LockHeld
<1>3. AttemptHeld' /\ LiveAttemptAuthoritative'
  BY <1>1 DEF AttemptHeld, LiveAttemptAuthoritative
<1>4. QED
  BY <1>1, <1>2, <1>3 DEF ClosedAfterSuccess

\* The invariant speaks of no more than the state.
LEMMA StutterIInv == IInv /\ UNCHANGED vars => IInv'
BY DEF IInv, TypeOK, LockHeld, AttemptHeld, ClosedAfterSuccess,
       LiveAttemptAuthoritative, Running, Succeeded, Attempts, vars

\* Every step of every process keeps the invariant.
LEMMA NextIInv == IInv /\ [Next]_vars => IInv'
<1> SUFFICES ASSUME IInv, Next PROVE IInv'
  BY StutterIInv
<1> PICK p \in Procs : Request(p) \/ Step(p) \/ Crash(p)
  BY DEF Next
<1>1. CASE Request(p)
  BY <1>1, RequestIInv
<1>2. CASE Step(p)
  BY <1>2, AcquireIInv, NoReservationIInv, AdoptReservationIInv, ReserveIInv,
     LeaveBeforeIInv, SkipIInv, BeginIInv, AttemptOverflowIInv, FinishIInv, FailIInv
     DEF Step
<1>3. CASE Crash(p)
  BY <1>3, CrashIInv
<1>4. QED
  BY <1>1, <1>2, <1>3

\* The inductive invariant holds in every reachable state, however many processes share
\* the target and however often they die.
THEOREM Invariance == Spec => []IInv
BY InitIInv, NextIInv, PTL DEF Spec

\* Type correctness of execute_target_job's state.
THEOREM TypeCorrect == Spec => []TypeOK
<1>1. IInv => TypeOK
  BY DEF IInv
<1>2. QED
  BY <1>1, Invariance, PTL

\* The task of a target runs only in the process whose attempt is the one running row
\* of a target that has not succeeded.
THEOREM WorkerIsAuthoritative == Spec => []LiveAttemptAuthoritative
<1>1. IInv => LiveAttemptAuthoritative
  BY DEF IInv
<1>2. QED
  BY <1>1, Invariance, PTL

\* What one step does to the ledger: a finished row keeps its contents; and when the
\* target has succeeded no row changes and only skips that name the success are added.
LEMMA LedgerStep ==
  ASSUME IInv, Next
  PROVE  /\ \A a \in Attempts \ Running : a \in Attempts' /\ rows'[a] = rows[a]
         /\ Succeeded # {} =>
              /\ \A a \in Attempts : rows'[a] = rows[a]
              /\ \A a \in Attempts' \ Attempts :
                   rows'[a].status = "skipped" /\ rows'[a].of \in Succeeded
<1> DEFINE Goal ==
      /\ \A a \in Attempts \ Running : a \in Attempts' /\ rows'[a] = rows[a]
      /\ Succeeded # {} =>
           /\ \A a \in Attempts : rows'[a] = rows[a]
           /\ \A a \in Attempts' \ Attempts :
                rows'[a].status = "skipped" /\ rows'[a].of \in Succeeded
<1>1. rows \in Seq(Row) /\ Len(rows) \in Nat /\ Attempts = 1..Len(rows)
  BY LenProperties DEF IInv, TypeOK, Attempts
<1>2. PICK p \in Procs : Request(p) \/ Step(p) \/ Crash(p)
  BY DEF Next
<1>3. CASE rows' = rows
  <2>1. Attempts' = Attempts
    BY <1>3 DEF Attempts
  <2>2. QED
    BY <1>3, <2>1
<1>4. CASE Reserve(p)
  <2>1. NewRow("running", 0) \in Row
    BY MaxAttemptsAssumption DEF NewRow, Row, Status
  <2>2. rows' = Append(rows, NewRow("running", 0))
    BY <1>4 DEF Reserve
  <2>3. QED
    BY <1>1, <1>4, <2>1, <2>2, AppendedLedger DEF Reserve
<1>5. CASE Skip(p)
  <2>1. PICK s \in Succeeded : rows' = Append(rows, NewRow("skipped", s))
    BY <1>5 DEF Skip
  <2>2. NewRow("skipped", s) \in Row
    BY <1>1, <1>5, MaxAttemptsAssumption
       DEF NewRow, Row, Status, Succeeded, Skip, NextAttempt
  <2>3. /\ Attempts' = Attempts \cup {NextAttempt}
        /\ \A a \in Attempts : rows'[a] = rows[a]
        /\ rows'[NextAttempt] = NewRow("skipped", s)
    BY <1>1, <2>1, <2>2, AppendedLedger DEF NextAttempt
  <2>4. rows'[NextAttempt].status = "skipped" /\ rows'[NextAttempt].of \in Succeeded
    BY <2>3 DEF NewRow
  <2>5. QED
    BY <2>3, <2>4
<1>6. CASE Begin(p)
  <2> DEFINE old == SupersededExcept(cur[p])
  <2>1. /\ old \in Seq(Row) /\ Len(old) = Len(rows)
        /\ \A a \in Attempts \ Running : old[a] = rows[a]
    BY <1>1, SupersededLedger
  <2>2. CASE cur[p] = 0
    <3>1. NewRow("running", 0) \in Row
      BY MaxAttemptsAssumption DEF NewRow, Row, Status
    <3>2. rows' = Append(old, NewRow("running", 0))
      BY <1>6, <2>2 DEF Begin
    <3>3. /\ rows' \in Seq(Row) /\ Len(rows') = Len(rows) + 1
          /\ \A a \in Attempts : rows'[a] = old[a]
      BY <1>1, <2>1, <3>1, <3>2, AppendProperties
    <3>4. Attempts \subseteq Attempts'
      BY <1>1, <3>3, LenProperties DEF Attempts
    <3>5. QED
      BY <1>6, <2>1, <3>3, <3>4 DEF Begin
  <2>3. CASE cur[p] # 0
    <3>1. rows' = old
      BY <1>6, <2>3 DEF Begin
    <3>2. Attempts' = Attempts
      BY <1>1, <2>1, <3>1, LenProperties DEF Attempts
    <3>3. QED
      BY <1>6, <2>1, <3>1, <3>2 DEF Begin
  <2>4. QED
    BY <2>2, <2>3
<1>7. ASSUME NEW s \in Status \ {"running"}, pc[p] = "task",
             rows' = [rows EXCEPT ![cur[p]].status = s], Leave(p)
      PROVE  Goal
  <2>1. Succeeded = {} /\ Running = {cur[p]}
    BY <1>7 DEF IInv, LiveAttemptAuthoritative
  <2>2. /\ Attempts' = Attempts
        /\ \A b \in Attempts : b # cur[p] => rows'[b] = rows[b]
    BY <1>7, EndTask
  <2>3. QED
    BY <2>1, <2>2
<1>8. CASE \E s \in TaskResult : Finish(p, s)
  <2>1. PICK s \in TaskResult : Finish(p, s)
    BY <1>8
  <2>2. rows' = [rows EXCEPT ![cur[p]].status = s] /\ s \in Status \ {"running"}
    BY <2>1, FinishIInv DEF TaskResult, Status
  <2>3. QED
    BY <1>7, <2>1, <2>2 DEF Finish
<1>9. CASE Fail(p)
  <2>1. "failed" \in Status \ {"running"}
    BY DEF Status
  <2>2. QED
    BY <1>7, <1>9, <2>1 DEF Fail
<1>10. \/ rows' = rows \/ Reserve(p) \/ Skip(p) \/ Begin(p)
       \/ \E s \in TaskResult : Finish(p, s)
       \/ Fail(p)
  BY <1>2 DEF Request, Step, Crash, Acquire, NoReservation, AdoptReservation,
              LeaveBefore, AttemptOverflow
<1>11. QED
  BY <1>3, <1>4, <1>5, <1>6, <1>8, <1>9, <1>10

\* A finished attempt is never reopened or overwritten.
THEOREM FinishedStaysFinished == Spec => FinishedAttemptsFrozen
<1>1. IInv /\ [Next]_vars =>
        [\A a \in Attempts \ Running : a \in DOMAIN rows' /\ rows'[a] = rows[a]]_rows
  BY LedgerStep DEF Attempts, vars
<1>2. QED
  BY <1>1, Invariance, PTL DEF Spec, FinishedAttemptsFrozen

\* After a success the target's ledger only collects skips that name it.
THEOREM SuccessClosesLedger == Spec => AfterSuccessOnlySkips
<1>1. IInv /\ [Next]_vars =>
        [Succeeded # {} =>
           /\ Running = {}
           /\ \A a \in Attempts : rows'[a] = rows[a]
           /\ \A a \in DOMAIN rows' \ Attempts :
                rows'[a].status = "skipped" /\ rows'[a].of \in Succeeded]_rows
  BY LedgerStep DEF Attempts, vars, IInv, ClosedAfterSuccess
<1>2. QED
  BY <1>1, Invariance, PTL DEF Spec, AfterSuccessOnlySkips

\* The mapped worker is the process inside the task, when there is one.
LEMMA WorkerIs ==
  ASSUME IInv
  PROVE  /\ \A p \in Procs : pc[p] = "task" => WorkerOf = p
         /\ (\A p \in Procs : pc[p] # "task") => WorkerOf = NoProc
BY DEF IInv, LiveAttemptAuthoritative, WorkerOf

\* Every step of execute_target_job is a step of TargetOutcome or a stutter.
LEMMA RefinedStep ==
  ASSUME IInv, IInv', Next PROVE Outcome!Next \/ (OutcomeOf' = OutcomeOf /\ WorkerOf' = WorkerOf)
<1>1. PICK p \in Procs : Request(p) \/ Step(p) \/ Crash(p)
  BY DEF Next
<1>2. rows \in Seq(Row) /\ Len(rows) \in Nat /\ Attempts = 1..Len(rows)
  BY LenProperties DEF IInv, TypeOK, Attempts
<1>3. CASE Begin(p)
  <2>1. /\ pc'[p] = "task"
        /\ \A q \in Procs : pc[q] # "task"
    BY <1>3, NoProcAssumption DEF Begin, IInv, TypeOK, LockHeld
  <2>2. WorkerOf = NoProc /\ WorkerOf' = p
    BY <2>1, WorkerIs DEF IInv, LiveAttemptAuthoritative, WorkerOf
  <2>3. Succeeded = {} /\ Succeeded' = {}
    BY <1>3, <2>1 DEF Begin, IInv, LiveAttemptAuthoritative
  <2>4. QED
    BY <2>2, <2>3 DEF Outcome!Next, Outcome!Start, OutcomeOf
<1>4. ASSUME pc[p] = "task", pc' = [pc EXCEPT ![p] = "idle"],
             \/ Succeeded' = {}
             \/ Succeeded' # {} /\ Succeeded = {}
      PROVE  Outcome!Next
  <2>1. Succeeded = {} /\ \A q \in Procs \ {p} : pc[q] # "task"
    BY <1>4 DEF IInv, LiveAttemptAuthoritative
  <2>2. \A q \in Procs : pc'[q] # "task"
    BY <1>4, <2>1 DEF IInv, TypeOK
  <2>3. WorkerOf = p /\ WorkerOf' = NoProc
    BY <1>4, <2>2, WorkerIs DEF WorkerOf
  <2>4. CASE Succeeded' = {}
    BY <2>1, <2>3, <2>4 DEF Outcome!Next, Outcome!GiveUp, OutcomeOf
  <2>5. CASE Succeeded' # {}
    BY <2>1, <2>3, <2>5 DEF Outcome!Next, Outcome!Succeed, OutcomeOf
  <2>6. QED
    BY <2>4, <2>5
<1>5. CASE \/ \E s \in TaskResult : Finish(p, s)
           \/ Fail(p)
  <2>1. pc[p] = "task" /\ pc' = [pc EXCEPT ![p] = "idle"]
    BY <1>5 DEF Finish, Fail, Leave
  <2>2. Succeeded = {}
    BY <2>1 DEF IInv, LiveAttemptAuthoritative
  <2>3. QED
    BY <1>4, <2>1, <2>2
<1>6. CASE Crash(p) /\ pc[p] = "task"
  <2>1. Succeeded' = {}
    BY <1>6 DEF Crash, Succeeded, Attempts, IInv, LiveAttemptAuthoritative
  <2>2. QED
    BY <1>4, <1>6, <2>1 DEF Crash
<1>7. ASSUME \A q \in Procs : pc'[q] = "task" <=> pc[q] = "task",
             Succeeded' = {} <=> Succeeded = {}
      PROVE  (OutcomeOf' = OutcomeOf /\ WorkerOf' = WorkerOf)
  <2>1. OutcomeOf' = OutcomeOf
    BY <1>7 DEF OutcomeOf
  <2>2. CASE \A q \in Procs : pc[q] # "task"
    <3>1. WorkerOf = NoProc
      BY <2>2, WorkerIs
    <3>2. WorkerOf' = NoProc
      BY <1>7, <2>2 DEF WorkerOf
    <3>3. QED
      BY <2>1, <3>1, <3>2
  <2>3. CASE \E q \in Procs : pc[q] = "task"
    <3>1. PICK q \in Procs : pc[q] = "task"
      BY <2>3
    <3>2. WorkerOf = q
      BY <3>1, WorkerIs
    <3>3. pc'[q] = "task" /\ \A o \in Procs \ {q} : pc'[o] # "task"
      BY <1>7, <3>1 DEF IInv, LiveAttemptAuthoritative
    <3>4. WorkerOf' = q
      BY <3>3 DEF WorkerOf
    <3>5. QED
      BY <2>1, <3>2, <3>4
  <2>4. QED
    BY <2>2, <2>3
<1>8. CASE /\ ~Begin(p) /\ ~Fail(p) /\ ~(\E s \in TaskResult : Finish(p, s))
           /\ ~(Crash(p) /\ pc[p] = "task")
  <2>1. \A q \in Procs : pc'[q] = "task" <=> pc[q] = "task"
    BY <1>1, <1>8 DEF IInv, TypeOK, Request, Step, Crash, Acquire, NoReservation,
       AdoptReservation, Reserve, LeaveBefore, Skip, AttemptOverflow, Leave
  <2>2. CASE rows' = rows
    BY <2>1, <2>2, <1>7 DEF Succeeded, Attempts
  <2>3. CASE Reserve(p)
    <3>1. NewRow("running", 0) \in Row /\ NewRow("running", 0).status = "running"
      BY MaxAttemptsAssumption DEF NewRow, Row, Status
    <3>2. Attempts' = Attempts \cup {NextAttempt} /\ rows'[NextAttempt].status = "running"
          /\ \A a \in Attempts : rows'[a] = rows[a]
      BY <1>2, <2>3, <3>1, AppendedLedger DEF Reserve, NextAttempt
    <3>3. Succeeded' = {}
      BY <2>3, <3>2 DEF Succeeded, Reserve
    <3>4. QED
      BY <1>7, <2>1, <2>3, <3>3 DEF Reserve
  <2>4. CASE Skip(p)
    <3>1. Succeeded # {} /\ Attempts \subseteq Attempts'
      BY <2>4, LedgerStep DEF Skip, IInv, ClosedAfterSuccess
    <3>2. \A a \in Attempts : rows'[a] = rows[a]
      BY <3>1, LedgerStep
    <3>3. Succeeded' # {}
      BY <3>1, <3>2 DEF Succeeded
    <3>4. QED
      BY <1>7, <2>1, <3>1, <3>3
  <2>5. rows' = rows \/ Reserve(p) \/ Skip(p)
    BY <1>1, <1>8 DEF Request, Step, Crash, Acquire, NoReservation, AdoptReservation,
                      LeaveBefore, AttemptOverflow
  <2>6. QED
    BY <2>2, <2>3, <2>4, <2>5
<1>9. QED
  BY <1>3, <1>5, <1>6, <1>8

\* execute_target_job implements the one-worker, succeed-once contract, whatever the
\* number of processes, retries and deaths.
THEOREM Refinement == Spec => ImplementsTargetOutcome
<1>1. Init => Outcome!Init
  <2> SUFFICES ASSUME Init PROVE Outcome!Init
    OBVIOUS
  <2>1. Attempts = {}
    BY DEF Init, Attempts
  <2>2. QED
    BY <2>1 DEF Init, Outcome!Init, OutcomeOf, WorkerOf, Succeeded
<1>2. IInv /\ IInv' /\ [Next]_vars => [Outcome!Next]_(Outcome!vars)
  <2>1. CASE UNCHANGED vars
    BY <2>1 DEF vars, Outcome!vars, OutcomeOf, WorkerOf, Succeeded, Attempts
  <2>2. CASE IInv /\ IInv' /\ Next
    BY <2>2, RefinedStep DEF Outcome!vars
  <2>3. QED
    BY <2>1, <2>2
<1>3. QED
  BY <1>1, <1>2, Invariance, PTL DEF Spec, ImplementsTargetOutcome, Outcome!Spec

-----------------------------------------------------------------------------
(* The shared request budget *)

\* A job that is not idle, and not recording its success, has requests to make.
RequestsLeft ==
  \A j \in Jobs : place[j] \in {"ready", "sampled", "sleeping"} => left[j] # 0

\* A charge falls on the day of the clock, and the row counts no later day.
CountsToday ==
  /\ row.date <= Day(clock)
  /\ \A j \in Jobs : place[j] = "sampled" => Day(now[j]) = Day(clock)

\* What a recording job writes back is what the row still holds.
WritesBackCurrent == \A j \in Jobs : place[j] = "writing" => snap[j] = row

\* The row has the last slot reserved.
NextIsFloor == row.next = floor

\* Nothing is charged to a day the row has not come to.
FutureUnspent == \A d \in Days : d > row.date => spent[d] = 0

\* The inductive invariant of types, of the pace, and of the count.
TInv == CreditTypeOK /\ RequestsLeft
PInv == TInv /\ WritesBackCurrent /\ NextIsFloor
CInv == PInv /\ CountsToday
             /\ (provider = "twelve_data" => FutureUnspent /\ DailyLimitKept /\ CountExact)

-----------------------------------------------------------------------------
\* Days are counted upwards: the later of two ticks is on the same day or a later one.
LEMMA DayMonotone ==
  ASSUME NEW s \in Nat, NEW t \in Nat, s <= t
  PROVE  Day(s) \in Nat /\ Day(s) <= Day(t)
BY ConstantsAssumption DEF Day

\* A tick of the clock is on one of the days that are counted.
LEMMA DayCounted ==
  ASSUME NEW t \in 0..MaxClock
  PROVE  Day(t) \in Days
<1>1. Day(t) \in Nat /\ Day(t) <= Day(MaxClock) /\ Day(MaxClock) \in Nat
  BY DayMonotone, ConstantsAssumption
<1>2. QED
  BY <1>1 DEF Days

\* The first day is counted.
LEMMA DayZero == 0 \in Days /\ Day(0) = 0
<1>1. Day(0) = 0
  BY ConstantsAssumption DEF Day
<1>2. QED
  BY <1>1, DayCounted, ConstantsAssumption

LEMMA InitCInv == CreditInit => CInv
<1> SUFFICES ASSUME CreditInit PROVE CInv
  OBVIOUS
<1> USE ConstantsAssumption, DayZero DEF CreditInit
<1>1. row \in Metadata /\ NoSnap \in Metadata
  BY DEF Metadata, NoSnap
<1>2. CreditTypeOK
  BY <1>1 DEF CreditTypeOK
<1>3. RequestsLeft /\ WritesBackCurrent /\ NextIsFloor
  BY DEF RequestsLeft, WritesBackCurrent, NextIsFloor
<1>4. CountsToday /\ FutureUnspent
  BY DEF CountsToday, FutureUnspent
<1>5. DailyLimitKept /\ CountExact
  BY DEF DailyLimitKept, CountExact
<1>6. QED
  BY <1>2, <1>3, <1>4, <1>5 DEF CInv, PInv, TInv

-----------------------------------------------------------------------------
\* What Consume does to the row, with all it keeps apart from the day it counts.
LEMMA ConsumeTInv ==
  ASSUME TInv, NEW j \in Jobs, Consume(j)
  PROVE  TInv'
<1> USE DEF TInv, CreditTypeOK
<1>1. now[j] \in 0..MaxClock /\ Day(now[j]) \in Days
  BY DayCounted
<1>2. SlotFor(j) \in Nat /\ SlotFor(j) + Gap \in Nat
  BY ConstantsAssumption DEF SlotFor, LargerOf, Metadata
<1>3. UsageOn(Day(now[j])) \in 0..Limit
  BY ConstantsAssumption DEF UsageOn, Metadata
<1>4. provider = "twelve_data" => UsageOn(Day(now[j])) + 1 \in 0..Limit
  BY <1>3, ConstantsAssumption DEF Consume, Exhausted
<1>5. row' \in Metadata
  BY <1>1, <1>2, <1>4 DEF Consume, Metadata
<1>6. spent' \in [Days -> Nat]
  BY <1>1 DEF Consume
<1>7. /\ reserved' \in [Jobs -> Nat] /\ floor' \in Nat
      /\ now' \in [Jobs -> 0..MaxClock]
      /\ place' \in [Jobs -> {"idle", "ready", "sampled", "sleeping", "recording", "writing"}]
  BY <1>2, ConstantsAssumption DEF Consume, Goto
<1>8. RequestsLeft'
  BY DEF RequestsLeft, Consume, Goto
<1>9. QED
  BY <1>5, <1>6, <1>7, <1>8 DEF Consume

\* Every step keeps the types.
LEMMA NextTInv == TInv /\ [CreditNext]_creditVars => TInv'
<1> SUFFICES ASSUME TInv, [CreditNext]_creditVars PROVE TInv'
  OBVIOUS
<1> USE ConstantsAssumption DEF TInv, CreditTypeOK, RequestsLeft
<1>1. CASE UNCHANGED creditVars
  BY <1>1 DEF creditVars
<1>2. CASE Tick
  BY <1>2 DEF Tick, history
<1>3. NoSnap \in Metadata
  BY DayZero DEF NoSnap, Metadata
<1>4. ASSUME NEW j \in Jobs, End(j), UNCHANGED <<provider, row, clock, history>>
      PROVE  TInv'
  BY <1>3, <1>4 DEF End, history
<1>5. ASSUME NEW j \in Jobs, NEW n \in 1..Limit, Preflight(j, n) PROVE TInv'
  BY <1>5 DEF Preflight, Goto, history
<1>6. ASSUME NEW j \in Jobs, Sample(j) PROVE TInv'
  BY <1>6 DEF Sample, Goto, history
<1>7. ASSUME NEW j \in Jobs, Consume(j) PROVE TInv'
  BY <1>7, ConsumeTInv
<1>8. ASSUME NEW j \in Jobs, Send(j) PROVE TInv'
  <2>1. CASE left[j] > 1 \/ Records(j)
    <3>1. left[j] - 1 \in 0..Limit /\ (left[j] > 1 => left[j] - 1 # 0)
      BY <1>8 DEF Send
    <3>2. QED
      BY <1>8, <2>1, <3>1 DEF Send, Goto, history
  <2>2. CASE ~(left[j] > 1 \/ Records(j))
    BY <1>4, <1>8, <2>2 DEF Send
  <2>3. QED
    BY <2>1, <2>2
<1>9. ASSUME NEW j \in Jobs, RecordRead(j) PROVE TInv'
  BY <1>9 DEF RecordRead, Goto, history
<1>10. ASSUME NEW j \in Jobs, RecordWrite(j) PROVE TInv'
  BY <1>3, <1>10 DEF RecordWrite, End, history
<1>11. ASSUME NEW j \in Jobs, StopExhausted(j) \/ RecordLocked(j) \/ Stop(j) PROVE TInv'
  BY <1>4, <1>11 DEF StopExhausted, RecordLocked, Stop
<1>12. QED
  BY <1>1, <1>2, <1>5, <1>6, <1>7, <1>8, <1>9, <1>10, <1>11 DEF CreditNext

\* Every variable keeps its type, with or without the quiet conditions.
THEOREM CreditTypeCorrect == CreditSpec => []CreditTypeOK
<1>1. CreditInit => TInv
  BY InitCInv DEF CInv, PInv
<1>2. TInv => CreditTypeOK
  BY DEF TInv
<1>3. QED
  BY <1>1, <1>2, NextTInv, PTL DEF CreditSpec

-----------------------------------------------------------------------------
(* The pace *)

\* A reserved slot is at least one interval after the last one, and the row remembers it.
LEMMA ConsumeSpaced ==
  ASSUME PInv, NEW j \in Jobs, Consume(j)
  PROVE  row'.next = floor' /\ floor' >= floor + Gap
<1>1. /\ row.next \in Nat /\ now[j] \in Nat /\ Gap \in Nat
      /\ row.next = floor
  BY ConstantsAssumption DEF PInv, TInv, CreditTypeOK, Metadata, NextIsFloor
<1>2. SlotFor(j) \in Nat /\ SlotFor(j) >= floor
  BY <1>1 DEF SlotFor, LargerOf
<1>3. QED
  BY <1>1, <1>2 DEF Consume

\* Without charges between the halves of a success record, what is written back is what
\* was there.
LEMMA NextPInv == QuietRecording /\ PInv /\ [CreditNext]_creditVars => PInv'
<1> SUFFICES ASSUME QuietRecording, PInv, [CreditNext]_creditVars
             PROVE  WritesBackCurrent' /\ NextIsFloor'
  BY NextTInv DEF PInv
<1> USE DEF PInv, TInv, CreditTypeOK, WritesBackCurrent, NextIsFloor
<1>1. CASE UNCHANGED creditVars
  BY <1>1 DEF creditVars
<1>2. CASE Tick
  BY <1>2 DEF Tick, history
<1>3. ASSUME NEW j \in Jobs, End(j), row' = row, UNCHANGED history
      PROVE  WritesBackCurrent' /\ NextIsFloor'
  BY <1>3 DEF End, history
<1>4. ASSUME NEW j \in Jobs, NEW n \in 1..Limit, Preflight(j, n)
      PROVE  WritesBackCurrent' /\ NextIsFloor'
  BY <1>4 DEF Preflight, Goto, history
<1>5. ASSUME NEW j \in Jobs, Sample(j) PROVE WritesBackCurrent' /\ NextIsFloor'
  BY <1>5 DEF Sample, Goto, history
<1>6. ASSUME NEW j \in Jobs, Consume(j) PROVE WritesBackCurrent' /\ NextIsFloor'
  <2>1. \A k \in Jobs : place'[k] # "writing"
    BY <1>6 DEF Consume, Goto
  <2>2. NextIsFloor'
    BY <1>6, ConsumeSpaced
  <2>3. QED
    BY <2>1, <2>2
<1>7. ASSUME NEW j \in Jobs, Send(j) PROVE WritesBackCurrent' /\ NextIsFloor'
  <2>1. CASE left[j] > 1 \/ Records(j)
    BY <1>7, <2>1 DEF Send, Goto, history
  <2>2. CASE ~(left[j] > 1 \/ Records(j))
    BY <1>3, <1>7, <2>2 DEF Send
  <2>3. QED
    BY <2>1, <2>2
<1>8. ASSUME NEW j \in Jobs, RecordRead(j) PROVE WritesBackCurrent' /\ NextIsFloor'
  BY <1>8 DEF RecordRead, Goto, history
<1>9. ASSUME NEW j \in Jobs, RecordWrite(j) PROVE WritesBackCurrent' /\ NextIsFloor'
  <2>1. row' = row
    BY <1>9 DEF RecordWrite
  <2>2. QED
    BY <1>3, <1>9, <2>1 DEF RecordWrite
<1>10. ASSUME NEW j \in Jobs, StopExhausted(j) \/ RecordLocked(j) \/ Stop(j)
       PROVE  WritesBackCurrent' /\ NextIsFloor'
  BY <1>3, <1>10 DEF StopExhausted, RecordLocked, Stop
<1>11. QED
  BY <1>1, <1>2, <1>4, <1>5, <1>6, <1>7, <1>8, <1>9, <1>10 DEF CreditNext

\* Only Consume charges, and it keeps the pace.
LEMMA ChargeSpaced ==
  PInv /\ [CreditNext]_creditVars => [spent' # spent => floor' >= floor + Gap]_history
<1> SUFFICES ASSUME PInv, [CreditNext]_creditVars, spent' # spent PROVE floor' >= floor + Gap
  BY DEF history
<1>1. PICK j \in Jobs : Consume(j)
  BY DEF CreditNext, creditVars, history, Tick, Preflight, Sample, StopExhausted, Send, RecordRead,
         RecordWrite, RecordLocked, Stop
<1>2. QED
  BY <1>1, ConsumeSpaced

\* Any two requests of any jobs are reserved one interval apart, as long as nobody charges
\* between the halves of an unlocked success record.
THEOREM PaceKept == ASSUME QuietRecording PROVE CreditSpec => SlotsSpaced
<1>1. CreditInit => PInv
  BY InitCInv DEF CInv
<1>2. PInv /\ [CreditNext]_creditVars => PInv'
  BY NextPInv
<1>3. QED
  BY <1>1, <1>2, ChargeSpaced, PTL DEF CreditSpec, SlotsSpaced

-----------------------------------------------------------------------------
(* The count and the limit *)

\* A charge moves the count to today and adds one to it.
LEMMA ConsumeCInv ==
  ASSUME CInv, NEW j \in Jobs, Consume(j)
  PROVE  /\ CountsToday'
         /\ (provider = "twelve_data" => FutureUnspent /\ DailyLimitKept /\ CountExact)'
<1> DEFINE today == Day(now[j])
<1> USE DEF CInv, PInv, TInv, CreditTypeOK
<1>1. today \in Days /\ today = Day(clock) /\ row.date <= today /\ row.date \in Days
  BY DayCounted DEF Consume, CountsToday, Metadata
<1>2. today \in Nat /\ row.date \in Nat /\ \A d \in Days : d \in Nat
  BY <1>1 DEF Days
<1>3. /\ spent' = [spent EXCEPT ![today] = @ + 1]
      /\ clock' = clock /\ provider' = provider
      /\ spent' \in [Days -> Nat]
  BY ConsumeTInv DEF Consume
<1>4. \A k \in Jobs : place'[k] = "sampled" => place[k] = "sampled" /\ now'[k] = now[k]
  BY DEF Consume, Goto
<1>5. CASE provider = "twelve_data"
  <2>1. row'.date = today /\ row'.used = UsageOn(today) + 1
    BY <1>5 DEF Consume
  <2>2. UsageOn(today) = spent[today]
    <3>1. CASE row.date = today
      BY <1>5, <3>1 DEF UsageOn, CountExact
    <3>2. CASE row.date # today
      <4>1. today > row.date
        BY <1>1, <1>2, <3>2
      <4>2. spent[today] = 0
        BY <1>1, <1>5, <4>1 DEF FutureUnspent
      <4>3. QED
        BY <3>2, <4>2 DEF UsageOn
    <3>3. QED
      BY <3>1, <3>2
  <2>3. spent[today] + 1 <= Limit
    BY <1>1, <1>5, <2>2, ConstantsAssumption DEF Consume, Exhausted
  <2>4. CountsToday'
    <3>1. row'.date <= Day(clock')
      BY <1>1, <1>2, <1>3, <2>1
    <3>2. \A k \in Jobs : place'[k] = "sampled" => Day(now'[k]) = Day(clock')
      BY <1>3, <1>4 DEF CountsToday
    <3>3. QED
      BY <3>1, <3>2 DEF CountsToday, Day
  <2>5. FutureUnspent'
    <3>1. ASSUME NEW d \in Days, d > today PROVE spent'[d] = 0
      <4>1. d \in Nat /\ d > row.date /\ d # today
        BY <1>1, <1>2, <3>1
      <4>2. spent[d] = 0
        BY <1>5, <4>1 DEF FutureUnspent
      <4>3. QED
        BY <1>3, <4>1, <4>2
    <3>2. QED
      BY <2>1, <3>1 DEF FutureUnspent, Days, Day
  <2>6. DailyLimitKept'
    BY <1>1, <1>3, <1>5, <2>3 DEF DailyLimitKept
  <2>7. CountExact'
    BY <1>1, <1>3, <2>1, <2>2 DEF CountExact
  <2>8. QED
    BY <2>4, <2>5, <2>6, <2>7
<1>6. CASE provider # "twelve_data"
  <2>1. row'.date = row.date
    BY <1>6 DEF Consume
  <2>2. CountsToday'
    BY <1>3, <1>4, <2>1 DEF CountsToday, Day
  <2>3. QED
    BY <1>3, <1>6, <2>2
<1>7. QED
  BY <1>5, <1>6

\* When nothing is charged and no job samples, the count stays what it was.
LEMMA KeepsCount ==
  ASSUME CInv, row' = row, spent' = spent, provider' = provider, clock' = clock,
         \A k \in Jobs : place'[k] = "sampled" => place[k] = "sampled" /\ now'[k] = now[k]
  PROVE  /\ CountsToday'
         /\ (provider = "twelve_data" => FutureUnspent /\ DailyLimitKept /\ CountExact)'
BY DEF CInv, CountsToday, FutureUnspent, DailyLimitKept, CountExact, Day

\* Under the two quiet conditions every step keeps the count exact and within the limit.
LEMMA NextCInv == QuietRecording /\ QuietMidnight /\ CInv /\ [CreditNext]_creditVars => CInv'
<1> DEFINE Goal ==
      /\ CountsToday'
      /\ (provider = "twelve_data" => FutureUnspent /\ DailyLimitKept /\ CountExact)'
<1> SUFFICES ASSUME QuietRecording, QuietMidnight, CInv, [CreditNext]_creditVars PROVE Goal
  BY NextPInv DEF CInv
<1> USE DEF CInv, PInv, TInv, CreditTypeOK
<1>1. CASE UNCHANGED creditVars
  BY <1>1, KeepsCount DEF creditVars
<1>2. CASE Tick
  <2>1. /\ UNCHANGED <<row, spent, provider, place, now>>
        /\ clock \in Nat /\ clock' = clock + 1
    BY <1>2 DEF Tick, history
  <2>2. Day(clock) \in Nat /\ Day(clock') \in Nat /\ Day(clock) <= Day(clock')
    BY <2>1, DayMonotone
  <2>3. row.date <= Day(clock')
    BY <2>2 DEF CountsToday, Metadata, Days
  <2>4. \A j \in Jobs : place[j] = "sampled" => Day(now[j]) = Day(clock')
    BY <1>2 DEF Tick, CountsToday
  <2>5. CountsToday'
    BY <2>1, <2>3, <2>4 DEF CountsToday, Day
  <2>6. QED
    BY <2>1, <2>5 DEF FutureUnspent, DailyLimitKept, CountExact
<1>3. ASSUME NEW j \in Jobs, End(j), row' = row, UNCHANGED <<provider, clock, history>>
      PROVE  Goal
  BY <1>3, KeepsCount DEF End, history
<1>4. ASSUME NEW j \in Jobs, NEW n \in 1..Limit, Preflight(j, n) PROVE Goal
  BY <1>4, KeepsCount DEF Preflight, Goto, history
<1>5. ASSUME NEW j \in Jobs, Sample(j) PROVE Goal
  <2>1. CountsToday'
    BY <1>5 DEF Sample, Goto, CountsToday, Day
  <2>2. QED
    BY <1>5, <2>1 DEF Sample, FutureUnspent, DailyLimitKept, CountExact, history
<1>6. ASSUME NEW j \in Jobs, Consume(j) PROVE Goal
  BY <1>6, ConsumeCInv
<1>7. ASSUME NEW j \in Jobs, Send(j) PROVE Goal
  <2>1. CASE left[j] > 1 \/ Records(j)
    BY <1>7, <2>1, KeepsCount DEF Send, Goto, history
  <2>2. CASE ~(left[j] > 1 \/ Records(j))
    BY <1>3, <1>7, <2>2 DEF Send
  <2>3. QED
    BY <2>1, <2>2
<1>8. ASSUME NEW j \in Jobs, RecordRead(j) PROVE Goal
  BY <1>8, KeepsCount DEF RecordRead, Goto, history
<1>9. ASSUME NEW j \in Jobs, RecordWrite(j) PROVE Goal
  <2>1. row' = row
    BY <1>9 DEF RecordWrite, WritesBackCurrent
  <2>2. QED
    BY <1>3, <1>9, <2>1 DEF RecordWrite
<1>10. ASSUME NEW j \in Jobs, StopExhausted(j) \/ RecordLocked(j) \/ Stop(j) PROVE Goal
  BY <1>3, <1>10 DEF StopExhausted, RecordLocked, Stop
<1>11. QED
  BY <1>1, <1>2, <1>4, <1>5, <1>6, <1>7, <1>8, <1>9, <1>10 DEF CreditNext

LEMMA CreditInvariance ==
  ASSUME QuietRecording, QuietMidnight PROVE CreditSpec => []CInv
<1>1. CInv /\ [CreditNext]_creditVars => CInv'
  BY NextCInv
<1>2. QED
  BY <1>1, InitCInv, PTL DEF CreditSpec

\* However many jobs share the allowance, a UTC day's charges stay within it, when nobody
\* charges between the halves of an unlocked success record and no job waits for the row
\* over midnight.
THEOREM LimitKept ==
  ASSUME QuietRecording, QuietMidnight PROVE CreditSpec => []DailyLimitKept
<1>1. CInv => DailyLimitKept
  BY DEF CInv, DailyLimitKept
<1>2. QED
  BY <1>1, CreditInvariance, PTL

\* Under the same conditions the row has lost no charge of the day it counts.
THEOREM CountKept ==
  ASSUME QuietRecording, QuietMidnight PROVE CreditSpec => []CountExact
<1>1. CInv => CountExact
  BY DEF CInv, CountExact
<1>2. QED
  BY <1>1, CreditInvariance, PTL
=============================================================================
