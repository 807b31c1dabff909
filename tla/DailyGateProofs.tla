-------------------------- MODULE DailyGateProofs --------------------------
(***************************************************************************)
(* Proofs about DailyGate for any number of operators and deaths.           *)
(***************************************************************************)
EXTENDS DailyGate, FiniteSetTheorems, TLAPS

\* A scheduled refresh under way knows its revision.
TaskKnown == pc[Sched] # "idle" => task \in Tasks

\* The processes inside execute_target_job of the daily job, from its reservation to its
\* result, are the holder of the target's lock.
InJob == {"begin", "run", "finish"}
LockHeld == \A p \in Procs : dlock = p <=> pc[p] \in InJob

\* Reservation ids are held by the lock's owner, and across its stages by the scheduler.
IdsHeld ==
  /\ \A p \in Procs : cur[p] # None => dlock = p
  /\ \A p \in Operators : expect[p] = None

\* Reservations record the frozen gate, of which there is one.
OneReservation ==
  /\ \A g, h \in frozen : g = h
  /\ \A r, s \in reservations : r = s
  /\ reservations # {} => frozen # {}

\* Who is in the job works with the frozen gate, and so did the one analysis and the success.
OneAnalysis ==
  /\ \A p \in Procs : dlock = p => gate[p] \in frozen
  /\ \A p \in Procs : pc[p] = "finish" => output # None
  /\ output # None => output.gate \in frozen
  /\ success # None => output # None /\ success = output.gate
  /\ commits = IF output = None THEN 0 ELSE 1

\* An operator's run has made the reservation it goes on with its own.
OwnReservation ==
  \A p \in Operators : pc[p] = "begin" => \A r \in reservations : r.owner # "parent"

\* What may keep a recorded success from replaying.
Excepted ==
  ~record.observed \/ moved \/ (secDone /\ ~record.sec) \/ children = "overtaken"

\* What a successful refresh has verified, and what of it cannot change any more.
ParentStands ==
  parent = "success" =>
    /\ pc[Sched] = "idle" /\ record \in Tasks
    /\ success # None /\ children \in {"hold", "overtaken"} /\ IssuedAsNamed(record)
    /\ success => record.sec
    /\ record.sec => secDone
    /\ Replays \/ Excepted

IInv ==
  /\ TypeOK /\ TaskKnown /\ LockHeld /\ IdsHeld
  /\ OneReservation /\ OneAnalysis /\ OwnReservation /\ ParentStands

-----------------------------------------------------------------------------
LEMMA InitIInv == Init => IInv
<1> SUFFICES ASSUME Init PROVE IInv
  OBVIOUS
<1> USE ConstantsAssumption DEF Init
<1>0. Sched \in Procs /\ None \notin Procs
  BY DEF Procs
<1>1. TypeOK /\ TaskKnown
  <2>1. /\ gate \in [Procs -> Gates] /\ first \in [Procs -> BOOLEAN]
        /\ observed \in [Procs -> BOOLEAN]
    BY DEF Gates
  <2>2. success \in Gates /\ late \in BOOLEAN /\ moved \in BOOLEAN
    BY DEF Gates
  <2>3. TaskKnown
    BY <1>0 DEF TaskKnown
  <2>4. QED
    BY <1>0, <2>1, <2>2, <2>3 DEF TypeOK
<1>2. LockHeld /\ IdsHeld
  BY <1>0 DEF LockHeld, InJob, IdsHeld, Procs
<1>3. OneReservation /\ OneAnalysis /\ OwnReservation /\ ParentStands
  BY <1>0 DEF OneReservation, OneAnalysis, OwnReservation, ParentStands, Procs
<1>4. QED
  BY <1>1, <1>2, <1>3 DEF IInv

\* A new reservation gets an identity nobody holds: two are enough.
LEMMA FreshExists ==
  ASSUME IInv, Unlocked, reservations = {} PROVE FreshId \in Ids
<1>1. \A p \in Procs : cur[p] = None
  BY ConstantsAssumption DEF IInv, IdsHeld, Unlocked, Procs
<1>2. \A p \in Procs : expect[p] \in {None, expect[Sched]}
  BY DEF IInv, IdsHeld, Procs
<1>3. PICK i \in Ids : i \notin {None, expect[Sched]}
  BY ConstantsAssumption
<1>4. i \notin {r.id : r \in reservations} \cup {expect[p] : p \in Procs} \cup {cur[p] : p \in Procs}
  BY <1>1, <1>2, <1>3
<1>5. QED
  BY <1>4 DEF FreshId

\* The gate of a call is the frozen one; without one it is what the call asked for, or the
\* switch of the moment.
LEMMA GateForType ==
  ASSUME IInv, NEW g \in Gates
  PROVE  GateFor(g) \in BOOLEAN /\ (frozen # {} => GateFor(g) \in frozen)
BY DEF IInv, TypeOK, Gates, GateFor

\* What the reserving transaction leaves, whoever called it.
LEMMA Reserved ==
  ASSUME IInv, Unlocked, NEW g \in Gates, NEW e \in Ids \cup {None},
         NEW owner \in {"daily", "parent"}, ~GateRefused(g, e), ReserveRow(g, owner, e)
  PROVE  /\ reservations' \subseteq Reservation /\ frozen' \subseteq BOOLEAN
         /\ OneReservation'
         /\ frozen # {} => frozen' = frozen
         /\ GateFor(g) \in frozen'
         /\ e = None /\ owner = "daily" => \A r \in reservations' : r.owner = "daily"
         /\ ActiveId(reservations') \in Ids \cup {None}
<1> USE DEF IInv, TypeOK, OneReservation
<1>1. GateFor(g) \in BOOLEAN /\ (frozen # {} => GateFor(g) \in frozen)
  BY GateForType
<1>2. CASE reservations # {}
  <2>1. frozen' = frozen /\ frozen # {}
    BY <1>2 DEF ReserveRow
  <2>2. PICK r \in reservations : reservations = {r}
    BY <1>2
  <2>3. r \in Reservation
    BY <2>2
  <2>4. CASE e # None
    BY <1>1, <2>1, <2>2, <2>3, <2>4 DEF ReserveRow, ActiveId, Reservation
  <2>5. CASE e = None
    <3> DEFINE s == [r EXCEPT !.owner = owner]
    <3>1. reservations' = {s}
      BY <1>2, <2>2, <2>5 DEF ReserveRow
    <3>2. s \in Reservation /\ s.owner = owner
      BY <2>3 DEF Reservation
    <3>3. QED
      BY <1>1, <2>1, <2>5, <3>1, <3>2 DEF ActiveId, Reservation
  <2>6. QED
    BY <2>4, <2>5
<1>3. CASE reservations = {} /\ success = None
  <2> DEFINE s == [id |-> FreshId, owner |-> owner, gate |-> GateFor(g)]
  <2>1. reservations' = {s} /\ frozen' = frozen \cup {GateFor(g)}
    BY <1>3 DEF ReserveRow
  <2>2. s \in Reservation /\ s.owner = owner
    BY <1>1, <1>3, FreshExists DEF Reservation
  <2>3. frozen' \subseteq BOOLEAN /\ (frozen # {} => frozen' = frozen)
    BY <1>1, <2>1
  <2>4. \A a, b \in frozen' : a = b
    BY <1>1, <2>1
  <2>5. QED
    BY <2>1, <2>2, <2>3, <2>4 DEF ActiveId, Reservation
<1>4. CASE reservations = {} /\ success # None
  <2>1. reservations' = {} /\ frozen' = frozen /\ frozen # {}
    BY <1>4 DEF ReserveRow, OneAnalysis
  <2>2. QED
    BY <1>1, <2>1 DEF ActiveId
<1>5. QED
  BY <1>2, <1>3, <1>4

\* A scheduler row that stops running keeps its reservations, under another owner.
LEMMA DisownedKeeps ==
  ASSUME IInv
  PROVE  /\ Disowned(reservations) \subseteq Reservation
         /\ \A r, s \in Disowned(reservations) : r = s
         /\ \A r \in Disowned(reservations) : r.owner # "parent"
         /\ reservations = {} => Disowned(reservations) = {}
BY DEF IInv, TypeOK, OneReservation, Disowned, Reservation

\* Steps that decide nothing about the market run.
LEMMA MarketFrame ==
  ASSUME IInv, UNCHANGED marketvars,
         reservations' \in {reservations, Disowned(reservations)},
         \A p \in Procs : dlock' = p => dlock = p /\ gate'[p] = gate[p],
         \A p \in Procs : pc'[p] = "finish" => pc[p] = "finish" \/ output # None,
         \A p \in Operators : pc'[p] = "begin" => pc[p] = "begin"
  PROVE  OneReservation' /\ OneAnalysis' /\ OwnReservation'
<1>1. OneReservation'
  BY DisownedKeeps DEF IInv, OneReservation, marketvars
<1>2. OneAnalysis'
  BY DEF IInv, OneAnalysis, marketvars
<1>3. OwnReservation'
  BY DisownedKeeps DEF IInv, OwnReservation
<1>4. QED
  BY <1>1, <1>2, <1>3

\* Steps beside a successful refresh that change nothing it verified.
LEMMA ParentFrame ==
  ASSUME IInv, UNCHANGED <<secDone, success, output, children, record, moved>>,
         parent' = "success" => parent = "success" /\ pc'[Sched] = pc[Sched]
  PROVE  ParentStands'
BY DEF IInv, ParentStands, Excepted, IssuedAsNamed, Replays, Verified, ChildrenSatisfied,
       GateServed, PricesCurrent

\* While the scheduler is at work its row is no success.
LEMMA ParentRuns == ASSUME IInv, pc[Sched] # "idle" PROVE parent # "success"
BY DEF IInv, ParentStands

-----------------------------------------------------------------------------
(* The daily job *)

LEMMA RunDailyIInv == ASSUME IInv, NEW p \in Procs, RunDaily(p) PROVE IInv'
<1> USE ConstantsAssumption DEF RunDaily, Goto, dbvars, outside, stagevars
<1>1. TypeOK' /\ TaskKnown'
  BY DEF IInv, TypeOK, TaskKnown, Observed, marketvars
<1>2. LockHeld' /\ IdsHeld'
  BY DEF IInv, TypeOK, LockHeld, InJob, IdsHeld
<1>3. OneReservation' /\ OneAnalysis' /\ OwnReservation'
  BY MarketFrame DEF IInv, TypeOK, Procs
<1>4. ParentStands'
  BY ParentFrame DEF IInv, TypeOK, marketvars
<1>5. QED
  BY <1>1, <1>2, <1>3, <1>4 DEF IInv

\* What a process leaves behind that forgets its locals, and its lock if it has it.
LEMMA Forgets ==
  ASSUME IInv, NEW p \in Procs, Forget(p), dlock' = IF dlock = p THEN None ELSE dlock
  PROVE  /\ dlock' \in Procs \cup {None} /\ task' \in Tasks \cup {None} /\ TaskKnown'
         /\ pc' \in [Procs -> {"idle", "gate", "begin", "run", "finish", "propose",
                               "reserve", "sec", "children", "verify"}]
         /\ gate' \in [Procs -> Gates] /\ first' \in [Procs -> BOOLEAN]
         /\ observed' \in [Procs -> BOOLEAN]
         /\ expect' \in [Procs -> Ids \cup {None}] /\ cur' \in [Procs -> Ids \cup {None}]
         /\ LockHeld' /\ IdsHeld'
         /\ \A q \in Procs : dlock' = q => dlock = q /\ gate'[q] = gate[q]
         /\ \A q \in Procs : pc'[q] = "idle" \/ pc'[q] = pc[q]
         /\ pc'[p] = "idle" /\ \A q \in Procs \ {p} : pc'[q] = pc[q]
<1> USE ConstantsAssumption DEF IInv, TypeOK, Forget, Goto
<1>1. gate' \in [Procs -> Gates] /\ first' \in [Procs -> BOOLEAN]
      /\ observed' \in [Procs -> BOOLEAN]
  BY DEF Gates
<1>2. LockHeld'
  BY DEF LockHeld, InJob, Procs
<1>3. IdsHeld'
  BY DEF IdsHeld, Procs
<1>4. TaskKnown'
  BY DEF TaskKnown, Procs
<1>5. \A q \in Procs : dlock' = q => dlock = q /\ gate'[q] = gate[q]
  BY DEF Procs
<1>6. QED
  BY <1>1, <1>2, <1>3, <1>4, <1>5

\* A call of the daily command ends with an error, and the scheduler's row fails with it.
LEMMA DailyErrorIInv ==
  ASSUME IInv, NEW p \in Procs, DailyError(p), pc[p] # "idle" PROVE IInv'
<1> USE ConstantsAssumption DEF DailyError, outside
<1>1. dlock' = IF dlock = p THEN None ELSE dlock
  OBVIOUS
<1>2. reservations' \in {reservations, Disowned(reservations)}
  OBVIOUS
<1>3. TypeOK' /\ TaskKnown' /\ LockHeld' /\ IdsHeld'
  BY <1>1, <1>2, Forgets, DisownedKeeps DEF IInv, TypeOK, marketvars
<1>4. OneReservation' /\ OneAnalysis' /\ OwnReservation'
  BY <1>1, <1>2, Forgets, MarketFrame DEF Procs
<1>5. ParentStands'
  <2>1. parent' = "success" => parent = "success" /\ pc'[Sched] = pc[Sched]
    BY <1>1, Forgets DEF Procs
  <2>2. QED
    BY <2>1, ParentFrame DEF marketvars
<1>6. QED
  BY <1>3, <1>4, <1>5 DEF IInv

\* A call that returns lets the lock go, and the scheduler goes on to its next stage.
LEMMA Returns ==
  ASSUME IInv, NEW p \in Procs, dlock = p, DailyReturn(p)
  PROVE  /\ dlock' = None /\ task' \in Tasks \cup {None} /\ TaskKnown'
         /\ pc' \in [Procs -> {"idle", "gate", "begin", "run", "finish", "propose",
                               "reserve", "sec", "children", "verify"}]
         /\ gate' \in [Procs -> Gates] /\ first' \in [Procs -> BOOLEAN]
         /\ observed' \in [Procs -> BOOLEAN]
         /\ expect' \in [Procs -> Ids \cup {None}] /\ cur' \in [Procs -> Ids \cup {None}]
         /\ LockHeld' /\ IdsHeld'
         /\ pc'[p] \notin InJob
         /\ \A q \in Procs \ {p} : pc'[q] = pc[q]
<1>1. CASE p # Sched
  <2>1. Forget(p) /\ dlock' = IF dlock = p THEN None ELSE dlock
    BY <1>1 DEF DailyReturn
  <2>2. QED
    BY <2>1, Forgets DEF InJob
<1>2. CASE p = Sched
  <2> USE <1>2, ConstantsAssumption DEF IInv, TypeOK, DailyReturn, Goto
  <2>1. pc[Sched] \in InJob
    BY DEF LockHeld
  <2>2. LockHeld'
    BY DEF LockHeld, InJob, Procs
  <2>3. IdsHeld'
    BY DEF IdsHeld, Procs
  <2>4. TaskKnown'
    BY <2>1 DEF TaskKnown, InJob
  <2>5. QED
    BY <2>2, <2>3, <2>4 DEF InJob
<1>3. QED
  BY <1>1, <1>2

\* Who holds the lock is in the job, and no parent has succeeded in its name.
LEMMA HolderWorks ==
  ASSUME IInv, NEW p \in Procs, pc[p] \in InJob
  PROVE  dlock = p /\ pc[p] # "idle" /\ (p = Sched => parent # "success")
BY DEF IInv, LockHeld, InJob, ParentStands

LEMMA GateErrorIInv == ASSUME IInv, NEW p \in Procs, GateError(p) PROVE IInv'
BY DailyErrorIInv DEF GateError

\* The gate is resolved under the lock.
LEMMA ResolveGateIInv == ASSUME IInv, NEW p \in Procs, ResolveGate(p) PROVE IInv'
<1> DEFINE g == gate[p]
           e == expect[p]
<1>1. g \in Gates /\ e \in Ids \cup {None} /\ Unlocked
  BY DEF IInv, TypeOK, ResolveGate
<1>2. /\ reservations' \subseteq Reservation /\ frozen' \subseteq BOOLEAN
      /\ OneReservation'
      /\ frozen # {} => frozen' = frozen
      /\ GateFor(g) \in frozen'
      /\ e = None => \A r \in reservations' : r.owner = "daily"
      /\ ActiveId(reservations') \in Ids \cup {None}
  BY <1>1, Reserved DEF ResolveGate
<1>3. GateFor(g) \in BOOLEAN
  BY <1>1, GateForType
<1>4. /\ dlock' = p /\ pc' = [pc EXCEPT ![p] = "begin"]
      /\ gate' = [gate EXCEPT ![p] = GateFor(g)]
      /\ cur' = [cur EXCEPT ![p] = ActiveId(reservations')]
      /\ UNCHANGED <<secDone, success, output, commits, stagevars, outside, expect,
                     first, observed, task>>
  BY DEF ResolveGate, Goto
<1>5. TypeOK'
  BY <1>2, <1>3, <1>4 DEF IInv, TypeOK, Gates, stagevars, outside
<1>6. TaskKnown'
  BY <1>4 DEF IInv, TypeOK, TaskKnown, ResolveGate
<1>7. \A q \in Procs : dlock # q /\ pc[q] \notin InJob /\ cur[q] = None
  BY <1>1, ConstantsAssumption DEF IInv, LockHeld, IdsHeld, Unlocked, Procs
<1>8. LockHeld' /\ IdsHeld'
  BY <1>4, <1>7 DEF IInv, TypeOK, LockHeld, IdsHeld, InJob
<1>9. OneAnalysis'
  <2>1. output # None => output.gate \in frozen'
    BY <1>2 DEF IInv, OneAnalysis
  <2>2. \A q \in Procs : pc'[q] # "finish"
    BY <1>4, <1>7 DEF IInv, TypeOK, InJob
  <2>3. gate'[p] \in frozen'
    BY <1>2, <1>4 DEF IInv, TypeOK
  <2>4. QED
    BY <1>4, <2>1, <2>2, <2>3 DEF IInv, OneAnalysis
<1>10. OwnReservation'
  <2>1. \A q \in Operators : pc'[q] = "begin" => q = p
    BY <1>4, <1>7 DEF IInv, TypeOK, InJob, Procs
  <2>2. p \in Operators => e = None
    BY DEF IInv, IdsHeld
  <2>3. QED
    BY <1>2, <2>1, <2>2 DEF OwnReservation
<1>11. ParentStands'
  <2>1. parent = "success" => p # Sched
    BY DEF IInv, ParentStands, ResolveGate
  <2>2. parent' = "success" => parent = "success" /\ pc'[Sched] = pc[Sched]
    BY <1>4, <2>1 DEF IInv, TypeOK, stagevars, Procs
  <2>3. QED
    BY <1>4, <2>2, ParentFrame DEF stagevars, outside
<1>12. QED
  BY <1>2, <1>5, <1>6, <1>8, <1>9, <1>10, <1>11 DEF IInv

LEMMA SkipDailyIInv == ASSUME IInv, NEW p \in Procs, SkipDaily(p) PROVE IInv'
<1>1. dlock = p /\ pc[p] # "idle" /\ (p = Sched => parent # "success")
  BY HolderWorks DEF SkipDaily, InJob
<1>2. CASE success = gate[p]
  <2>1. DailyReturn(p) /\ UNCHANGED <<dbvars, outside>>
    BY <1>2 DEF SkipDaily
  <2>2. TypeOK' /\ TaskKnown' /\ LockHeld' /\ IdsHeld'
    BY <1>1, <2>1, Returns DEF IInv, TypeOK, dbvars, stagevars, marketvars, outside
  <2>3. OneReservation' /\ OneAnalysis' /\ OwnReservation'
    <3>1. \A q \in Procs : dlock' # q
      BY <1>1, <2>1, Returns, ConstantsAssumption DEF Procs
    <3>2. \A q \in Procs : pc'[q] \in InJob => q # p /\ pc'[q] = pc[q]
      BY <1>1, <2>1, Returns
    <3>3. QED
      BY <2>1, <3>1, <3>2, MarketFrame DEF dbvars, InJob, Procs
  <2>4. ParentStands'
    <3>1. parent' = "success" => parent = "success" /\ pc'[Sched] = pc[Sched]
      BY <1>1, <2>1, Returns DEF dbvars, stagevars, Procs
    <3>2. QED
      BY <2>1, <3>1, ParentFrame DEF dbvars, stagevars, marketvars, outside
  <2>5. QED
    BY <2>2, <2>3, <2>4 DEF IInv
<1>3. CASE success # gate[p]
  BY <1>1, <1>3, DailyErrorIInv DEF SkipDaily
<1>4. QED
  BY <1>2, <1>3

\* The attempt begins: whatever was reserved is consumed.
LEMMA BeginIInv == ASSUME IInv, NEW p \in Procs, Begin(p) PROVE IInv'
<1> USE DEF Begin, Goto, marketvars, stagevars, outside, locals
<1>1. dlock = p /\ (p = Sched => parent # "success")
  BY HolderWorks DEF InJob
<1>2. TypeOK' /\ TaskKnown' /\ LockHeld' /\ IdsHeld'
  BY DEF IInv, TypeOK, TaskKnown, LockHeld, IdsHeld, InJob
<1>3. OneReservation' /\ OneAnalysis' /\ OwnReservation'
  BY DEF IInv, TypeOK, OneReservation, OneAnalysis, OwnReservation
<1>4. ParentStands'
  BY <1>1, ParentFrame DEF IInv, TypeOK, Procs
<1>5. QED
  BY <1>2, <1>3, <1>4 DEF IInv

\* A committed analysis is recovered.
LEMMA RecoverIInv == ASSUME IInv, NEW p \in Procs, Recover(p) PROVE IInv'
<1> USE DEF Recover, Goto, dbvars, stagevars, outside, locals
<1>1. dlock = p /\ (p = Sched => parent # "success")
  BY HolderWorks DEF InJob
<1>2. TypeOK' /\ TaskKnown' /\ LockHeld' /\ IdsHeld'
  BY DEF IInv, TypeOK, TaskKnown, LockHeld, IdsHeld, InJob, marketvars
<1>3. OneReservation' /\ OneAnalysis' /\ OwnReservation'
  BY MarketFrame DEF IInv, TypeOK, Completed, Procs
<1>4. ParentStands'
  BY <1>1, ParentFrame DEF IInv, TypeOK, Procs, marketvars
<1>5. QED
  BY <1>2, <1>3, <1>4 DEF IInv

\* The one analysis is committed, with the frozen gate.
LEMMA CommitIInv == ASSUME IInv, NEW p \in Procs, Commit(p) PROVE IInv'
<1> USE DEF Commit, Goto, stagevars, outside, locals
<1>1. dlock = p /\ pc[p] # "idle" /\ (p = Sched => parent # "success")
  BY HolderWorks DEF InJob
<1>2. PICK v \in Revision(p) :
        output' = [gate |-> gate[p], revision |-> v, onTime |-> observed[p] /\ ~late]
  OBVIOUS
<1>3. gate[p] \in frozen /\ gate[p] \in BOOLEAN
  BY <1>1 DEF IInv, TypeOK, OneAnalysis
<1>4. v \in (0..MaxUpgrades) \cup {None}
  BY <1>1 DEF Revision, IInv, TypeOK, TaskKnown, Tasks
<1>5. (observed[p] /\ ~late) \in BOOLEAN
  OBVIOUS
<1>6. output' \in Outputs /\ output'.gate = gate[p]
  BY <1>2, <1>3, <1>4, <1>5 DEF Outputs
<1>7. output' # None /\ output = None /\ success = None
  BY <1>6, NoneAssumption DEF Completed, IInv, OneAnalysis
<1>8. commits = 0 /\ commits' = 1
  BY <1>7 DEF IInv, OneAnalysis
<1>9. TypeOK' /\ TaskKnown' /\ LockHeld' /\ IdsHeld'
  BY <1>6, <1>8 DEF IInv, TypeOK, TaskKnown, LockHeld, IdsHeld, InJob
<1>10. OneReservation' /\ OwnReservation'
  BY DEF IInv, TypeOK, OneReservation, OwnReservation
<1>11. OneAnalysis'
  BY <1>3, <1>6, <1>7, <1>8 DEF IInv, TypeOK, OneAnalysis
<1>12. ParentStands'
  BY <1>7 DEF IInv, ParentStands
<1>13. QED
  BY <1>9, <1>10, <1>11, <1>12 DEF IInv

\* The success records the gate of the analysis.
LEMMA FinishIInv == ASSUME IInv, NEW p \in Procs, Finish(p) PROVE IInv'
<1> USE DEF Finish, stagevars, outside
<1>1. dlock = p /\ pc[p] # "idle" /\ (p = Sched => parent # "success")
  BY HolderWorks DEF InJob
<1>2. gate[p] \in frozen /\ gate[p] \in BOOLEAN /\ output # None /\ output.gate = gate[p]
  BY <1>1 DEF IInv, TypeOK, OneReservation, OneAnalysis
<1>3. TypeOK' /\ TaskKnown' /\ LockHeld' /\ IdsHeld'
  BY <1>1, <1>2, Returns DEF IInv, TypeOK, Gates
<1>4. /\ \A q \in Procs : dlock' # q
      /\ \A q \in Procs : pc'[q] \in InJob => q # p /\ pc'[q] = pc[q]
  BY <1>1, Returns, ConstantsAssumption DEF Procs
<1>5. OneReservation' /\ OwnReservation'
  BY <1>4 DEF IInv, OneReservation, OwnReservation, InJob, Procs
<1>6. OneAnalysis'
  BY <1>2, <1>4 DEF IInv, OneAnalysis, InJob
<1>7. ParentStands'
  <2>1. CASE parent # "success"
    BY <2>1 DEF ParentStands
  <2>2. CASE parent = "success"
    <3>1. success' = success
      BY <1>2, <2>2 DEF IInv, ParentStands, OneAnalysis
    <3>2. pc'[Sched] = pc[Sched]
      BY <1>1, <2>2, Returns DEF Procs
    <3>3. QED
      BY <3>1, <3>2, ParentFrame
  <2>3. QED
    BY <2>1, <2>2
<1>8. QED
  BY <1>3, <1>5, <1>6, <1>7 DEF IInv

LEMMA FailDailyIInv == ASSUME IInv, NEW p \in Procs, FailDaily(p) PROVE IInv'
BY DailyErrorIInv DEF FailDaily

LEMMA DailyStepIInv == ASSUME IInv, NEW p \in Procs, DailyStep(p) PROVE IInv'
BY GateErrorIInv, ResolveGateIInv, SkipDailyIInv, BeginIInv, RecoverIInv, CommitIInv,
   FinishIInv, FailDailyIInv DEF DailyStep, Run

-----------------------------------------------------------------------------
(* The scheduled refresh *)

LEMMA StartParentIInv == ASSUME IInv, StartParent PROVE IInv'
<1> USE ConstantsAssumption DEF StartParent, Goto, marketvars, outside
<1>1. Sched \in Procs /\ Sched \notin Operators
  BY DEF Procs
<1>2. task' \in Tasks /\ observed' \in [Procs -> BOOLEAN]
  BY DEF IInv, TypeOK, Tasks, Observed
<1>3. TypeOK' /\ TaskKnown'
  BY <1>2, DisownedKeeps DEF IInv, TypeOK, TaskKnown
<1>4. LockHeld' /\ IdsHeld'
  BY <1>1 DEF IInv, TypeOK, LockHeld, IdsHeld, InJob
<1>5. OneReservation' /\ OneAnalysis' /\ OwnReservation'
  BY <1>1, MarketFrame DEF IInv, TypeOK, Procs
<1>6. ParentStands'
  BY DEF ParentStands
<1>7. QED
  BY <1>3, <1>4, <1>5, <1>6 DEF IInv

\* The row fails, and what it had reserved may be adopted by others.
LEMMA FailParentIInv ==
  ASSUME IInv, pc[Sched] \in {"propose", "reserve", "sec", "children", "verify"}, FailParent
  PROVE  IInv'
<1> USE DEF FailParent, EndParent, outside
<1>1. Sched \in Procs /\ dlock # Sched
  BY DEF Procs, IInv, LockHeld, InJob
<1>2. dlock' = IF dlock = Sched THEN None ELSE dlock
  BY <1>1
<1>3. TypeOK' /\ TaskKnown' /\ LockHeld' /\ IdsHeld'
  BY <1>1, <1>2, Forgets, DisownedKeeps DEF IInv, TypeOK, marketvars
<1>4. OneReservation' /\ OneAnalysis' /\ OwnReservation'
  BY <1>1, <1>2, Forgets, MarketFrame DEF Procs
<1>5. ParentStands'
  BY DEF ParentStands
<1>6. QED
  BY <1>3, <1>4, <1>5 DEF IInv

\* A stage of the scheduler that touches no row but those of its own stages, and not the lock.
LEMMA StageIInv ==
  ASSUME IInv, NEW l \in {"reserve", "sec", "gate", "children", "verify"}, Goto(Sched, l),
         pc[Sched] \in {"propose", "sec", "children"},
         gate' \in [Procs -> Gates], task' \in Tasks,
         children' \in {"none", "hold", "overtaken"},
         secDone' \in BOOLEAN,
         \A q \in Procs \ {Sched} : gate'[q] = gate[q],
         UNCHANGED <<reservations, marketvars, parent, record, outside, dlock, expect, cur,
                     first, observed>>
  PROVE  IInv'
<1> USE ConstantsAssumption DEF Goto, outside
<1>1. Sched \in Procs /\ dlock # Sched /\ parent # "success"
  BY ParentRuns DEF Procs, IInv, LockHeld, InJob
<1>2. TypeOK' /\ TaskKnown'
  BY DEF IInv, TypeOK, TaskKnown, marketvars
<1>3. LockHeld' /\ IdsHeld'
  BY <1>1 DEF IInv, TypeOK, LockHeld, IdsHeld, InJob
<1>4. OneReservation' /\ OneAnalysis' /\ OwnReservation'
  BY <1>1, MarketFrame DEF IInv, TypeOK, Procs
<1>5. ParentStands'
  BY <1>1 DEF ParentStands
<1>6. QED
  BY <1>2, <1>3, <1>4, <1>5 DEF IInv

LEMMA ProposeIInv == ASSUME IInv, Propose PROVE IInv'
<1>1. Sched \in Procs /\ task \in Tasks /\ GateFor(None) \in BOOLEAN
  BY GateForType DEF Procs, Propose, IInv, TaskKnown, Gates
<1>2. gate' \in [Procs -> Gates]
  BY <1>1 DEF IInv, TypeOK, Propose, Gates
<1>3. QED
  BY <1>1, <1>2, StageIInv DEF IInv, TypeOK, Propose, dbvars, stagevars

LEMMA PassSecIInv == ASSUME IInv, PassSec PROVE IInv'
<1>1. task \in Tasks /\ gate[Sched] \in Gates
  BY DEF Procs, PassSec, IInv, TypeOK, TaskKnown
<1>2. SecRequired \in BOOLEAN
  BY DEF SecRequired, IInv, TypeOK
<1>3. task' \in Tasks /\ secDone' \in BOOLEAN
  BY <1>1, <1>2 DEF IInv, TypeOK, PassSec, Tasks
<1>4. Goto(Sched, AfterSec) /\ AfterSec \in {"children", "gate"}
  BY DEF PassSec, AfterSec
<1>5. QED
  BY <1>3, <1>4, StageIInv DEF IInv, TypeOK, PassSec, stagevars

LEMMA CompleteChildrenIInv == ASSUME IInv, CompleteChildren PROVE IInv'
<1>1. task \in Tasks
  BY DEF CompleteChildren, IInv, TaskKnown
<1>2. QED
  BY <1>1, StageIInv DEF IInv, TypeOK, CompleteChildren, locals

\* The gate is reserved under the daily job's lock, which is let go at once.
LEMMA ReserveGateIInv == ASSUME IInv, ReserveGate PROVE IInv'
<1> DEFINE g == gate[Sched]
<1>1. Sched \in Procs /\ g \in Gates /\ Unlocked
  BY DEF IInv, TypeOK, Procs, ReserveGate
<1>2. /\ reservations' \subseteq Reservation /\ frozen' \subseteq BOOLEAN
      /\ OneReservation'
      /\ frozen # {} => frozen' = frozen
      /\ ActiveId(reservations') \in Ids \cup {None}
  BY <1>1, Reserved DEF ReserveGate
<1>3. PICK l \in {"gate", "sec"}, c \in BOOLEAN :
        pc' = [pc EXCEPT ![Sched] = l] /\ first' = [first EXCEPT ![Sched] = c]
  BY DEF ReserveGate, Goto
<1>4. /\ expect' = [expect EXCEPT ![Sched] = ActiveId(reservations')]
      /\ UNCHANGED <<secDone, success, output, commits, stagevars, outside, dlock, gate,
                     cur, observed, task>>
  BY DEF ReserveGate
<1>5. TypeOK'
  BY <1>1, <1>2, <1>3, <1>4 DEF IInv, TypeOK, stagevars, outside
<1>6. TaskKnown' /\ LockHeld'
  BY <1>1, <1>3, <1>4, ConstantsAssumption
     DEF IInv, TypeOK, TaskKnown, LockHeld, InJob, ReserveGate
<1>7. IdsHeld'
  BY <1>4, ConstantsAssumption DEF IInv, TypeOK, IdsHeld, Procs
<1>8. \A q \in Procs : dlock # q /\ pc[q] \notin InJob
  BY <1>1, ConstantsAssumption DEF IInv, LockHeld, Unlocked, Procs
<1>9. \A q \in Procs : pc'[q] \notin InJob
  BY <1>1, <1>3, <1>8 DEF IInv, TypeOK, InJob
<1>10. OneAnalysis'
  BY <1>2, <1>4, <1>8, <1>9 DEF IInv, OneAnalysis, InJob
<1>11. OwnReservation'
  BY <1>9 DEF OwnReservation, InJob, Procs
<1>12. ParentStands'
  BY <1>4, ParentRuns DEF ReserveGate, ParentStands, stagevars
<1>13. QED
  BY <1>2, <1>5, <1>6, <1>7, <1>10, <1>11, <1>12 DEF IInv

\* The refresh succeeds on what it has verified a moment before.
LEMMA SucceedParentIInv == ASSUME IInv, SucceedParent PROVE IInv'
<1> USE DEF SucceedParent, EndParent, outside
<1>1. Sched \in Procs /\ dlock # Sched /\ task \in Tasks
  BY DEF Procs, IInv, LockHeld, InJob, TaskKnown
<1>2. dlock' = IF dlock = Sched THEN None ELSE dlock
  BY <1>1
<1>3. TypeOK' /\ TaskKnown' /\ LockHeld' /\ IdsHeld'
  BY <1>1, <1>2, Forgets, DisownedKeeps DEF IInv, TypeOK, marketvars
<1>4. OneReservation' /\ OneAnalysis' /\ OwnReservation'
  BY <1>1, <1>2, Forgets, MarketFrame DEF Procs
<1>5. ParentStands'
  <2>1. record' = task /\ UNCHANGED <<secDone, success, output, children, moved>>
    BY DEF marketvars
  <2>2. pc'[Sched] = "idle"
    BY <1>1, <1>2, Forgets
  <2>3. /\ success # None /\ children = "hold" /\ IssuedAsNamed(task) /\ PricesCurrent
        /\ success => task.sec
        /\ task.sec => secDone
    BY DEF Verified, ChildrenSatisfied, GateServed
  <2>4. success \in BOOLEAN /\ secDone \in BOOLEAN /\ task.sec \in BOOLEAN
    BY <1>1, <2>3 DEF IInv, TypeOK, Gates, Tasks
  <2>5. (task.sec = (success \/ secDone)) \/ (secDone /\ ~task.sec)
    BY <2>3, <2>4
  <2>6. IssuedAsNamed(record)' /\ Verified(record)'
    BY <2>1, <2>3 DEF IssuedAsNamed, Verified, ChildrenSatisfied, GateServed, PricesCurrent
  <2>7. Replays' \/ Excepted'
    BY <2>1, <2>5, <2>6 DEF Replays, Excepted
  <2>8. QED
    BY <1>1, <2>1, <2>2, <2>3, <2>6, <2>7 DEF ParentStands
<1>6. QED
  BY <1>3, <1>4, <1>5 DEF IInv

LEMMA SchedStepIInv == ASSUME IInv, SchedStep PROVE IInv'
BY StartParentIInv, FailParentIInv, ProposeIInv, PassSecIInv, CompleteChildrenIInv,
   ReserveGateIInv, SucceedParentIInv
   DEF SchedStep, FailPropose, ReserveRefused, FailSec, FailChildren, FailVerification

-----------------------------------------------------------------------------
(* What happens beside the jobs, and deaths *)

\* The switch, the clock, the checkout, a market row, an outcome, and the operator's SEC job
\* change nothing of the daily job, and a verified refresh only as ParentStands allows.
LEMMA OutsideIInv ==
  ASSUME IInv, SwitchSec \/ RunSec \/ Open \/ Upgrade \/ MoveRows \/ Overtake PROVE IInv'
<1> USE DEF SwitchSec, RunSec, Open, Upgrade, MoveRows, Overtake, Inside, Process, outside,
            stagevars, locals
<1>1. TypeOK' /\ TaskKnown'
  <2>1. head' \in 0..MaxUpgrades
    BY ConstantsAssumption DEF IInv, TypeOK
  <2>2. /\ secEnabled' \in BOOLEAN /\ secDone' \in BOOLEAN /\ late' \in BOOLEAN
        /\ moved' \in BOOLEAN /\ children' \in {"none", "hold", "overtaken"}
    BY DEF IInv, TypeOK
  <2>3. QED
    BY <2>1, <2>2 DEF IInv, TypeOK, TaskKnown, marketvars
<1>2. LockHeld' /\ IdsHeld'
  BY DEF IInv, LockHeld, IdsHeld
<1>3. OneReservation' /\ OneAnalysis' /\ OwnReservation'
  BY DEF IInv, OneReservation, OneAnalysis, OwnReservation, marketvars
<1>4. ParentStands'
  <2> SUFFICES ASSUME parent = "success" PROVE ParentStands'
    BY DEF ParentStands
  <2>1. UNCHANGED <<parent, record, success, output, pc>>
    BY DEF marketvars
  <2>2. /\ pc[Sched] = "idle" /\ record \in Tasks
        /\ success # None /\ children \in {"hold", "overtaken"} /\ IssuedAsNamed(record)
        /\ success => record.sec
        /\ record.sec => secDone
        /\ Replays \/ Excepted
    BY DEF IInv, ParentStands
  <2>3. CASE UNCHANGED <<secDone, moved, children>>
    BY <2>1, <2>3, ParentFrame
  <2>4. CASE RunSec
    <3>1. secDone' = TRUE /\ UNCHANGED <<moved, children>> /\ record.sec \in BOOLEAN
      BY <2>2, <2>4 DEF Tasks
    <3>2. IssuedAsNamed(record)'
      BY <2>1, <2>2 DEF IssuedAsNamed
    <3>3. record.sec => Replays' \/ Excepted'
      <4>1. ASSUME record.sec, Replays PROVE Replays'
        BY <2>1, <2>2, <3>1, <4>1
           DEF Replays, Verified, ChildrenSatisfied, GateServed, IssuedAsNamed,
               PricesCurrent
      <4>2. QED
        BY <2>1, <2>2, <3>1, <4>1 DEF Excepted
    <3>4. ~record.sec => Excepted'
      BY <2>1, <3>1 DEF Excepted
    <3>5. QED
      BY <2>1, <2>2, <3>1, <3>2, <3>3, <3>4 DEF ParentStands
  <2>5. CASE MoveRows
    <3>1. moved' /\ UNCHANGED <<secDone, children>>
      BY <2>5
    <3>2. IssuedAsNamed(record)'
      BY <2>1, <2>2 DEF IssuedAsNamed
    <3>3. QED
      BY <2>1, <2>2, <3>1, <3>2 DEF ParentStands, Excepted
  <2>6. CASE Overtake
    <3>1. children' = "overtaken" /\ secDone' = secDone
      BY <2>6
    <3>2. IssuedAsNamed(record)'
      BY <2>1, <2>2 DEF IssuedAsNamed
    <3>3. QED
      BY <2>1, <2>2, <3>1, <3>2 DEF ParentStands, Excepted
  <2>7. QED
    BY <2>3, <2>4, <2>5, <2>6
<1>5. QED
  BY <1>1, <1>2, <1>3, <1>4 DEF IInv

LEMMA CrashIInv == ASSUME IInv, NEW p \in Procs, Crash(p) PROVE IInv'
<1> USE DEF Crash, dbvars, stagevars
<1>1. TypeOK' /\ TaskKnown' /\ LockHeld' /\ IdsHeld'
  BY Forgets DEF IInv, TypeOK, marketvars
<1>2. OneReservation' /\ OneAnalysis' /\ OwnReservation'
  BY Forgets, MarketFrame DEF Procs
<1>3. ParentStands'
  <2>1. parent' = "success" => parent = "success" /\ pc'[Sched] = pc[Sched]
    BY Forgets DEF IInv, ParentStands, Procs
  <2>2. QED
    BY <2>1, ParentFrame DEF marketvars
<1>4. QED
  BY <1>1, <1>2, <1>3 DEF IInv

LEMMA StutterIInv == IInv /\ UNCHANGED vars => IInv'
<1> SUFFICES ASSUME IInv, UNCHANGED vars PROVE IInv'
  OBVIOUS
<1> USE DEF vars, dbvars, marketvars, stagevars, outside, locals
<1>1. TypeOK' /\ TaskKnown'
  BY DEF IInv, TypeOK, TaskKnown
<1>2. LockHeld' /\ IdsHeld' /\ OneReservation' /\ OneAnalysis' /\ OwnReservation'
  BY DEF IInv, LockHeld, IdsHeld, OneReservation, OneAnalysis, OwnReservation
<1>3. ParentStands'
  BY ParentFrame
<1>4. QED
  BY <1>1, <1>2, <1>3 DEF IInv

LEMMA NextIInv == IInv /\ [Next]_vars => IInv'
BY StutterIInv, RunDailyIInv, DailyStepIInv, CrashIInv, SchedStepIInv, OutsideIInv DEF Next

\* The inductive invariant holds in every reachable state, however many operators run the
\* daily command and however often anybody dies.
THEOREM Invariance == Spec => []IInv
BY InitIInv, NextIInv, PTL DEF Spec

\* Type correctness; in particular two reservation identities are always enough.
THEOREM TypeCorrect == Spec => []TypeOK
<1>1. IInv => TypeOK
  BY DEF IInv
<1>2. QED
  BY <1>1, Invariance, PTL

\* A set without two different members has at most one.
LEMMA AtMostOne ==
  ASSUME NEW S, \A x, y \in S : x = y PROVE Cardinality(S) <= 1
<1>1. CASE S = {}
  BY <1>1, FS_EmptySet
<1>2. CASE S # {}
  <2>1. PICK x \in S : S = {x}
    BY <1>2
  <2>2. QED
    BY <2>1, FS_Singleton
<1>3. QED
  BY <1>1, <1>2

\* One gate and one analysis per target, whatever is switched and whoever dies.
THEOREM GateDecidedOnce == Spec => []OneGatePerTarget
<1>1. IInv => OneGatePerTarget
  <2> SUFFICES ASSUME IInv PROVE OneGatePerTarget
    OBVIOUS
  <2>1. Cardinality(frozen) <= 1 /\ Cardinality(reservations) <= 1
    BY AtMostOne DEF IInv, OneReservation
  <2>2. commits <= 1
    BY DEF IInv, OneAnalysis
  <2>3. output # None => frozen = {output.gate}
    BY DEF IInv, OneReservation, OneAnalysis
  <2>4. success # None => output # None /\ success = output.gate
    BY DEF IInv, OneAnalysis
  <2>5. QED
    BY <2>1, <2>2, <2>3, <2>4 DEF OneGatePerTarget
<1>2. QED
  BY <1>1, Invariance, PTL

\* A successful refresh stands on timely evidence of its own revision, and replays, unless it
\* was started after the next open, until a price it used is replaced, an SEC success appears
\* that it has not recorded, or its evaluation is overtaken.
THEOREM SuccessBacked == Spec => []ParentSuccessBacked
<1>1. IInv => ParentSuccessBacked
  BY DEF IInv, ParentStands, Excepted, ParentSuccessBacked, IssuedAsNamed
<1>2. QED
  BY <1>1, Invariance, PTL

\* Only the scheduler's own steps change a reservation its running row owns.
LEMMA ReservationStep ==
  ASSUME IInv, Next, NEW r \in reservations, r.owner = "parent", r \notin reservations'
  PROVE  pc'[Sched] # pc[Sched]
<1> USE DEF IInv, TypeOK
<1>1. ASSUME NEW p \in Operators, DailyStep(p) PROVE FALSE
  <2>1. p \in Procs /\ p # Sched /\ expect[p] = None
    BY ConstantsAssumption DEF Procs, IdsHeld
  <2>2. CASE ResolveGate(p)
    BY <2>1, <2>2 DEF ResolveGate, GateRefused
  <2>3. CASE Begin(p)
    BY <1>1, <2>3 DEF Begin, OwnReservation
  <2>4. CASE ~ResolveGate(p) /\ ~Begin(p)
    BY <1>1, <2>1, <2>4
       DEF DailyStep, GateError, SkipDaily, Run, Recover, Commit, Finish, FailDaily,
           DailyError, DailyReturn, dbvars
  <2>5. QED
    BY <2>2, <2>3, <2>4
<1>2. ASSUME DailyStep(Sched) PROVE pc'[Sched] # pc[Sched]
  <2>1. Sched \in Procs
    BY DEF Procs
  <2>2. QED
    BY <1>2, <2>1
       DEF DailyStep, GateError, ResolveGate, SkipDaily, Begin, Run, Recover, Commit,
           Finish, FailDaily, DailyError, DailyReturn, Forget, Goto
<1>3. ASSUME SchedStep PROVE pc'[Sched] # pc[Sched]
  <2>1. Sched \in Procs
    BY DEF Procs
  <2>2. QED
    BY <1>3, <2>1
       DEF SchedStep, StartParent, Propose, FailPropose, ReserveGate, ReserveRefused,
           PassSec, FailSec, CompleteChildren, FailChildren, FailVerification,
           SucceedParent, FailParent, EndParent, Forget, Goto, AfterSec
<1>4. ASSUME \/ \E p \in Procs : RunDaily(p) \/ Crash(p)
             \/ SwitchSec \/ RunSec \/ Open \/ Upgrade \/ MoveRows \/ Overtake
      PROVE  FALSE
  BY <1>4 DEF RunDaily, Crash, SwitchSec, RunSec, Open, Upgrade, MoveRows, Overtake, Inside,
              dbvars
<1>5. QED
  BY <1>1, <1>2, <1>3, <1>4 DEF Next, Procs

\* An operator's daily command never takes over a reservation of a running refresh.
THEOREM ReservationKept == Spec => ReservationRespected
<1>1. IInv /\ [Next]_vars =>
        [\A r \in reservations : r.owner = "parent" /\ r \notin reservations'
           => pc'[Sched] # pc[Sched]]_vars
  BY ReservationStep DEF vars
<1>2. QED
  BY <1>1, Invariance, PTL DEF Spec, ReservationRespected
=============================================================================
