---------------------------- MODULE ShadowStudy ---------------------------
(***************************************************************************)
(* The prospective three-arm study: activated and closed once, a capture of   *)
(* every session's native forecasts, and assessments of each captured case    *)
(* from the native outcome and the newest prices, which it reads one after the *)
(* other beside writers of prices.  Assets are durable before                  *)
(* the job that made them succeeds; only that success witnesses their         *)
(* publication, at the time it finished.  A later attempt recovers what one   *)
(* that died has left.  A reader asks as of an instant.                      *)
(*                                                                          *)
(* Time is the market's clock: the code compares instants with closes and     *)
(* opens alone.  One listing and one horizon stand for each of them, so a      *)
(* case is a captured session.                                               *)
(***************************************************************************)
EXTENDS OutcomeRecord

CONSTANTS
  Workers,
  StudySessions, \* bound: the sessions capture jobs are run for
  ScanDates,     \* bound: the dates scans are run for
  MaxJobs        \* bound: the jobs that succeed

ASSUME StudyAssumption ==
  /\ MaxJobs \in Nat \ {0}
  /\ None \notin {"unavailable", "endpoint_unverified", "basis_incompatible"}

VARIABLES
  activation,  \* its t0
  shots,       \* the capture assets
  assessments, \* the evaluation assets
  successes,   \* the successful job rows: job, clock, assets
  work         \* the job each worker runs

studyVars == <<activation, shots, assessments, successes, work>>

Free == [pc |-> "free"]
Doing(w, pcs) == work[w].pc \in pcs
Set(w, job) == work' = [work EXCEPT ![w] = job]

\* A job is its kind and target; its lock is held from begin to final status.
Job(kind, target) == <<kind, target>>
JobLocked(job) == \E w \in Workers : ~Doing(w, {"free"}) /\ work[w].job = job
Succeeded(job) == \E r \in successes : r.job = job

(***************************************************************************)
(* Witnesses, sessions and what is verified.                                *)
(***************************************************************************)
Naming(kind, asset) == {r \in successes : r.job[1] = kind /\ asset \in r.assets}
\* Faulty variant: the last success that names an asset is its witness.
WitnessedByLast(kind, asset, t) ==
  Naming(kind, asset) # {} /\ \A r \in Naming(kind, asset) : r.finished <= t
\* The first success that names an asset is its witness; here, whether it is by t.
WitnessedBy(kind, asset, t) == \E r \in Naming(kind, asset) : r.finished <= t

BeforeClose(s) == 2 * s        \* the clock before the close of s
BeforeOpen(s) == 2 * s + 1     \* the clock before the open that follows s

Epoch == Min({s \in 0..LastSession + 1 : activation.t0 <= BeforeClose(s)})
ActiveBefore(t) == activation # None /\ WitnessedBy("activate", activation, t)

Shot(s) == {c \in shots : c.session = s}

\* A missed session, a late publication, or a timely one.
ShotState(c) ==
  IF ~ActiveBefore(BeforeClose(c.session)) \/ ~c.prepared THEN "missed"
  ELSE IF WitnessedBy("capture", c, BeforeOpen(c.session)) THEN "timely"
  ELSE "late"
VisibleShots(t) == {c \in shots : WitnessedBy("capture", c, t)}

Accepted(s) == {a \in assessments : a.session = s /\ a.state = "accepted"}

\* The strict endpoint of the study: reason, or the close at the same endpoint.
Strict(asset, endpoint) ==
  IF ~Reached(asset, endpoint) THEN [reason |-> "unavailable"]
  ELSE IF Nth(asset, endpoint) # endpoint \/ Target \notin DOMAIN Closes(asset)
       THEN [reason |-> "endpoint_unverified"]
  ELSE IF Closes(asset)[Target] # PriceAtPrediction THEN [reason |-> "basis_incompatible"]
  ELSE [reason |-> None, price |-> Closes(asset)[endpoint]]

\* An accepted assessment proves its frozen native row and its return from its own assets.
AssessmentProved(a) ==
  a.state = "accepted" =>
    /\ Resolve(Max({i \in a.sources : i <= a.native.evaluated}), a.maturity)
         = a.native.row
    /\ Strict(Max(a.sources), a.maturity) = [reason |-> None, price |-> a.price]

\* Both of its histories were retrieved by the time of the outcome: the second one committed
\* after the outcome had been derived again, and before the newest prices were read.  The
\* proof derives the outcome from the second.
Torn(a) == a.state = "accepted" /\ \E i, j \in a.sources : i < j /\ j <= a.native.evaluated

StudyProved ==
  /\ \A c \in shots : Cardinality(Shot(c.session)) = 1 /\ c.session >= Epoch
  /\ \A s \in Sessions : Cardinality(Accepted(s)) <= 1
  /\ \A a \in assessments : ~Torn(a) => AssessmentProved(a)

-----------------------------------------------------------------------------
StudyInit ==
  /\ activation = None
  /\ shots = {} /\ assessments = {} /\ successes = {}
  /\ work = [w \in Workers |-> Free]

Begin(w, call) ==
  /\ Doing(w, {"free"})
  /\ Cardinality(successes) < MaxJobs
  /\ ~JobLocked(call.job) /\ ~Succeeded(call.job)
  /\ Set(w, call)

\* What an attempt that died has left is recovered.
ActivateStudy(w) ==
  /\ activation' = IF activation # None THEN activation ELSE [t0 |-> clock]
  /\ Begin(w, [pc |-> "done", job |-> Job("activate", 0), assets |-> {activation'}])
  /\ UNCHANGED <<shots, assessments, successes>>

Loaded(s) == prediction # None /\ Target = s
Prepared(s) == ActiveBefore(BeforeClose(s)) /\ clock <= BeforeOpen(s)

\* No forecast before the deadline is no data, and is tried again.
Capture(w) ==
  /\ activation # None
  /\ \E s \in StudySessions \cap ClosedSessions :
       /\ s >= Epoch
       /\ Shot(s) # {} \/ Loaded(s) \/ clock > BeforeOpen(s)
       /\ shots' = IF Shot(s) # {} THEN shots
                   ELSE shots \cup {[session |-> s, prepared |-> Prepared(s)]}
       /\ Begin(w, [pc |-> "done", job |-> Job("capture", s), assets |-> Shot(s)'])
  /\ UNCHANGED <<activation, assessments, successes>>

\* The scan's cutoff is its start: captures witnessed by then, and timely.  (A scan of no
\* case names no asset, and is left out.)
BeginEvaluate(w) ==
  LET cases == {c.session : c \in {x \in VisibleShots(clock) : ShotState(x) = "timely"}} IN
  /\ cases # {}
  /\ \E d \in ScanDates \cap ClosedSessions :
       Begin(w, [pc |-> "scan", job |-> Job("evaluate", d), assets |-> {}, through |-> d,
                 cases |-> cases])
  /\ UNCHANGED <<activation, shots, assessments, successes>>

\* The lock of a case is held while it is assessed.
CaseLocked(s) == \E w \in Workers : Doing(w, {"judge"}) /\ work[w].case.session = s

\* First the records of the case are read and proved (one that cannot be ends the job), its
\* outcome, and, to derive a terminal one again, the history of its time.
OpenCase(w) ==
  /\ Doing(w, {"scan"}) /\ work[w].cases # {}
  /\ LET s == Min(work[w].cases)
         first == Terminal(outcome.row) /\ Accepted(s) = {}
     IN /\ ~CaseLocked(s)
        /\ \A a \in assessments : a.session = s => AssessmentProved(a)
        /\ Set(w, [pc |-> "judge", job |-> work[w].job, through |-> work[w].through,
                   cases |-> work[w].cases, assets |-> work[w].assets,
                   case |-> [session |-> s, prior |-> Accepted(s), native |-> outcome,
                             source |-> IF first THEN AsOf(outcome.evaluated) ELSE None,
                             assessed |-> Retrieved]])
  /\ UNCHANGED <<activation, shots, assessments, successes>>

Unsettled(case) ==
  [session |-> case.session, state |-> "unresolved", reason |-> "unavailable",
   native |-> case.native, sources |-> {}]

\* Faulty variant: a terminal row is taken as it is.
RowTaken(case) == TRUE
NativeReplays(case) == Resolve(case.source, case.native.row.date) = case.native.row

\* A first assessment: the native row must replay, and its return hold in the prices that
\* are the newest of the time it was begun at.
FirstBody(case, through) ==
  LET base == Unsettled(case)
      row == case.native.row
      newest == AsOf(case.assessed)
      strict == Strict(newest, row.date)
      settle(state, reason) == [base EXCEPT !.state = state, !.reason = reason]
  IN IF ~Terminal(row) THEN base
     ELSE IF ~NativeReplays(case) THEN settle("quarantined", "cutoff_unverified")
     ELSE IF row.date > through
          THEN IF row.status = "matured" THEN base
               ELSE settle("quarantined", "basis_incompatible")
     ELSE IF strict.reason # None THEN settle("quarantined", strict.reason)
     ELSE [session |-> case.session, state |-> "accepted", reason |-> None,
           native |-> case.native, sources |-> {case.source, newest},
           maturity |-> row.date, price |-> strict.price]

\* Later prices confirm what was accepted, or challenge it; they never replace it.
LaterBody(case, prior) ==
  LET newest == AsOf(case.assessed)
      strict == Strict(newest, prior.maturity)
  IN IF strict.reason = None /\ strict.price = prior.price THEN prior
     ELSE [session |-> prior.session, state |-> "challenge", reason |-> strict,
           native |-> prior.native, sources |-> {newest}]

\* Then the newest prices are read: an assessment with the same evidence is the one there is.
Assess(w) ==
  /\ Doing(w, {"judge"})
  /\ LET case == work[w].case
         found == IF case.prior = {} THEN FirstBody(case, work[w].through)
                  ELSE LaterBody(case, CHOOSE a \in case.prior : TRUE)
     IN /\ assessments' = assessments \cup {found}
        /\ Set(w, [pc |-> "scan", job |-> work[w].job, through |-> work[w].through,
                   cases |-> work[w].cases \ {case.session},
                   assets |-> work[w].assets \cup {found} \cup
                                IF found.state = "challenge" THEN case.prior ELSE {}])
  /\ UNCHANGED <<activation, shots, successes>>

Succeed(w) ==
  /\ Doing(w, {"done"}) \/ (Doing(w, {"scan"}) /\ work[w].cases = {})
  /\ successes' = successes \cup
       {[job |-> work[w].job, finished |-> clock, assets |-> work[w].assets]}
  /\ Set(w, Free)
  /\ UNCHANGED <<activation, shots, assessments>>

\* It fails or dies, or has no data: what it registered stays, without a success.
Stop(w) ==
  /\ ~Doing(w, {"free"})
  /\ Set(w, Free)
  /\ UNCHANGED <<activation, shots, assessments, successes>>

Study ==
  \E w \in Workers :
    \/ ActivateStudy(w) \/ Capture(w) \/ BeginEvaluate(w) \/ OpenCase(w) \/ Assess(w)
    \/ Succeed(w) \/ Stop(w)

-----------------------------------------------------------------------------
(***************************************************************************)
(* read_shadow_study as of a clock, when all it reads can be proved; otherwise it   *)
(* reports failed integrity, and no states, from then on.                          *)
(***************************************************************************)
Available(t) == ActiveBefore(t)
Reported(t) == {s \in Sessions : Epoch <= s /\ BeforeClose(s) < t}

SessionState(s, t) ==
  LET visible == VisibleShots(t) \cap Shot(s) IN
  IF visible # {} THEN {ShotState(c) : c \in visible}
  ELSE {IF t <= BeforeOpen(s) THEN "pending" ELSE "missed"}

CaseState(s, t) ==
  LET visible == {a \in assessments : a.session = s /\ WitnessedBy("evaluate", a, t)}
  IN {IF a.state = "unresolved" THEN <<a.state>> ELSE <<a.state, a.reason>> : a \in visible}

Report(t) == [s \in Reported(t) |-> <<SessionState(s, t), CaseState(s, t)>>]
=============================================================================
