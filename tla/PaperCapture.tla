--------------------------- MODULE PaperCapture ---------------------------
(***************************************************************************)
(* The prospective paper record of one owner: a protocol declared once, a    *)
(* selection activated once, and for each session of its calendar one price   *)
(* mark captured between the close and the next open.  The scheduled refresh  *)
(* (which first only recovers, then captures after its market stage) and the  *)
(* paper_portfolio command run the capture job; any of them may die, or wait   *)
(* past the deadline.  What is committed is proved again on every read, from  *)
(* the very assets it names, whatever the provider has restated since.       *)
(*                                                                          *)
(* One held listing stands for the buys and SPY, which are all marked alike. *)
(***************************************************************************)
EXTENDS PriceVintages

CONSTANTS
  Callers,
  MaxAttempts  \* bound: attempt rows per session

ASSUME PaperAssumption ==
  /\ MaxAttempts \in Nat \ {0}
  /\ \A j \in 1..MaxAttempts, r \in 1..MaxVintages, h \in Histories, s \in Sessions :
       None # [job |-> j, retrieval |-> r, reference |-> Restrict(h, DOMAIN h \cap 0..s)]

VARIABLES
  declarations, \* instants of the forward protocol assets
  activations,  \* the activation assets
  execution,    \* the entry execution, published with the first capture
  captures,     \* the measurement assets
  jobs,         \* the attempt rows of the capture job of each session
  calls         \* where each caller is

paperVars == <<declarations, activations, execution, captures, jobs, calls>>

Idle == [pc |-> "idle"]
At(p, pcs) == calls[p].pc \in pcs
Goto(p, call) == calls' = [calls EXCEPT ![p] = call]

Activation == activations[1]
Calendar == Activation.entry..LastSession
Captured(s) == {c \in captures : c.session = s}

(***************************************************************************)
(* Locks: the child target lock of a session is held from before_attempt to   *)
(* the final status, the owner's from the state read to the durable commit.   *)
(***************************************************************************)
TargetLocked(s) == \E p \in Callers : At(p, {"task", "prove", "final"}) /\ calls[p].session = s
OwnerLocked == \E p \in Callers : At(p, {"prove"})

(***************************************************************************)
(* Reading: each mark is proved again from the asset it names.               *)
(***************************************************************************)
\* What is known before a mark: the selection's source, and earlier marks' histories.
Known(earlier) == {Activation.source} \cup {c.ref : c \in earlier}

Agrees(i, j) == \A d \in DOMAIN Closes(i) \cap DOMAIN Closes(j) : Closes(i)[d] = Closes(j)[d]

\* Reference and held dates are all there, and no price is on another basis.
Provable(ref, session, earlier) ==
  /\ PeriodEnd(ref) = session
  /\ 0..session \subseteq DOMAIN Closes(ref)
  /\ \A k \in Known(earlier) : Agrees(ref, k)
  /\ \A c \in earlier : Closes(ref)[c.session] = c.price
  /\ execution # None =>
       \A d \in DOMAIN execution.reference : Closes(ref)[d] = execution.reference[d]

\* A new mark takes the newest history that ends with its session.
Candidates(session, retrieval) == {i \in Visible(retrieval) : PeriodEnd(i) = session}
\* Faulty variant: reading looks for the newest history again.
NewestAsset(c) == Max(Candidates(c.session, c.retrieval))
MarkAsset(c) == c.ref

Earlier(c) == {d \in captures : d.session < c.session}

\* The originating row carries the whole binding; its status proves nothing.
Binding(c) == <<c.session, c.ref, c.retrieval>>
OriginProved(c) ==
  /\ c.job \in DOMAIN jobs[c.session]
  /\ jobs[c.session][c.job].origin = Binding(c)
  /\ c.session = Activation.entry => execution.job = c.job /\ execution.retrieval = c.retrieval

ActivationProved ==
  /\ Len(declarations) = 1 /\ Len(activations) = 1
  /\ declarations[1] <= Activation.made

Readable ==
  /\ ActivationProved
  /\ execution = None => captures = {}
  /\ execution # None =>
       /\ \E c \in captures : c.session = Activation.entry
       /\ \A c \in captures :
            /\ Cardinality(Captured(c.session)) = 1
            /\ c.session \in Calendar /\ c.made = 2 * c.session + 1
            /\ Candidates(c.session, c.retrieval) # {}
            /\ Provable(MarkAsset(c), c.session, Earlier(c))
            /\ c.price = Closes(MarkAsset(c))[c.session]
            /\ OriginProved(c)

-----------------------------------------------------------------------------
PaperInit ==
  /\ declarations = <<>> /\ activations = <<>>
  /\ execution = None /\ captures = {}
  /\ jobs = [s \in Sessions |-> <<>>]
  /\ calls = [p \in Callers |-> Idle]

\* Both publications hold the owner's lock to their durable commit, and an existing one
\* is validated and returned.
Undeclared == declarations = <<>>
Declare ==
  /\ Undeclared
  /\ declarations' = Append(declarations, clock)
  /\ UNCHANGED <<activations, execution, captures, jobs, calls>>

\* The calendar starts with the session after the New York date, which is the last
\* closed session's day or, past midnight or the open, the next one's.
Activate ==
  /\ activations = <<>>
  /\ Len(declarations) = 1
  /\ prediction # None /\ Target = Closed   \* the selection must be the current one
  /\ ~OwnerLocked
  /\ \E date \in {Closed, Closed + 1} :
       /\ InWindow(Closed) \/ date = Closed + 1
       /\ date < LastSession
       /\ activations' = Append(activations, [entry |-> date + 1, made |-> clock,
                                             source |-> prediction.source])
  /\ UNCHANGED <<declarations, execution, captures, jobs, calls>>

-----------------------------------------------------------------------------
\* A success, or a binding, without its capture proves nothing and is never repaired.
Unproved(s) == \E n \in DOMAIN jobs[s] : jobs[s][n].status = "success" \/ jobs[s][n].origin # None


\* before_attempt, under the session's lock and the owner's: the session is answered by
\* what is there, or may not be captured.
Settled(s) == s \notin Calendar \/ ~Readable \/ Captured(s) # {} \/ Unproved(s)

\* A caller that waits for its locks has done nothing yet: the wait is part of the step
\* that gets them.
Locked(s) == TargetLocked(s) \/ OwnerLocked

\* The recovery pass of a refresh, for the session that closed last.
Refresh(p) ==
  /\ At(p, {"idle"}) /\ activations # <<>>
  /\ ~Locked(Closed) /\ ~Settled(Closed)
  /\ Goto(p, [pc |-> "market", session |-> Closed])
  /\ UNCHANGED <<declarations, activations, execution, captures, jobs>>

AfterMarket(p) ==
  LET s == calls[p].session IN
  /\ At(p, {"market"})
  /\ ~InWindow(s) \/ (~Locked(s) /\ Settled(s))
  /\ Goto(p, Idle)
  /\ UNCHANGED <<declarations, activations, execution, captures, jobs>>

Superseded(row) == IF row.status = "running" THEN [row EXCEPT !.status = "failed"] ELSE row
Running == [status |-> "running", origin |-> None]

\* From the refresh after its market stage, or from the command for any closed session.
Attempt(p, s) ==
  LET n == Len(jobs[s]) + 1 IN
  /\ \/ At(p, {"market"}) /\ s = calls[p].session /\ InWindow(s)
     \/ At(p, {"idle"}) /\ s \in ClosedSessions
  /\ activations # <<>>
  /\ ~Locked(s) /\ ~Settled(s)
  /\ n <= MaxAttempts
  /\ jobs' = [jobs EXCEPT ![s] = Append([i \in DOMAIN @ |-> Superseded(@[i])], Running)]
  /\ Goto(p, [pc |-> "task", session |-> s, job |-> n])
  /\ UNCHANGED <<declarations, activations, execution, captures>>

\* Faulty variant: the final write gives the row only the task's own result.
SetRow(p, status) ==
  jobs' = [jobs EXCEPT ![calls[p].session][calls[p].job] = [Running EXCEPT !.status = status]]

SetStatus(p, status) ==
  jobs' = [jobs EXCEPT ![calls[p].session][calls[p].job].status = status]

\* Under the owner's lock: the record is read, and the cutoff taken.
MayCapture(s) ==
  /\ Readable
  /\ Captured(s) = {}
  /\ InWindow(s)
  /\ execution # None \/ s = Activation.entry

TakeCutoff(p) ==
  /\ At(p, {"task"}) /\ ~OwnerLocked
  /\ MayCapture(calls[p].session)
  /\ Goto(p, [pc |-> "prove", session |-> calls[p].session, job |-> calls[p].job,
              cutoff |-> Retrieved])
  /\ UNCHANGED <<declarations, activations, execution, captures, jobs>>

\* The mark is proved as of the cutoff; the clock is read again after the proof.
Proved(p) ==
  LET s == calls[p].session
      found == Candidates(s, calls[p].cutoff)
  IN InWindow(s) /\ found # {} /\ Provable(Max(found), s, captures)

\* Execution, capture and the binding in the job row, in one durable transaction.
Publish(p) ==
  LET s == calls[p].session
      ref == Max(Candidates(s, calls[p].cutoff))
      c == [session |-> s, job |-> calls[p].job, made |-> clock, retrieval |-> Retrieved,
            ref |-> ref, price |-> Closes(ref)[s]]
  IN
  /\ At(p, {"prove"}) /\ Proved(p)
  /\ captures' = captures \cup {c}
  /\ execution' = IF execution # None THEN execution
                  ELSE [job |-> c.job, retrieval |-> c.retrieval,
                        reference |-> Restrict(Closes(ref), 0..s)]
  /\ jobs' = [jobs EXCEPT ![s][c.job].origin = Binding(c)]
  /\ Goto(p, [pc |-> "final", session |-> s, job |-> c.job])
  /\ UNCHANGED <<declarations, activations>>

Withhold(p) ==
  /\ \/ At(p, {"task"}) /\ ~OwnerLocked /\ ~MayCapture(calls[p].session)
     \/ At(p, {"prove"}) /\ ~Proved(p)
  /\ SetStatus(p, "failed")
  /\ Goto(p, Idle)
  /\ UNCHANGED <<declarations, activations, execution, captures>>

\* The final status keeps the details, and with them the binding.
Finish(p) ==
  /\ At(p, {"final"})
  /\ SetStatus(p, "success")
  /\ Goto(p, Idle)
  /\ UNCHANGED <<declarations, activations, execution, captures>>

\* The process dies: its locks and its open transaction go with it, its row stays.
Die(p) ==
  /\ At(p, {"market", "task", "prove", "final"})
  /\ Goto(p, Idle)
  /\ UNCHANGED <<declarations, activations, execution, captures, jobs>>

Paper ==
  \/ Declare \/ Activate
  \/ \E p \in Callers :
       \/ Refresh(p) \/ AfterMarket(p) \/ \E s \in Sessions : Attempt(p, s)
       \/ TakeCutoff(p) \/ Publish(p) \/ Withhold(p) \/ Finish(p) \/ Die(p)
=============================================================================
