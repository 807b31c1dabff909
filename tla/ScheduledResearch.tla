------------------------- MODULE ScheduledResearch ------------------------
(***************************************************************************)
(* The scheduled research refresh of each target session, in                 *)
(* core/research_product_refresh.py: a parent job that runs its market child, *)
(* an evaluation child and a portfolio child, one after the other, each       *)
(* recovered if it succeeded before, and succeeds only if all of it verifies. *)
(* A success is replayed from the rows of the day whenever it is asked for.    *)
(*                                                                          *)
(* A target is locked by its parent, so there is one refresh of a target at a *)
(* time; those of two targets may overlap when one outlives the next close,   *)
(* and the evaluate command and the owner's edits take no part in the locks.   *)
(* One prediction stands for all that are evaluated, one portfolio for the    *)
(* active ones, and one holding, priced by the market child, for its own.     *)
(***************************************************************************)
EXTENDS OutcomeRecord, SequencesExt

CONSTANTS
  MaxEvaluations, \* bound: the evaluation times fixed
  MaxChanges      \* bound: changes of the book, and projections of other jobs

ASSUME ScheduleAssumption ==
  /\ MaxEvaluations \in Nat \ {0} /\ MaxChanges \in Nat
  /\ None # [target |-> 0, source |-> 1]

VARIABLES
  beside,      \* what a behaviour follows beside the refreshes: the market, with its predicted
               \* listing, or the owner of a portfolio; the two share the parents alone
  issued,      \* targets with a successful market child
  times,       \* the evaluation times, in order: what was retrieved by each
  pc,          \* where a refresh is, or (Command) the evaluate command
  mine,        \* the latest evaluation of each: its time, date, choice and result
  evaluated,   \* targets with a successful evaluation child
  overtaken,   \* targets whose outcome another evaluation wrote since their time was fixed
  books,       \* the states the portfolio has had: cash and shares
  active,      \* the portfolio is not archived
  quote,       \* the LatestMarketData row of the holding: its session, and which of its projections
  seen,        \* what a running portfolio child has read or recorded
  portfolios,  \* the result of each target's latest finished portfolio child
  succeeded    \* targets with a successful parent

Targets == Sessions \ {0}
Command == 0  \* the evaluate command, beside the refreshes of the targets

book == Last(books)
evaluationVars == <<times, mine, evaluated, overtaken, outcome>>
ownerVars == <<books, active, quote>>
portfolioVars == <<seen, portfolios>>
parentVars == <<beside, issued, succeeded>>
vars == <<marketVars, evaluationVars, ownerVars, portfolioVars, parentVars, pc>>

NotFixed == [time |-> 0]
Zero == [active |-> 0]  \* the skip of a child that found no active portfolio

\* A forecast was issued at the close of session 0, from the history of that day.
Init ==
  /\ clock = 1
  /\ \E h \in Histories : fetched = <<Vintage(h)>>
  /\ stored = {1}
  /\ beside \in {"market", "owner"}
  /\ prediction = IF beside = "market" THEN [target |-> 0, source |-> 1] ELSE None
  /\ issued = {} /\ times = <<>>
  /\ pc = [j \in Sessions |-> "idle"]
  /\ mine = [j \in Sessions |-> NotFixed]
  /\ evaluated = {} /\ overtaken = {}
  /\ outcome = [row |-> Pending, by |-> 0]
  /\ books = <<[cash |-> 0, shares |-> 1]>> /\ active = (beside = "owner")
  /\ quote = [session |-> 0, projection |-> 0]
  /\ seen = [d \in Targets |-> None] /\ portfolios = [d \in Targets |-> None]
  /\ succeeded = {}

At(j, label) == pc[j] = label
Goto(j, label) == pc' = [pc EXCEPT ![j] = label]
Evaluating(d) == pc[d] \in {"evaluate", "select", "write", "record"}
Snapshotting(d) == pc[d] \in {"snapshot", "value", "count", "attest", "finish"}

\* What a child that did not finish had read, chosen or recorded is of no further use.
Forget(d) ==
  /\ seen' = [seen EXCEPT ![d] = None]
  /\ IF d \in evaluated THEN UNCHANGED <<mine, overtaken>>
     ELSE mine' = [mine EXCEPT ![d] = NotFixed] /\ overtaken' = overtaken \ {d}

-----------------------------------------------------------------------------
(* What is verified *)

Mature(date) == prediction # None /\ date >= Target + HorizonSessions

\* A row as it is persisted: an unresolved one says through which date, and what was there.
Told(asset, through) ==
  IF Reached(asset, through) THEN Resolve(asset, through)
  ELSE [status |-> "unresolved", date |-> through,
        observed |-> Cardinality(Later(asset, through))]

ToldAt(time, date) == Told(AsOf(times[time]), date)

\* Faulty variant: an outcome of the very same evaluation counts as an earlier one.
TerminalBy(time) == Terminal(outcome.row) /\ outcome.by <= time
TerminalBefore(time) == Terminal(outcome.row) /\ outcome.by < time

\* The candidates are derived again: what was mature and not terminal before its time.
Expected(d) == Mature(d) /\ ~TerminalBefore(mine[d].time)

\* The row is what a replay gives; a terminal one is of this very evaluation, an unresolved
\* one may be an earlier one's that said the same.
OutcomeVerified(d) ==
  /\ outcome.row = ToldAt(mine[d].time, d)
  /\ outcome.row.status = mine[d].status
  /\ IF Terminal(outcome.row) THEN outcome.by = mine[d].time ELSE outcome.by <= mine[d].time

EvaluationVerified(d) ==
  /\ d \in evaluated
  /\ mine[d].chosen = Expected(d)
  /\ mine[d].chosen => OutcomeVerified(d)

PortfolioDone(d) == portfolios[d] \notin {None, Zero}
PortfolioVerified(d) ==
  portfolios[d] # None /\ (portfolios[d] # Zero => portfolios[d].session = d)

Verified(d) == EvaluationVerified(d) /\ PortfolioVerified(d)

-----------------------------------------------------------------------------
(* The parent *)

\* A target without a success gets an attempt.  Its market child succeeds on time, or has
\* succeeded before, and has then projected the session's price.
Begin(d) ==
  /\ At(d, "idle") /\ d \notin succeeded /\ d \in ClosedSessions /\ Closed = d
  /\ d \in issued \/ InWindow(d)
  /\ issued' = issued \cup {d}
  /\ quote' = IF d \in issued THEN quote ELSE [quote EXCEPT !.session = d]
  /\ Goto(d, "evaluate")
  /\ UNCHANGED <<marketVars, evaluationVars, books, active, portfolioVars, beside, succeeded>>

\* Every downstream child is attempted, whatever became of the one before.
FailChild(d) ==
  /\ \/ /\ Evaluating(d) /\ d \notin evaluated
        /\ Goto(d, "snapshot")
        /\ UNCHANGED portfolios
     \/ /\ Snapshotting(d) /\ ~PortfolioDone(d)
        /\ Goto(d, "verify")
        /\ portfolios' = [portfolios EXCEPT ![d] = None]
  /\ Forget(d)
  /\ UNCHANGED <<marketVars, times, evaluated, outcome, ownerVars, parentVars>>

\* The process dies: the rows of its parent and child stay running until the next attempt.
Die(d) ==
  /\ ~At(d, "idle")
  /\ Forget(d)
  /\ Goto(d, "idle")
  /\ UNCHANGED <<marketVars, times, evaluated, outcome, ownerVars, portfolios, parentVars>>

\* A parent without both children verified fails: so does one of which a child failed.
Verify(d) ==
  /\ At(d, "verify")
  /\ succeeded' = IF Verified(d) THEN succeeded \cup {d} ELSE succeeded
  /\ Goto(d, "idle")
  /\ UNCHANGED <<marketVars, evaluationVars, ownerVars, portfolioVars, beside, issued>>

-----------------------------------------------------------------------------
(* Evaluation *)

FixTime(j, date, chosen) ==
  /\ Len(times) < MaxEvaluations
  /\ times' = Append(times, Retrieved)
  /\ mine' = [mine EXCEPT ![j] =
       [time |-> Len(times) + 1, date |-> date, chosen |-> chosen, status |-> None,
        missed |-> {}]]
  /\ overtaken' = overtaken \ {j}

\* The time is fixed before the child has its lock.
BeginEvaluation(d) ==
  /\ At(d, "evaluate") /\ d \notin evaluated
  /\ FixTime(d, d, FALSE)
  /\ Goto(d, "select")
  /\ UNCHANGED <<marketVars, evaluated, outcome, ownerVars, portfolioVars, parentVars>>

SkipEvaluation(d) ==
  /\ At(d, "evaluate") /\ d \in evaluated
  /\ Goto(d, "snapshot")
  /\ UNCHANGED <<marketVars, evaluationVars, ownerVars, portfolioVars, parentVars>>

\* eligible_pending_predictions
Select(d) ==
  /\ At(d, "select")
  /\ mine' = [mine EXCEPT ![d].chosen = Mature(d) /\ ~Terminal(outcome.row)]
  /\ Goto(d, "write")
  /\ UNCHANGED <<marketVars, times, evaluated, overtaken, outcome, ownerVars,
                 portfolioVars, parentVars>>

\* The command chooses first, by name or as the child does, and fixes its time then.
\* Bound: of the dates it can be given, the last session's.
BeginCommand ==
  /\ At(Command, "idle") /\ prediction # None /\ ClosedSessions # {}
  /\ FixTime(Command, Closed, TRUE)
  /\ Goto(Command, "write")
  /\ UNCHANGED <<marketVars, evaluated, outcome, ownerVars, portfolioVars, parentVars>>

Rewritten(j) ==
  /\ mine[j].chosen /\ ~Terminal(outcome.row)
  /\ outcome.row # ToldAt(mine[j].time, mine[j].date)

\* evaluate_prediction, one transaction: under the row's lock a terminal outcome is left,
\* and so is an unresolved one that says the same.
Write(j) ==
  /\ At(j, "write")
  /\ IF Rewritten(j)
     THEN /\ outcome' = [row |-> ToldAt(mine[j].time, mine[j].date), by |-> mine[j].time]
          /\ overtaken' = overtaken \cup {d \in Targets \ {j} : mine[d] # NotFixed}
     ELSE UNCHANGED <<outcome, overtaken>>
  /\ mine' = IF j = Command THEN [mine EXCEPT ![j] = NotFixed]
             ELSE [mine EXCEPT ![j].status = IF mine[j].chosen THEN outcome'.row.status ELSE None,
                               ![j].missed = 1..times[mine[j].time] \ stored]
  /\ Goto(j, IF j = Command THEN "idle" ELSE "record")
  /\ UNCHANGED <<marketVars, times, evaluated, ownerVars, portfolioVars, parentVars>>

FinishEvaluation(d) ==
  /\ At(d, "record")
  /\ evaluated' = evaluated \cup {d}
  /\ Goto(d, "snapshot")
  /\ UNCHANGED <<marketVars, times, mine, overtaken, outcome, ownerVars, portfolioVars,
                 parentVars>>

-----------------------------------------------------------------------------
(* Portfolio snapshots *)

Sees(d, what) == seen' = [seen EXCEPT ![d] = what]

SkipPortfolio(d) ==
  /\ At(d, "snapshot") /\ PortfolioDone(d)
  /\ Goto(d, "verify")
  /\ UNCHANGED <<marketVars, evaluationVars, ownerVars, portfolioVars, parentVars>>

\* The active portfolios are read, with their cash.
Load(d) ==
  /\ At(d, "snapshot") /\ ~PortfolioDone(d)
  /\ Sees(d, IF active THEN [cash |-> book.cash] ELSE None)
  /\ Goto(d, IF active THEN "value" ELSE "count")
  /\ UNCHANGED <<marketVars, evaluationVars, ownerVars, portfolios, parentVars>>

Snapshot(cash) ==
  [cash |-> cash, shares |-> book.shares, session |-> quote.session,
   projection |-> quote.projection]

\* Then the holdings with their prices, which must be of the target session, and the
\* snapshot is recorded.
Value(d) ==
  /\ At(d, "value") /\ quote.session = d
  /\ Sees(d, Snapshot(seen[d].cash))
  /\ Goto(d, "count")
  /\ UNCHANGED <<marketVars, evaluationVars, ownerVars, portfolios, parentVars>>

\* The active portfolios are counted: none is a skip, if none was recorded.
Count(d) ==
  /\ At(d, "count")
  /\ IF active THEN Goto(d, "attest") /\ UNCHANGED portfolios
     ELSE /\ seen[d] = None
          /\ portfolios' = [portfolios EXCEPT ![d] = Zero]
          /\ Goto(d, "verify")
  /\ UNCHANGED <<marketVars, evaluationVars, ownerVars, seen, parentVars>>

\* Faulty variant: the cash is not compared.
AsHeld(snapshot) == snapshot = Snapshot(snapshot.cash)

\* The recorded snapshot is the locked book at the locked price.
AsLocked(snapshot) == snapshot = Snapshot(book.cash)

\* attest_scheduled_portfolio_snapshots, one transaction that locks all it compares.
Attest(d) ==
  /\ At(d, "attest")
  /\ active /\ seen[d] # None /\ AsLocked(seen[d])
  /\ Goto(d, "finish")
  /\ UNCHANGED <<marketVars, evaluationVars, ownerVars, portfolioVars, parentVars>>

FinishPortfolio(d) ==
  /\ At(d, "finish")
  /\ portfolios' = [portfolios EXCEPT ![d] = seen[d]]
  /\ Sees(d, None)
  /\ Goto(d, "verify")
  /\ UNCHANGED <<marketVars, evaluationVars, ownerVars, parentVars>>

-----------------------------------------------------------------------------
(* The owner, and jobs that publish prices beside the refresh *)

Unscheduled == UNCHANGED <<marketVars, evaluationVars, portfolioVars, parentVars, pc>>

\* A deposit changes the cash, an execution the shares as well, in one transaction.
Edit ==
  /\ Len(books) <= MaxChanges
  /\ \E shares \in {book.shares, book.shares + 1} :
       books' = Append(books, [cash |-> book.cash + 1, shares |-> shares])
  /\ UNCHANGED <<active, quote>>

Archive ==
  /\ active' = ~active
  /\ UNCHANGED <<books, quote>>

\* A row published since: a correction of the session, or the next one's.
Project ==
  /\ quote.projection < MaxChanges /\ ClosedSessions # {}
  /\ \E session \in {quote.session, Closed} :
       quote' = [session |-> session, projection |-> quote.projection + 1]
  /\ UNCHANGED <<books, active>>

-----------------------------------------------------------------------------
Refresh(d) ==
  \/ Begin(d) \/ Verify(d)
  \/ BeginEvaluation(d) \/ SkipEvaluation(d) \/ Select(d) \/ FinishEvaluation(d)
  \/ SkipPortfolio(d) \/ Load(d) \/ Value(d) \/ Count(d) \/ Attest(d) \/ FinishPortfolio(d)
  \/ FailChild(d) \/ Die(d)

Next ==
  \/ /\ IF beside = "market" THEN Market ELSE Tick
     /\ UNCHANGED <<evaluationVars, ownerVars, portfolioVars, parentVars, pc>>
  \/ \E d \in Targets : Refresh(d)
  \/ beside = "market" /\ BeginCommand
  \/ \E j \in Sessions : Write(j)
  \/ beside = "owner" /\ (Edit \/ Archive \/ Project) /\ Unscheduled

Spec == Init /\ [][Next]_vars

-----------------------------------------------------------------------------
\* A child that succeeded is not a dead end: it verifies at any later time, whichever
\* attempts died before it, whatever the owner has changed and whatever was retrieved since,
\* unless another evaluation has rewritten the outcome since its time was fixed, or a history
\* retrieved by that time was committed after it was read.
ChildrenStayVerifiable ==
  \A d \in Targets :
    /\ d \in evaluated \ overtaken /\ mine[d].missed \cap stored = {} => EvaluationVerified(d)
    /\ portfolios[d] # None => PortfolioVerified(d)

\* An attested snapshot is of one state the portfolio was in, although its cash and its
\* holdings are read apart from each other, while the owner edits both.
AttestedIsWhole ==
  \A d \in Targets : PortfolioDone(d) =>
    \E b \in Range(books) : b.cash = portfolios[d].cash /\ b.shares = portfolios[d].shares

\* Histories for model checking: complete, and with a session missing.
MCHistory == [d \in Sessions |-> 1]
MCHistories == {MCHistory, [d \in Sessions \ {1} |-> 1]}
=============================================================================
