--------------------------- MODULE ForwardRecord --------------------------
(***************************************************************************)
(* What is recorded prospectively, beside one provider that keeps restating   *)
(* its prices: the paper record, or the outcome and the three-arm study of a  *)
(* forecast.  The two share the market alone, so each behaviour follows one   *)
(* of them.                                                                  *)
(***************************************************************************)
EXTENDS PaperCapture, ShadowStudy, TLC

CONSTANTS p1, p2

VARIABLES scope

vars == <<marketVars, paperVars, outcome, studyVars, scope>>

Init ==
  /\ MarketInit /\ PaperInit /\ StudyInit
  /\ outcome = [row |-> Pending]
  /\ scope \in {"paper", "study"}

Next ==
  /\ UNCHANGED scope
  /\ \/ Market /\ UNCHANGED <<paperVars, outcome, studyVars>>
     \/ scope = "paper" /\ Paper /\ UNCHANGED <<marketVars, outcome, studyVars>>
     \/ scope = "study" /\ Evaluate /\ UNCHANGED <<marketVars, paperVars, studyVars>>
     \/ scope = "study" /\ Study /\ UNCHANGED <<marketVars, paperVars, outcome>>

Spec == Init /\ [][Next]_vars

-----------------------------------------------------------------------------
\* Whatever was restated since, or lost with a process, both records can be
\* read at any time: read_state proves activation, execution and captures of an activated
\* paper record, and the study one capture per session, one accepted assessment per case,
\* and every accepted one from its own assets.  Excepted is an assessment between whose two
\* reads of prices a history of the outcome's time was committed (Torn): of its two
\* assets the proof takes the second where the assessment took the first, and may fail.
RecordStaysReadable == (activations # <<>> => Readable) /\ StudyProved

\* A captured session keeps its one capture, the binding of the row that made it, and gets
\* no further attempt.
CapturesStand(old, new) ==
  old \subseteq new /\ \A c \in old :
    /\ {d \in new : d.session = c.session} = {c}
    /\ Len(jobs'[c.session]) = Len(jobs[c.session])
    /\ jobs'[c.session][c.job].origin = Binding(c)

\* What the study said as of a past instant is what it says of it now.
ReportsStand(t) == Available(t) => Available(t)' /\ Report(t)' = Report(t)

recorded == <<activation, shots, assessments, successes>>

\* What is committed stands: paper captures, a terminal outcome, which is not written
\* again, and every answer of read_shadow_study as of an instant that has passed, though
\* attempts that died are recovered later and later evidence challenges what was accepted.
CommittedStands ==
  /\ [][CapturesStand(captures, captures')]_<<captures, jobs>>
  /\ [][Terminal(outcome.row) => outcome' = outcome]_outcome
  /\ [][recorded' # recorded => \A t \in 0..clock - 1 : ReportsStand(t)]_vars

\* A terminal outcome resolves to the same row again, from the histories retrieved by its
\* recorded time, unless one of these was still uncommitted when it was evaluated.
OutcomeReplays ==
  Terminal(outcome.row) /\ outcome.missed \cap stored = {} =>
    Resolve(AsOf(outcome.evaluated), outcome.row.date) = outcome.row

\* Histories for model checking: as first told, one close corrected, and restated on
\* another basis with a session missing.
MCHistory == [d \in Sessions |-> 1]
MCHistories == {MCHistory, [MCHistory EXCEPT ![1] = 2], [d \in Sessions \ {1} |-> 2]}
MCSymmetry == Permutations(Callers)
=============================================================================
