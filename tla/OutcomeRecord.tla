--------------------------- MODULE OutcomeRecord --------------------------
(***************************************************************************)
(* The outcome of one forecast, made at session 0 from the first retrieval.  *)
(* An evaluation job fixes its time when it starts and may wait long for its  *)
(* lock; it reads the newest history retrieved by that time.  What it ends    *)
(* with is written once and must resolve to the same row ever after, as the   *)
(* scorecard resolves it again before it counts it.                          *)
(***************************************************************************)
EXTENDS PriceVintages

CONSTANTS HorizonSessions

ASSUME HorizonAssumption == HorizonSessions \in Nat \ {0}

VARIABLES outcome

Pending == [status |-> "pending"]
Unresolved == [status |-> "unresolved"]
Terminal(o) == o.status \in {"matured", "corporate_event"}

\* The n-th session a history has after the target, as far as it is read.
Later(asset, through) == {d \in DOMAIN Closes(asset) : Target < d /\ d <= through}
Reached(asset, through) == Cardinality(Later(asset, through)) >= HorizonSessions
Nth(asset, through) ==
  CHOOSE d \in Later(asset, through) :
    Cardinality({x \in Later(asset, through) : x <= d}) = HorizonSessions
Baseline(asset) == Closes(asset)[Max({d \in DOMAIN Closes(asset) : d <= Target})]

\* The row a resolution gives.
Resolve(asset, through) ==
  IF ~Reached(asset, through) THEN Unresolved
  ELSE IF Baseline(asset) # PriceAtPrediction
       THEN [status |-> "corporate_event", date |-> Nth(asset, through)]
  ELSE [status |-> "matured", date |-> Nth(asset, through),
        price |-> Closes(asset)[Nth(asset, through)]]

AsOf(retrieval) == Max(Visible(retrieval))
Replays(o) == Resolve(AsOf(o.evaluated), o.row.date) = o.row

\* A job that fixed its time at a retrieval had the sessions closed between it and the next.
StartedWhen(retrieval, date) ==
  /\ fetched[retrieval].day <= date
  /\ date <= IF retrieval = Retrieved THEN Closed ELSE fetched[retrieval + 1].day

\* Faulty variant: the history read is the newest now.
ReadNow(retrieval) == AsOf(Retrieved)
ReadAt(retrieval) == AsOf(retrieval)

\* The job's candidates are mature and were issued by its time; under the row's lock a
\* terminal outcome is left as it is.
Evaluate ==
  /\ prediction # None
  /\ ~Terminal(outcome.row)
  /\ \E retrieval \in prediction.source..Retrieved, date \in ClosedSessions :
       LET row == Resolve(ReadAt(retrieval), date) IN
       /\ date >= Target + HorizonSessions
       /\ StartedWhen(retrieval, date)
       /\ outcome' = IF Terminal(row)
                     THEN [row |-> row, evaluated |-> retrieval,
                           missed |-> 1..retrieval \ stored]
                     ELSE [row |-> row]
=============================================================================
