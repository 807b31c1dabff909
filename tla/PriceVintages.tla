-------------------------- MODULE PriceVintages ---------------------------
(***************************************************************************)
(* Sessions, and the price history of one listing as the provider tells it   *)
(* at different times.  Every retrieval is an immutable DataAsset; later     *)
(* ones may restate earlier closes (a split), correct one, or lack a session. *)
(* retrieved_at is taken before the row commits, so the order of retrieval   *)
(* and the moment a reader can see a row are kept apart.                     *)
(***************************************************************************)
EXTENDS Naturals, Sequences, FiniteSets, FiniteSetsExt, Functions

CONSTANTS
  LastSession,
  Histories,   \* what the provider may tell: partial functions from sessions to closes
  MaxVintages, \* bound: the retrievals of a behaviour
  None

Sessions == 0..LastSession

ASSUME HistoriesAssumption ==
  /\ LastSession \in Nat \ {0} /\ MaxVintages \in Nat \ {0}
  /\ \A h \in Histories : DOMAIN h \subseteq Sessions /\ 0 \in DOMAIN h

VARIABLES
  clock,     \* 2s: before the close of session s; 2s + 1: after it, and before the next open
  fetched,   \* the retrievals, oldest first
  stored,    \* those whose row has committed
  prediction \* the native forecast: its target session and its source

marketVars == <<clock, fetched, stored, prediction>>

ClosedSessions == {s \in Sessions : clock > 2 * s}
Closed == Max(ClosedSessions)       \* the last session that closed
InWindow(s) == clock = 2 * s + 1    \* after its close, before the next open
Retrieved == Len(fetched)           \* stands for the present among retrieval times

\* Sessions past the last closed one are never in a payload.
Vintage(h) == [closes |-> Restrict(h, DOMAIN h \cap ClosedSessions), day |-> Closed]
Closes(i) == fetched[i].closes
PeriodEnd(i) == Max(DOMAIN Closes(i))

\* The rows a reader can see whose retrieved_at is not after the given one.
Visible(retrieval) == {i \in stored : i <= retrieval}
Newest == Max(Visible(Retrieved))

Target == prediction.target
PriceAtPrediction == Closes(prediction.source)[Target]

MarketInit ==
  /\ clock = 0
  /\ fetched = <<>> /\ stored = {}
  /\ prediction = None

Tick ==
  /\ clock <= 2 * LastSession
  /\ clock' = clock + 1
  /\ UNCHANGED <<fetched, stored, prediction>>

Retrieve ==
  /\ ClosedSessions # {}
  /\ Retrieved < MaxVintages
  /\ \E h \in Histories : fetched' = Append(fetched, Vintage(h))
  /\ UNCHANGED <<clock, stored, prediction>>

\* A retrieval whose transaction is rolled back is one that never commits.
Commit ==
  /\ \E i \in DOMAIN fetched \ stored : stored' = stored \cup {i}
  /\ UNCHANGED <<clock, fetched, prediction>>

\* The scheduled issuance, on time, from a history that ends with its target.
Issue ==
  /\ prediction = None
  /\ stored # {} /\ InWindow(Closed) /\ PeriodEnd(Newest) = Closed
  /\ prediction' = [target |-> Closed, source |-> Newest]
  /\ UNCHANGED <<clock, fetched, stored>>

Market == Tick \/ Retrieve \/ Commit \/ Issue
=============================================================================
