--------------------------- MODULE TargetOutcome ---------------------------
(***************************************************************************)
(* What execute_target_job promises for one (job, region, target date):    *)
(* one worker at a time, and once a worker has succeeded nobody works on    *)
(* the target again.  TargetJob implements it with a lock and a ledger of   *)
(* attempts.                                                                *)
(***************************************************************************)
CONSTANTS Procs, NoProc

VARIABLES
  outcome,   \* "open" until some attempt succeeds, then "done" for good
  worker     \* the process running the target's task, or NoProc

vars == <<outcome, worker>>

Init ==
  /\ outcome = "open"
  /\ worker = NoProc

Start(p) ==
  /\ outcome = "open"
  /\ worker = NoProc
  /\ worker' = p
  /\ UNCHANGED outcome

Succeed(p) ==
  /\ worker = p
  /\ worker' = NoProc
  /\ outcome' = "done"

\* No data, an unsupported or failing task, or the death of the process.
GiveUp(p) ==
  /\ worker = p
  /\ worker' = NoProc
  /\ UNCHANGED outcome

Next == \E p \in Procs : Start(p) \/ Succeed(p) \/ GiveUp(p)

Spec == Init /\ [][Next]_vars
=============================================================================
