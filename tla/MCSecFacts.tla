---------------------------- MODULE MCSecFacts ----------------------------
(* SecFacts with its constants for model checking. *)
EXTENDS SecFacts, TLC

CONSTANTS a1, a2
MCAcceptedAt == a1 :> 0 @@ a2 :> 3
MCFiledDayAfter == a1 :> 0 @@ a2 :> 4
Payload(v, w) == a1 :> v @@ a2 :> w
MCPayloads == {Payload(v, w) : v \in {1, 2}, w \in {None, 1}}
Older(values, made) == [values |-> values, made |-> made]
\* Nothing; an original; a correction; a value there and back; a payload no fact was made
\* of when it was first retrieved, and that came back after two others.
MCLegacy == {Older(<<>>, <<>>), Older(<<1>>, <<1>>), Older(<<1, 2>>, <<1, 2>>),
             Older(<<1, 2, 1>>, <<1, 2, 3>>), Older(<<1, 2, 1>>, <<2, 3>>)}
=============================================================================
