------------------------------- MODULE MCGroup -------------------------------
(* Instances of Group for TLC: which call, and who presses its button how often. *)
EXTENDS Group

(* Of the two hall calls between two floors each is the other upside down. *)
OneCalled == {<<0, Up>>}

(* Both press for the first service of the call, elevator 1 for the next as well. *)
TwoRounds == [n \in Nodes |-> IF n = 1 THEN 3 ELSE 1]

OneRound == [n \in Nodes |-> 1]
=============================================================================
