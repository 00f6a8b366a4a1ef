------------------------------ MODULE MCElevIO ------------------------------
(* An instance of ElevIO for TLC: the floor sensor's channel holds two events. *)
EXTENDS ElevIO

MCCap == [p \in Pollers |-> IF p = "floor" THEN 2 ELSE 1]
=============================================================================
