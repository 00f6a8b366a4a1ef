------------------------------ MODULE MCGossip ------------------------------
(* Instances of Gossip for TLC: the hall button Up on the modelled floor. *)
EXTENDS Gossip

MCHallDirs == {Up}
=============================================================================
