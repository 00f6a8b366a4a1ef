------------------------------ MODULE MCHeisNode ------------------------------
(* Instances of HeisNode for TLC: an elevator on its own, and one with a peer. *)
EXTENDS HeisNode

MCPeerCars == {[floor |-> 0, dir |-> Stop, behaviour |-> "Idle"]}
===============================================================================
