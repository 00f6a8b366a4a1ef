-------------------------------- MODULE MCCar --------------------------------
(* Instances of Car for TLC: what the other elevators of the instance report. *)
EXTENDS Car

Peer(f, d, b) == [id |-> 2, floor |-> f, direction |-> d, behavior |-> b,
                  doorOpen |-> b = "doorOpen", obstruction |-> FALSE]

MCPeers == {Peer(0, Stop, "idle"), Peer(2, Down, "moving")}

(* The cab call an earlier run had. *)
MCOld == {CabCall(1)}

(* One snapshot changes at most one call (ApplyRemote lets no other cab call change). *)
MCNews == {{}} \cup {{c} : c \in HallCalls \cup MCOld}

OneMCPeer == {Peer(0, Stop, "idle")}
=============================================================================
