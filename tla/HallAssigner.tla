---------------------------- MODULE HallAssigner ----------------------------
(***************************************************************************)
(* The master's assignment of hall calls in Heis_test                      *)
(* (hallassigner/hallassigner.go): a walk of each elevator to each call.   *)
(* A peer's state is a record of its id, floor, dir and behaviour; its cab *)
(* calls, which Assign only copies into the row of that peer, are left out.*)
(***************************************************************************)
EXTENDS Elevator

TravelTime == 2
DoorTime   == 1
MaxDuration == 100

(* One turn of cost's loop: a floor on, or a turn at the end of the shaft, or *)
(* a first direction; each takes TravelTime.                                  *)
Walked(at, target) ==
  IF at.dir = Stop THEN [at EXCEPT !.dir = IF target > at.floor THEN Up ELSE Down]
  ELSE IF at.floor + at.dir \in Floors THEN [at EXCEPT !.floor = @ + at.dir]
  ELSE [at EXCEPT !.dir = -@]

(* The loop ends where the call is passed in its direction, or at rest, or when *)
(* the duration is past MaxDuration.                                            *)
Cost(state, target, d) ==
  LET start == IF state.behaviour = "DoorOpen" THEN DoorTime ELSE 0
      limit == (MaxDuration - start) \div TravelTime + 1
      walk[k \in 0..limit] == IF k = 0 THEN [floor |-> state.floor, dir |-> state.dir]
                              ELSE Walked(walk[k - 1], target)
      ends == {k \in 0..limit : k = limit \/ (walk[k].floor = target /\ walk[k].dir \in {d, Stop})}
  IN  start + TravelTime * (CHOOSE k \in ends : \A j \in ends : k <= j)

(* Who may get the call: any of the cheapest, since the loop over the Go map *)
(* meets them in any order and only a lower cost replaces the first.         *)
Cheapest(states, call) ==
  LET d == IF call[2] = "hallUp" THEN Up ELSE Down
  IN  {s.id : s \in {t \in states : \A u \in states : Cost(t, call[1], d) <= Cost(u, call[1], d)}}

(* Assign: what it may give to elevator id of the hall calls, id being known. *)
AssignedTo(id, hall, states) ==
  {own \in SUBSET hall :
     \A call \in hall : /\ call \in own => id \in Cheapest(states, call)
                        /\ call \notin own => Cheapest(states, call) # {id}}
=============================================================================
