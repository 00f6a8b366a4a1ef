------------------------------ MODULE Elevator ------------------------------
(***************************************************************************)
(* The state machine of one elevator of Heis_test: elevator/requests.go    *)
(* and elevator/fsm.go.  Its functions take the elevator and return it     *)
(* changed, with the commands they sent to the hardware and whether the    *)
(* caller must start the door timer.                                       *)
(***************************************************************************)
EXTENDS Integers

CONSTANT NumFloors

ASSUME NumFloorsAssumption == NumFloors \in Nat /\ NumFloors > 1

Up   == 1
Stop == 0
Down == -1

Directions == {Up, Stop, Down}
Behaviours == {"Idle", "DoorOpen", "Moving"}
Floors     == 0..(NumFloors - 1)

(* A button is a pair of a floor and a type.  elevio.PollButtons has no hall *)
(* button up at the top nor down at the bottom.                              *)
Cab(f)     == <<f, "cab">>
Hall(f, d) == <<f, IF d = Up THEN "hallUp" ELSE "hallDown">>

CabButtons  == {Cab(f) : f \in Floors}
HallButtons == {Hall(f, Up) : f \in Floors \ {NumFloors - 1}} \cup {Hall(f, Down) : f \in Floors \ {0}}
Buttons     == CabButtons \cup HallButtons

(* elevator.Elevator, the requests as the set of the buttons that are TRUE; *)
(* the floor is -1 until the first one is known.                           *)
ElevatorState ==
  [floor : Floors \cup {-1}, dir : Directions, behaviour : Behaviours, requests : SUBSET Buttons,
   obstructed : BOOLEAN]

RequestsBeyond(e, d) == \E r \in e.requests : IF d = Up THEN r[1] > e.floor ELSE r[1] < e.floor
RequestsHere(e)      == \E r \in e.requests : r[1] = e.floor

-----------------------------------------------------------------------------
(* Mutant of ChooseDirection: with nothing ahead the car rests, never goes back. *)
ChooseDirectionAhead(e) ==
  IF RequestsBeyond(e, IF e.dir = Stop THEN Up ELSE e.dir)
  THEN [dir |-> IF e.dir = Stop THEN Up ELSE e.dir, behaviour |-> "Moving"]
  ELSE IF RequestsHere(e) THEN [dir |-> -e.dir, behaviour |-> "DoorOpen"]
  ELSE IF e.dir = Stop /\ RequestsBeyond(e, Down) THEN [dir |-> Down, behaviour |-> "Moving"]
  ELSE [dir |-> Stop, behaviour |-> "Idle"]

(* ChooseDirection: go on, else turn here, else go back, else rest. *)
ChooseDirection(e) ==
  IF e.dir # Stop
  THEN IF RequestsBeyond(e, e.dir) THEN [dir |-> e.dir, behaviour |-> "Moving"]
       ELSE IF RequestsHere(e) THEN [dir |-> -e.dir, behaviour |-> "DoorOpen"]
       ELSE IF RequestsBeyond(e, -e.dir) THEN [dir |-> -e.dir, behaviour |-> "Moving"]
       ELSE [dir |-> Stop, behaviour |-> "Idle"]
  ELSE IF RequestsHere(e) THEN [dir |-> Stop, behaviour |-> "DoorOpen"]
       ELSE IF RequestsBeyond(e, Up) THEN [dir |-> Up, behaviour |-> "Moving"]
       ELSE IF RequestsBeyond(e, Down) THEN [dir |-> Down, behaviour |-> "Moving"]
       ELSE [dir |-> Stop, behaviour |-> "Idle"]

ShouldStop(e) ==
  \/ e.dir = Stop
  \/ Hall(e.floor, e.dir) \in e.requests
  \/ Cab(e.floor) \in e.requests
  \/ ~RequestsBeyond(e, e.dir)

(* Mutant of ClearAtCurrentFloor: the cab calls of all floors go. *)
ClearEveryCab(e) == [e EXCEPT !.requests = @ \ (CabButtons \cup {Hall(e.floor, e.dir)})]

(* ClearAtCurrentFloor: the cab call, the hall call this way, and the other one *)
(* where the car turns without having had a call this way.                      *)
ClearAtCurrentFloor(e) ==
  LET turns == ~RequestsBeyond(e, e.dir) /\ Hall(e.floor, e.dir) \notin e.requests
      cleared == IF e.dir = Stop THEN {Hall(e.floor, Up), Hall(e.floor, Down)}
                 ELSE IF turns THEN {Hall(e.floor, e.dir), Hall(e.floor, -e.dir)}
                 ELSE {Hall(e.floor, e.dir)}
  IN  [e EXCEPT !.requests = @ \ ({Cab(e.floor)} \cup cleared)]

-----------------------------------------------------------------------------
(* What the functions of fsm.go leave: the elevator, the motor and the door  *)
(* as last commanded, and whether to start the door timer.                   *)
Result(e, motor, door, start) == [e |-> e, motor |-> motor, door |-> door, start |-> start]

(* Mutants of OnFloorArrival: the motor is not stopped, and whether to stop is *)
(* asked of the floor before.                                                  *)
OnFloorArrivalRunning(e, motor, door, newFloor) ==
  LET here == [e EXCEPT !.floor = newFloor]
  IN  IF e.behaviour = "Moving" /\ ShouldStop(here)
      THEN Result([ClearAtCurrentFloor(here) EXCEPT !.behaviour = "DoorOpen"], motor, TRUE, TRUE)
      ELSE Result(here, motor, door, FALSE)

OnFloorArrivalLate(e, motor, door, newFloor) ==
  LET here == [e EXCEPT !.floor = newFloor]
  IN  IF e.behaviour = "Moving" /\ ShouldStop(e)
      THEN Result([ClearAtCurrentFloor(here) EXCEPT !.behaviour = "DoorOpen"], Stop, TRUE, TRUE)
      ELSE Result(here, motor, door, FALSE)

OnFloorArrival(e, motor, door, newFloor) ==
  LET here == [e EXCEPT !.floor = newFloor]
  IN  IF e.behaviour = "Moving" /\ ShouldStop(here)
      THEN Result([ClearAtCurrentFloor(here) EXCEPT !.behaviour = "DoorOpen"], Stop, TRUE, TRUE)
      ELSE Result(here, motor, door, FALSE)

(* Mutant of OnDoorTimeout: the door closes on an obstruction. *)
OnDoorTimeoutObstructed(e, motor, door) ==
  LET next == ChooseDirection(e)
      turned == [e EXCEPT !.dir = next.dir, !.behaviour = next.behaviour]
  IN  IF next.behaviour = "DoorOpen"
      THEN Result(ClearAtCurrentFloor(turned), motor, TRUE, TRUE)
      ELSE Result(turned, next.dir, FALSE, FALSE)

OnDoorTimeout(e, motor, door) ==
  LET next == ChooseDirection(e)
      turned == [e EXCEPT !.dir = next.dir, !.behaviour = next.behaviour]
  IN  IF e.obstructed THEN Result(e, motor, door, TRUE)
      ELSE IF e.behaviour # "DoorOpen" THEN Result(e, motor, door, FALSE)
      ELSE IF next.behaviour = "DoorOpen"
      THEN Result(ClearAtCurrentFloor(turned), motor, TRUE, TRUE)
      ELSE Result(turned, next.dir, FALSE, FALSE)

(* Mutant of OnRequestButtonPress: the door opens without a timer. *)
OnRequestButtonPressUntimed(e, motor, door, b) ==
  LET pressed == [e EXCEPT !.requests = @ \cup {b}]
      next == ChooseDirection(pressed)
  IN  IF e.behaviour \in {"DoorOpen", "Idle"} /\ b[1] = e.floor
      THEN Result([ClearAtCurrentFloor(pressed) EXCEPT !.behaviour = "DoorOpen"], motor, TRUE, FALSE)
      ELSE IF e.behaviour = "Idle"
      THEN Result([pressed EXCEPT !.dir = next.dir, !.behaviour = next.behaviour], next.dir, door, FALSE)
      ELSE Result(pressed, motor, door, FALSE)

(* At its own floor an idle or open car (re)opens; an idle car sets off; a moving *)
(* one finds the request when it gets there.  (An idle car with a request of its  *)
(* own floor still in the matrix would open here without starting the timer.)     *)
OnRequestButtonPress(e, motor, door, b) ==
  LET pressed == [e EXCEPT !.requests = @ \cup {b}]
      next == ChooseDirection(pressed)
      turned == [pressed EXCEPT !.dir = next.dir, !.behaviour = next.behaviour]
  IN  IF e.behaviour \in {"DoorOpen", "Idle"} /\ b[1] = e.floor
      THEN Result([ClearAtCurrentFloor(pressed) EXCEPT !.behaviour = "DoorOpen"], motor, TRUE, TRUE)
      ELSE IF e.behaviour = "Idle"
      THEN IF next.behaviour = "DoorOpen"
           THEN Result(ClearAtCurrentFloor(turned), motor, TRUE, FALSE)
           ELSE Result(turned, IF next.behaviour = "Moving" THEN next.dir ELSE motor, door, FALSE)
      ELSE Result(pressed, motor, door, FALSE)
=============================================================================
