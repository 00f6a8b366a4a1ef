----------------------------- MODULE Controller -----------------------------
(***************************************************************************)
(* What the handlers of the controller of new_heis compute                 *)
(* (internal/controller/controller.go).  A handler works on a record s of  *)
(* everything the controller may change: car (the soft state, with door    *)
(* and obstruction), ctl (travelDir, doorDir and the deadlines), active    *)
(* (the calls active in the request table), peers (their soft states) and  *)
(* motor (what it commands).  Modules Car and Group run the handlers.      *)
(***************************************************************************)
EXTENDS Assigner

CONSTANT
  NumFloors    \* --floors

ASSUME FloorsAssumption == NumFloors \in Nat \ {0}

Floors     == 0..(NumFloors - 1)
Directions == {Up, Stop, Down}

(* A button: floor and direction, Stop for the cab.  Controller.valid: no hall *)
(* button up at the top or down at the bottom.                                 *)
Calls      == (Floors \X Directions) \ {<<NumFloors - 1, Up>>, <<0, Down>>}
CabCall(f) == <<f, Stop>>
HallCalls == {c \in Calls : c[2] # Stop}
CabCalls  == {c \in Calls : c[2] = Stop}

(* What an elevator tells of its car. *)
Soft == [id : Nat, floor : Floors, direction : Directions, behavior : Behaviors,
         doorOpen : BOOLEAN, obstruction : BOOLEAN]

-----------------------------------------------------------------------------
Cab(s, f)     == CabCall(f) \in s.active
Hall(s, f, d) == <<f, d>> \in s.active /\ Assigned(s.car, s.peers, f, d)

CanServe(s, f) == Cab(s, f) \/ Hall(s, f, Up) \/ Hall(s, f, Down)
AnyAbove(s, f) == \E g \in Floors : g > f /\ CanServe(s, g)
AnyBelow(s, f) == \E g \in Floors : g < f /\ CanServe(s, g)

(* Is there anything for the car beyond floor f in direction d? *)
AnyBeyond(s, f, d) == IF d = Up THEN AnyAbove(s, f) ELSE AnyBelow(s, f)

(* Mutants of ShouldStop: no stop for the calls the other way where the car *)
(* turns, and no stop for cab calls.                                        *)
ShouldStopOneWay(s, f, d) == Cab(s, f) \/ (d = Stop /\ CanServe(s, f)) \/ (d # Stop /\ Hall(s, f, d))

ShouldStopForHall(s, f, d) ==
  \/ d = Stop /\ CanServe(s, f)
  \/ d # Stop /\ Hall(s, f, d)
  \/ d # Stop /\ ~AnyBeyond(s, f, d) /\ Hall(s, f, -d)

(* Where a moving car stops: for its cab and the calls its way, and where *)
(* nothing lies beyond for those the other way.                           *)
ShouldStop(s, f, d) ==
  \/ Cab(s, f)
  \/ d = Stop /\ CanServe(s, f)
  \/ d # Stop /\ Hall(s, f, d)
  \/ d # Stop /\ ~AnyBeyond(s, f, d) /\ Hall(s, f, -d)

(* nextDir: go on, else turn, else towards the nearest call, the lower of two. *)
NextDir(s) ==
  LET f == s.car.floor
      t == s.ctl.travelDir
      others == {g \in Floors \ {f} : CanServe(s, g)}
      best == {g \in others : \A h \in others :
                 Abs(f - g) < Abs(f - h) \/ (Abs(f - g) = Abs(f - h) /\ g <= h)}
  IN  IF t # Stop /\ AnyBeyond(s, f, t) THEN t
      ELSE IF t # Stop /\ AnyBeyond(s, f, -t) THEN -t
      ELSE CASE \E g \in best : g > f -> Up
             [] \E g \in best : g < f -> Down
             [] best = {}            -> Stop

(* pickDoorDir: which hall direction a door that opens serves first. *)
PickDoorDir(s, arrival) ==
  LET f == s.car.floor
      up == Hall(s, f, Up)
      down == Hall(s, f, Down)
  IN  IF arrival # Stop
      THEN IF Hall(s, f, arrival) THEN arrival
           ELSE IF Hall(s, f, -arrival) /\ ~AnyBeyond(s, f, arrival) THEN -arrival
           ELSE Stop
      ELSE IF up /\ (~down \/ AnyAbove(s, f) \/ ~AnyBelow(s, f)) THEN Up
           ELSE IF down THEN Down
           ELSE Stop

(* nextDoorDir: the opposite hall call, if this is where the car turns. *)
NextDoorDir(s) ==
  LET f == s.car.floor
      d == s.ctl.doorDir
  IN  IF d # Stop /\ Hall(s, f, -d) /\ ~AnyBeyond(s, f, d) THEN -d ELSE Stop

ClearFloor(s, d) == [s EXCEPT !.active = @ \ {CabCall(s.car.floor), <<s.car.floor, d>>}]

(* Mutant of Open: the motor is left running. *)
OpenRunning(s, arrival) ==
  LET opened == [s EXCEPT !.car.behavior = "doorOpen", !.car.direction = Stop,
                          !.car.doorOpen = TRUE, !.ctl.doorOver = FALSE]
      d == PickDoorDir(opened, arrival)
  IN  ClearFloor([opened EXCEPT !.ctl.doorDir = d], d)

(* open.  The car counts as open before the door direction is picked: its cost for *)
(* the calls of this floor is then the lowest there is.                     *)
Open(s, arrival) ==
  LET opened == [s EXCEPT !.car.behavior = "doorOpen", !.car.direction = Stop,
                          !.car.doorOpen = TRUE, !.motor = Stop, !.ctl.doorOver = FALSE]
      d == PickDoorDir(opened, arrival)
  IN  ClearFloor([opened EXCEPT !.ctl.doorDir = d], d)

(* Mutant of Plan: a call of the floor where the car stands is not looked at. *)
PlanElsewhere(s) ==
  LET dir == NextDir(s)
  IN  IF s.car.behavior \in {"doorOpen", "stuck"} THEN s
      ELSE IF dir = Stop
      THEN [s EXCEPT !.car.behavior = "idle", !.car.direction = Stop, !.motor = Stop]
      ELSE [s EXCEPT !.car.behavior = "moving", !.car.direction = dir, !.motor = dir,
                     !.ctl.travelDir = dir, !.ctl.moveOver = FALSE]

(* plan: with the door open or stuck nothing; otherwise serve where the car *)
(* stands (or was last seen: a moving car has left), go, or stay.           *)
Plan(s) ==
  LET dir == NextDir(s)
  IN  IF s.car.behavior \in {"doorOpen", "stuck"} THEN s
      ELSE IF CanServe(s, s.car.floor) THEN Open(s, s.ctl.travelDir)
      ELSE IF dir = Stop
      THEN [s EXCEPT !.car.behavior = "idle", !.car.direction = Stop, !.motor = Stop]
      ELSE [s EXCEPT !.car.behavior = "moving", !.car.direction = dir, !.motor = dir,
                     !.ctl.travelDir = dir, !.ctl.moveOver = FALSE]

(* Mutant of DoorDue: an obstruction does not hold the door. *)
DoorDueObstructed(s) == s.car.behavior = "doorOpen" /\ s.ctl.doorOver

(* doorStep acts when the deadline of an unobstructed open door has passed. *)
DoorDue(s) == s.car.behavior = "doorOpen" /\ ~s.car.obstruction /\ s.ctl.doorOver

(* Mutant of DoorStep: the second direction does not get an interval of its own. *)
DoorStepOneInterval(s) ==
  LET d == NextDoorDir(s)
  IN  IF d # Stop
      THEN ClearFloor([s EXCEPT !.ctl.doorDir = d], d)
      ELSE Plan([s EXCEPT !.car.doorOpen = FALSE, !.car.behavior = "idle",
                          !.ctl.doorDir = Stop, !.ctl.doorOver = FALSE])

(* Either the opposite hall call gets its interval, or the door closes. *)
DoorStep(s) ==
  LET d == NextDoorDir(s)
  IN  IF d # Stop
      THEN ClearFloor([s EXCEPT !.ctl.doorDir = d, !.ctl.doorOver = FALSE], d)
      ELSE Plan([s EXCEPT !.car.doorOpen = FALSE, !.car.behavior = "idle",
                          !.ctl.doorDir = Stop, !.ctl.doorOver = FALSE])

-----------------------------------------------------------------------------
(* The handlers themselves, from the state s to the state they leave. *)

(* HandleTick, when Expire has said whether a peer timed out. *)
TickStep(s, expired) ==
  IF expired /\ s.car.behavior # "doorOpen" THEN Plan(s)
  ELSE CASE s.car.behavior = "moving" /\ s.ctl.moveOver ->
              [s EXCEPT !.car.behavior = "stuck", !.car.direction = Stop, !.motor = Stop]
         [] DoorDue(s)               -> DoorStep(s)
         [] s.car.behavior = "idle"  -> Plan(s)
         [] OTHER                    -> s

(* HandleObstruction. *)
ObstructionStep(s, on) ==
  LET t == [s EXCEPT !.car.obstruction = on]
  IN  IF DoorDue(t) THEN DoorStep(t) ELSE t

(* HandleFloor, for a floor event that says f. *)
FloorStep(s, f) ==
  LET t == [s EXCEPT !.car.floor = f, !.ctl.moveOver = FALSE]
  IN  IF s.car.behavior \notin {"moving", "stuck"} THEN t
      ELSE IF ShouldStop(t, f, s.car.direction) THEN Open(t, s.car.direction)
      ELSE [t EXCEPT !.car.behavior = "moving"]
=============================================================================
