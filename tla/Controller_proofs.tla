-------------------------- MODULE Controller_proofs --------------------------
(***************************************************************************)
(* Lemmas about the handlers of the controller of new_heis (module         *)
(* Controller), for any number of floors, any calls and any peers.         *)
(*                                                                         *)
(* A handler is a function from the record it works on to the record it    *)
(* leaves; the lemmas say of each of these functions what it keeps (type,  *)
(* motor, door interval, calls), and that a car that sets out or goes on   *)
(* has a claim ahead.  A step of an elevator in Car_proofs and             *)
(* Group_proofs is one of these functions.                                 *)
(***************************************************************************)
EXTENDS Controller, TLAPS, WellFoundedInduction

CarType(i) == [id : {i}, floor : Floors, direction : Directions, behavior : Behaviors,
               doorOpen : BOOLEAN, obstruction : BOOLEAN]
CtlType == [ready : BOOLEAN, travelDir : Directions, doorDir : Directions,
            doorOver : BOOLEAN, moveOver : BOOLEAN]

(* The records on which the handlers of elevator i work, its peers being of P. *)
Work(i, P) == [car : CarType(i), ctl : CtlType, active : SUBSET Calls,
               peers : SUBSET {p \in P \cap Soft : p.id # i},
               motor : Directions]

(* MotorSafe of such a record. *)
Safe(s) ==
  /\ s.motor # Stop => s.car.behavior = "moving" /\ s.car.direction = s.motor
  /\ s.car.doorOpen <=> s.car.behavior = "doorOpen"

(* From s to t calls are only cleared, for the cab and the door's direction at the *)
(* floor, and with the door open for a full interval; the obstruction and what is  *)
(* known of the others are as they were.                                           *)
Served(s, t) ==
  \A c \in s.active \ t.active :
    /\ t.car.doorOpen /\ ~t.ctl.doorOver
    /\ c[1] = t.car.floor /\ c[2] \in {Stop, t.ctl.doorDir}

Clears(s, t) ==
  /\ t.active \subseteq s.active
  /\ Served(s, t)
  /\ t.car.obstruction = s.car.obstruction
  /\ t.peers = s.peers

-----------------------------------------------------------------------------
(* The directions the controller computes are directions. *)
LEMMA NextDirType == ASSUME NEW i, NEW P, NEW s \in Work(i, P) PROVE NextDir(s) \in Directions
<1> DEFINE others == {g \in Floors \ {s.car.floor} : CanServe(s, g)}
           best == {g \in others : \A h \in others :
                      Abs(s.car.floor - g) < Abs(s.car.floor - h)
                      \/ (Abs(s.car.floor - g) = Abs(s.car.floor - h) /\ g <= h)}
<1>1. s.car.floor \in Int /\ s.ctl.travelDir \in Directions
  BY DEF Work, CarType, CtlType, Floors
<1>2. \A g \in best : g \in Int /\ g # s.car.floor
  BY DEF Floors
<1>3. CASE best = {}
  BY <1>1, <1>3 DEF NextDir, Directions, Up, Down, Stop
<1>4. CASE \E g \in best : g > s.car.floor
  BY <1>1, <1>4 DEF NextDir, Directions, Up, Down, Stop
<1>5. CASE \E g \in best : g < s.car.floor
  BY <1>1, <1>5 DEF NextDir, Directions, Up, Down, Stop
<1> QED BY <1>1, <1>2, <1>3, <1>4, <1>5

LEMMA PickDoorDirType ==
  ASSUME NEW s, NEW arrival \in Directions PROVE PickDoorDir(s, arrival) \in Directions
BY DEF PickDoorDir, Directions, Up, Down, Stop

LEMMA NextDoorDirType ==
  ASSUME NEW i, NEW P, NEW s \in Work(i, P) PROVE NextDoorDir(s) \in Directions
BY DEF NextDoorDir, Work, CtlType, Directions, Up, Down, Stop

(* open leaves the car standing with its door open for a full interval. *)
LEMMA OpenKeeps ==
  ASSUME NEW i, NEW P, NEW s \in Work(i, P), NEW arrival \in Directions
  PROVE  Open(s, arrival) \in Work(i, P) /\ Safe(Open(s, arrival)) /\ Clears(s, Open(s, arrival))
<1> DEFINE opened == [s EXCEPT !.car.behavior = "doorOpen", !.car.direction = Stop,
                               !.car.doorOpen = TRUE, !.motor = Stop, !.ctl.doorOver = FALSE]
           d == PickDoorDir(opened, arrival)
           t == ClearFloor([opened EXCEPT !.ctl.doorDir = d], d)
<1>1. d \in Directions
  BY PickDoorDirType
<1>2. opened \in Work(i, P) /\ opened.active = s.active /\ opened.peers = s.peers
  BY DEF Work, CarType, CtlType, Behaviors, Directions
<1>3. /\ opened.car.behavior = "doorOpen" /\ opened.car.doorOpen /\ opened.motor = Stop
      /\ opened.car.obstruction = s.car.obstruction /\ ~opened.ctl.doorOver
  BY DEF Work, CarType, CtlType
<1> HIDE DEF opened, d
<1>4. t \in Work(i, P) /\ t.car = opened.car /\ t.motor = opened.motor /\ ~t.ctl.doorOver
      /\ t.ctl.doorDir = d /\ t.peers = opened.peers
      /\ t.active = s.active \ {CabCall(t.car.floor), <<t.car.floor, d>>}
  BY <1>1, <1>2, <1>3 DEF Work, CtlType, ClearFloor
<1>5. \A c \in s.active \ t.active : c[1] = t.car.floor /\ c[2] \in {Stop, t.ctl.doorDir}
  BY <1>4 DEF CabCall
<1>6. Open(s, arrival) = t
  BY DEF Open, opened, d
<1>7. t.active \subseteq s.active
  BY <1>4
<1> HIDE DEF t
<1> QED BY <1>2, <1>3, <1>4, <1>5, <1>6, <1>7 DEF Safe, Clears, Served

(* plan keeps Safe, and with the door open changes nothing. *)
LEMMA PlanKeeps ==
  ASSUME NEW i, NEW P, NEW s \in Work(i, P), Safe(s)
  PROVE  /\ Plan(s) \in Work(i, P) /\ Safe(Plan(s)) /\ Clears(s, Plan(s))
         /\ s.car.behavior = "doorOpen" => Plan(s) = s
<1>1. CASE s.car.behavior \in {"doorOpen", "stuck"}
  BY <1>1 DEF Plan, Clears, Served
<1>2. CASE s.car.behavior \notin {"doorOpen", "stuck"} /\ CanServe(s, s.car.floor)
  <2>1. s.ctl.travelDir \in Directions
    BY DEF Work, CtlType
  <2> QED BY <1>2, <2>1, OpenKeeps DEF Plan
<1>3. CASE /\ s.car.behavior \notin {"doorOpen", "stuck"} /\ ~CanServe(s, s.car.floor)
           /\ NextDir(s) = Stop
  <2> DEFINE t == [s EXCEPT !.car.behavior = "idle", !.car.direction = Stop, !.motor = Stop]
  <2>1. t \in Work(i, P) /\ t.active = s.active /\ t.peers = s.peers
        /\ t.car.obstruction = s.car.obstruction
    BY DEF Work, CarType, Behaviors, Directions
  <2>2. t.motor = Stop /\ t.car.behavior = "idle" /\ t.car.doorOpen = s.car.doorOpen
    BY DEF Work, CarType
  <2>3. ~s.car.doorOpen
    BY <1>3 DEF Safe
  <2>4. Plan(s) = t
    BY <1>3 DEF Plan
  <2> HIDE DEF t
  <2> QED BY <1>3, <2>1, <2>2, <2>3, <2>4 DEF Safe, Clears, Served
<1>4. CASE /\ s.car.behavior \notin {"doorOpen", "stuck"} /\ ~CanServe(s, s.car.floor)
           /\ NextDir(s) # Stop
  <2> DEFINE dir == NextDir(s)
             t == [s EXCEPT !.car.behavior = "moving", !.car.direction = dir, !.motor = dir,
                            !.ctl.travelDir = dir, !.ctl.moveOver = FALSE]
  <2>1. dir \in Directions
    BY NextDirType
  <2>2. Plan(s) = t
    BY <1>4 DEF Plan
  <2> HIDE DEF dir
  <2>3. t \in Work(i, P) /\ t.active = s.active /\ t.peers = s.peers
        /\ t.car.obstruction = s.car.obstruction
    BY <2>1 DEF Work, CarType, CtlType, Behaviors
  <2>4. t.motor = dir /\ t.car.direction = dir /\ t.car.behavior = "moving"
        /\ t.car.doorOpen = s.car.doorOpen
    BY <2>1 DEF Work, CarType
  <2>5. ~s.car.doorOpen
    BY <1>4 DEF Safe
  <2> HIDE DEF t
  <2> QED BY <1>4, <2>2, <2>3, <2>4, <2>5 DEF Safe, Clears, Served
<1> QED BY <1>1, <1>2, <1>3, <1>4

(* doorStep, when its deadline has passed. *)
LEMMA DoorStepKeeps ==
  ASSUME NEW i, NEW P, NEW s \in Work(i, P), Safe(s), DoorDue(s)
  PROVE  DoorStep(s) \in Work(i, P) /\ Safe(DoorStep(s)) /\ Clears(s, DoorStep(s))
<1> DEFINE d == NextDoorDir(s)
<1>1. d \in Directions
  BY NextDoorDirType
<1>2. s.car.behavior = "doorOpen" /\ s.car.doorOpen /\ s.motor = Stop
  BY DEF DoorDue, Safe
<1>3. CASE d # Stop
  <2> DEFINE t == ClearFloor([s EXCEPT !.ctl.doorDir = d, !.ctl.doorOver = FALSE], d)
  <2>1. DoorStep(s) = t
    BY <1>3 DEF DoorStep
  <2> HIDE DEF d
  <2>2. t \in Work(i, P) /\ t.car = s.car /\ t.motor = s.motor /\ ~t.ctl.doorOver
        /\ t.ctl.doorDir = d /\ t.peers = s.peers
        /\ t.active = s.active \ {CabCall(t.car.floor), <<t.car.floor, d>>}
    BY <1>1 DEF Work, CtlType, ClearFloor
  <2>3. /\ t.active \subseteq s.active
        /\ \A c \in s.active \ t.active : c[1] = t.car.floor /\ c[2] \in {Stop, t.ctl.doorDir}
    BY <2>2 DEF CabCall
  <2> HIDE DEF t
  <2> QED BY <1>2, <2>1, <2>2, <2>3 DEF Safe, Clears, Served
<1>4. CASE d = Stop
  <2> DEFINE t == [s EXCEPT !.car.doorOpen = FALSE, !.car.behavior = "idle",
                            !.ctl.doorDir = Stop, !.ctl.doorOver = FALSE]
  <2>1. DoorStep(s) = Plan(t)
    BY <1>4 DEF DoorStep
  <2>2. t \in Work(i, P) /\ t.active = s.active /\ t.peers = s.peers
        /\ t.car.obstruction = s.car.obstruction
    BY DEF Work, CarType, CtlType, Behaviors, Directions
  <2>3. t.motor = Stop /\ t.car.behavior = "idle" /\ ~t.car.doorOpen
    BY <1>2 DEF Work, CarType
  <2> HIDE DEF t
  <2>4. Safe(t)
    BY <2>3 DEF Safe
  <2>5. Plan(t) \in Work(i, P) /\ Safe(Plan(t)) /\ Clears(t, Plan(t))
    BY <2>2, <2>4, PlanKeeps
  <2> QED BY <2>1, <2>2, <2>5 DEF Clears, Served
<1> QED BY <1>3, <1>4

(* With the door open, before the deadline or with an obstruction, the door and its *)
(* interval stay as they are: from s to t the door may change only when it is due.  *)
Interval(s, t) ==
  /\ s.car.doorOpen
  /\ ~t.car.doorOpen \/ t.ctl.doorDir # s.ctl.doorDir \/ (s.ctl.doorOver /\ ~t.ctl.doorOver)
  => s.ctl.doorOver /\ ~t.car.obstruction

(* HandleTick. *)
LEMMA TickKeeps ==
  ASSUME NEW i, NEW P, NEW s \in Work(i, P), Safe(s), NEW expired \in BOOLEAN
  PROVE  /\ TickStep(s, expired) \in Work(i, P) /\ Safe(TickStep(s, expired))
         /\ Clears(s, TickStep(s, expired)) /\ Interval(s, TickStep(s, expired))
<1> DEFINE t == TickStep(s, expired)
<1>1. CASE expired /\ s.car.behavior # "doorOpen"
  BY <1>1, PlanKeeps DEF TickStep, Safe, Interval
<1>2. CASE ~(expired /\ s.car.behavior # "doorOpen") /\ s.car.behavior = "moving" /\ s.ctl.moveOver
  <2> DEFINE u == [s EXCEPT !.car.behavior = "stuck", !.car.direction = Stop, !.motor = Stop]
  <2>1. t = u
    BY <1>2 DEF TickStep, DoorDue
  <2>2. u \in Work(i, P) /\ u.active = s.active /\ u.peers = s.peers
        /\ u.car.obstruction = s.car.obstruction
    BY DEF Work, CarType, Behaviors, Directions
  <2>3. u.motor = Stop /\ u.car.behavior = "stuck" /\ u.car.doorOpen = s.car.doorOpen
    BY DEF Work, CarType
  <2>4. ~s.car.doorOpen
    BY <1>2 DEF Safe
  <2> HIDE DEF u
  <2> QED BY <2>1, <2>2, <2>3, <2>4 DEF Safe, Clears, Served, Interval
<1>3. CASE ~(expired /\ s.car.behavior # "doorOpen") /\ DoorDue(s)
  <2>1. t = DoorStep(s)
    BY <1>3 DEF TickStep, DoorDue
  <2> QED BY <1>3, <2>1, DoorStepKeeps DEF DoorDue, Clears, Served, Interval
<1>4. CASE ~(expired /\ s.car.behavior # "doorOpen") /\ s.car.behavior = "idle"
  <2>1. t = Plan(s)
    BY <1>4 DEF TickStep, DoorDue
  <2> QED BY <1>4, <2>1, PlanKeeps DEF Safe, Interval
<1>5. CASE /\ ~(expired /\ s.car.behavior # "doorOpen") /\ ~DoorDue(s) /\ s.car.behavior # "idle"
           /\ ~(s.car.behavior = "moving" /\ s.ctl.moveOver)
  <2>1. t = s
    BY <1>5 DEF TickStep
  <2> QED BY <2>1 DEF Clears, Served, Interval
<1> QED BY <1>1, <1>2, <1>3, <1>4, <1>5

(* HandleObstruction: the obstruction is what the step sets. *)
LEMMA ObstructionKeeps ==
  ASSUME NEW i, NEW P, NEW s \in Work(i, P), Safe(s), NEW on \in BOOLEAN
  PROVE  LET t == ObstructionStep(s, on)
         IN  /\ t \in Work(i, P) /\ Safe(t) /\ Interval(s, t) /\ Served(s, t)
             /\ t.active \subseteq s.active /\ t.peers = s.peers
<1> DEFINE u == [s EXCEPT !.car.obstruction = on]
<1>1. u \in Work(i, P) /\ u.active = s.active /\ u.ctl = s.ctl /\ u.motor = s.motor
      /\ u.peers = s.peers
  BY DEF Work, CarType
<1>2. /\ u.car.behavior = s.car.behavior /\ u.car.doorOpen = s.car.doorOpen
      /\ u.car.direction = s.car.direction /\ u.car.obstruction = on
  BY DEF Work, CarType
<1>3. ObstructionStep(s, on) = IF DoorDue(u) THEN DoorStep(u) ELSE u
  BY DEF ObstructionStep
<1> HIDE DEF u
<1>4. Safe(u)
  BY <1>1, <1>2 DEF Safe
<1>5. CASE DoorDue(u)
  <2>1. DoorStep(u) \in Work(i, P) /\ Safe(DoorStep(u)) /\ Clears(u, DoorStep(u))
    BY <1>1, <1>4, <1>5, DoorStepKeeps
  <2> QED BY <1>1, <1>2, <1>3, <1>5, <2>1 DEF DoorDue, Clears, Served, Interval
<1>6. CASE ~DoorDue(u)
  BY <1>1, <1>2, <1>3, <1>4, <1>6 DEF Interval, Served
<1> QED BY <1>5, <1>6

(* HandleFloor. *)
LEMMA FloorKeeps ==
  ASSUME NEW i, NEW P, NEW s \in Work(i, P), Safe(s), NEW f \in Floors
  PROVE  /\ FloorStep(s, f) \in Work(i, P) /\ Safe(FloorStep(s, f))
         /\ Clears(s, FloorStep(s, f)) /\ Interval(s, FloorStep(s, f))
<1> DEFINE u == [s EXCEPT !.car.floor = f, !.ctl.moveOver = FALSE]
<1>1. u \in Work(i, P) /\ u.active = s.active /\ u.motor = s.motor /\ u.peers = s.peers
  BY DEF Work, CarType, CtlType
<1>2. /\ u.car.behavior = s.car.behavior /\ u.car.doorOpen = s.car.doorOpen
      /\ u.car.direction = s.car.direction /\ u.car.obstruction = s.car.obstruction
      /\ u.ctl.doorOver = s.ctl.doorOver /\ u.ctl.doorDir = s.ctl.doorDir
  BY DEF Work, CarType, CtlType
<1>3. FloorStep(s, f) = IF s.car.behavior \notin {"moving", "stuck"} THEN u
                        ELSE IF ShouldStop(u, f, s.car.direction) THEN Open(u, s.car.direction)
                        ELSE [u EXCEPT !.car.behavior = "moving"]
  BY DEF FloorStep
<1> HIDE DEF u
<1>4. Safe(u)
  BY <1>1, <1>2 DEF Safe
<1>5. CASE s.car.behavior \notin {"moving", "stuck"}
  BY <1>1, <1>2, <1>3, <1>4, <1>5 DEF Clears, Served, Interval
<1>6. CASE s.car.behavior \in {"moving", "stuck"}
  <2>1. ~s.car.doorOpen /\ s.car.direction \in Directions
    BY <1>6 DEF Safe, Work, CarType
  <2>2. CASE ShouldStop(u, f, s.car.direction)
    <3>1. Open(u, s.car.direction) \in Work(i, P) /\ Safe(Open(u, s.car.direction))
          /\ Clears(u, Open(u, s.car.direction))
      BY <1>1, <2>1, OpenKeeps
    <3> QED BY <1>1, <1>2, <1>3, <1>6, <2>1, <2>2, <3>1 DEF Clears, Served, Interval
  <2>3. CASE ~ShouldStop(u, f, s.car.direction)
    <3> DEFINE t == [u EXCEPT !.car.behavior = "moving"]
    <3>1. t \in Work(i, P) /\ t.active = u.active /\ t.motor = u.motor /\ t.peers = u.peers
          /\ t.car.behavior = "moving"
      BY <1>1 DEF Work, CarType, Behaviors
    <3>2. t.car.doorOpen = u.car.doorOpen /\ t.car.direction = u.car.direction
          /\ t.car.obstruction = u.car.obstruction
      BY <1>1 DEF Work, CarType
    <3>3. FloorStep(s, f) = t
      BY <1>3, <1>6, <2>3
    <3> HIDE DEF t
    <3> QED BY <1>1, <1>2, <1>4, <1>6, <2>1, <3>1, <3>2, <3>3 DEF Safe, Clears, Served, Interval
  <2> QED BY <2>2, <2>3
<1> QED BY <1>5, <1>6

-----------------------------------------------------------------------------
Beyond(g, f, d) == IF d = Up THEN g > f ELSE g < f

(* A call at floor h that is the car's once it is there. *)
Claim(s, h) ==
  \/ CabCall(h) \in s.active
  \/ \E d \in {Up, Down} : <<h, d>> \in s.active /\ \A b \in s.peers : Cost(b, h, d) > 1

Ahead(s) == \E h \in Floors : Beyond(h, s.car.floor, s.car.direction) /\ Claim(s, h)

(* What handlers leave of a car on time. *)
Fit(s) ==
  /\ s.car.behavior # "stuck"
  /\ ~s.ctl.moveOver
  /\ s.car.behavior = "moving" => s.car.direction \in {Up, Down} /\ Ahead(s)

(* From s to t the car stays at its floor, and its motor is not stopped on the way. *)
Kept(s, t) ==
  /\ t.car.floor = s.car.floor
  /\ t.car.behavior = "moving" /\ t.motor = Stop =>
       s.car.behavior = "moving" /\ s.motor = Stop /\ t.car.direction = s.car.direction

LEMMA FloorsAreInts == Floors \subseteq Int
BY FloorsAssumption DEF Floors

LEMMA CostIsInt ==
  ASSUME NEW b \in Soft, NEW h \in Floors, NEW d
  PROVE  Cost(b, h, d) \in Int
<1>1. b.floor \in Int /\ h \in Int
  BY FloorsAreInts DEF Soft
<1> QED BY <1>1 DEF Cost, Abs

(* The car itself, elsewhere and there. *)
LEMMA CostElsewhere ==
  ASSUME NEW i, NEW P, NEW s \in Work(i, P), s.car.behavior \in {"idle", "moving"},
         NEW h \in Floors, h # s.car.floor, NEW d
  PROVE  Cost(s.car, h, d) \in Int /\ Cost(s.car, h, d) >= 4
<1>1. s.car.floor \in Int /\ h \in Int
  BY FloorsAreInts DEF Work, CarType
<1>2. Abs(s.car.floor - h) \in Int /\ Abs(s.car.floor - h) >= 1
  BY <1>1 DEF Abs
<1> HIDE DEF Abs
<1> QED BY <1>2 DEF Cost

LEMMA CostThere ==
  ASSUME NEW i, NEW P, NEW s \in Work(i, P), s.car.behavior = "moving", NEW d
  PROVE  Cost(s.car, s.car.floor, d) \in {0, 1}
<1>1. s.car.floor \in Int
  BY FloorsAreInts DEF Work, CarType
<1>2. Abs(s.car.floor - s.car.floor) = 0
  BY <1>1 DEF Abs
<1>3. DirTo(s.car.floor, s.car.floor) = Stop
  BY <1>1 DEF DirTo
<1> QED BY <1>2, <1>3 DEF Cost

LEMMA PeersAreSoft ==
  ASSUME NEW i, NEW P, NEW s \in Work(i, P), NEW b \in s.peers
  PROVE  b \in Soft /\ b.id # s.car.id
BY DEF Work, CarType

(* What a car can serve elsewhere it has a claim to. *)
LEMMA ServeIsClaim ==
  ASSUME NEW i, NEW P, NEW s \in Work(i, P), s.car.behavior \in {"idle", "moving"},
         NEW h \in Floors, h # s.car.floor, CanServe(s, h)
  PROVE  Claim(s, h)
<1>1. CASE Cab(s, h)
  BY <1>1 DEF Cab, Claim
<1>2. ASSUME NEW d \in {Up, Down}, Hall(s, h, d)
      PROVE  Claim(s, h)
  <2>1. ASSUME NEW b \in s.peers PROVE Cost(b, h, d) > 1
    <3>1. b \in Soft /\ b.id # s.car.id
      BY PeersAreSoft
    <3>2. Before(s.car, b, h, d)
      BY <1>2, <3>1 DEF Hall, Assigned
    <3>3. Cost(b, h, d) \in Int
      BY <3>1, CostIsInt
    <3>4. Cost(s.car, h, d) \in Int /\ Cost(s.car, h, d) >= 4
      BY CostElsewhere
    <3> QED BY <3>2, <3>3, <3>4 DEF Before
  <2> QED BY <1>2, <2>1 DEF Hall, Claim
<1> QED BY <1>1, <1>2 DEF CanServe

(* A claim of the floor where a moving car arrives is served there. *)
LEMMA ClaimIsServed ==
  ASSUME NEW i, NEW P, NEW s \in Work(i, P), s.car.behavior = "moving", Claim(s, s.car.floor)
  PROVE  Cab(s, s.car.floor) \/ \E d \in {Up, Down} : Hall(s, s.car.floor, d)
<1> DEFINE f == s.car.floor
<1>1. CASE CabCall(f) \in s.active
  BY <1>1 DEF Cab
<1>2. ASSUME NEW d \in {Up, Down}, <<f, d>> \in s.active, \A b \in s.peers : Cost(b, f, d) > 1
      PROVE  Hall(s, f, d)
  <2>0. f \in Floors
    BY DEF Work, CarType
  <2>1. ASSUME NEW b \in s.peers PROVE Before(s.car, b, f, d)
    <3>1. Cost(b, f, d) \in Int
      BY <2>0, PeersAreSoft, CostIsInt
    <3>2. Cost(s.car, f, d) \in {0, 1}
      BY CostThere
    <3> QED BY <1>2, <3>1, <3>2 DEF Before
  <2> QED BY <1>2, <2>1 DEF Hall, Assigned
<1> QED BY <1>1, <1>2 DEF Claim

(* nextDir is towards something the car can serve. *)
LEMMA NextDirServes ==
  ASSUME NEW i, NEW P, NEW s \in Work(i, P), NextDir(s) # Stop
  PROVE  /\ NextDir(s) \in {Up, Down}
         /\ \E g \in Floors : Beyond(g, s.car.floor, NextDir(s)) /\ CanServe(s, g)
<1> DEFINE f == s.car.floor
           t == s.ctl.travelDir
           others == {g \in Floors \ {f} : CanServe(s, g)}
           best == {g \in others : \A h \in others :
                      Abs(f - g) < Abs(f - h) \/ (Abs(f - g) = Abs(f - h) /\ g <= h)}
<1>1. t \in {Up, Stop, Down} /\ f \in Int
  BY FloorsAreInts DEF Work, CarType, CtlType, Directions
<1>2. \A g \in best : g \in Floors /\ CanServe(s, g)
  OBVIOUS
<1>3. CASE t # Stop /\ AnyBeyond(s, f, t)
  <2>1. NextDir(s) = t
    BY <1>3 DEF NextDir
  <2> QED BY <1>1, <1>3, <2>1 DEF AnyBeyond, AnyAbove, AnyBelow, Beyond, Up, Stop, Down
<1>4. CASE t # Stop /\ ~AnyBeyond(s, f, t) /\ AnyBeyond(s, f, -t)
  <2>1. NextDir(s) = -t
    BY <1>4 DEF NextDir
  <2> QED BY <1>1, <1>4, <2>1 DEF AnyBeyond, AnyAbove, AnyBelow, Beyond, Up, Stop, Down
<1>5. CASE ~(t # Stop /\ AnyBeyond(s, f, t)) /\ ~(t # Stop /\ AnyBeyond(s, f, -t))
  <2>1. NextDir(s) = CASE \E g \in best : g > f -> Up
                       [] \E g \in best : g < f -> Down
                       [] best = {}             -> Stop
    BY <1>5 DEF NextDir
  <2>2. \A g \in best : g # f /\ g \in Int
    BY FloorsAreInts
  <2> HIDE DEF best
  <2>3. best # {}
    BY <2>1
  <2>4. CASE \E g \in best : g > f
    <3>1. NextDir(s) = Up \/ (NextDir(s) = Down /\ \E g \in best : g < f)
      BY <2>1, <2>4
    <3> QED BY <1>2, <2>4, <3>1 DEF Beyond, Up, Down
  <2>5. CASE ~\E g \in best : g > f
    <3>1. \E g \in best : g < f
      BY <1>1, <2>2, <2>3, <2>5
    <3>2. NextDir(s) = Down
      BY <2>1, <2>3, <2>5, <3>1
    <3> QED BY <1>2, <3>1, <3>2 DEF Beyond, Up, Down
  <2> QED BY <2>4, <2>5
<1> QED BY <1>3, <1>4, <1>5

-----------------------------------------------------------------------------
(* What the handlers leave. *)
LEMMA OpenStands ==
  ASSUME NEW i, NEW P, NEW s \in Work(i, P), ~s.ctl.moveOver, NEW arrival \in Directions
  PROVE  /\ Fit(Open(s, arrival)) /\ Kept(s, Open(s, arrival))
         /\ Open(s, arrival).car.behavior = "doorOpen"
<1> DEFINE opened == [s EXCEPT !.car.behavior = "doorOpen", !.car.direction = Stop,
                               !.car.doorOpen = TRUE, !.motor = Stop, !.ctl.doorOver = FALSE]
           d == PickDoorDir(opened, arrival)
           t == ClearFloor([opened EXCEPT !.ctl.doorDir = d], d)
<1>1. d \in Directions
  BY PickDoorDirType
<1>2. opened \in Work(i, P)
  BY DEF Work, CarType, CtlType, Behaviors, Directions
<1>3. /\ opened.car.behavior = "doorOpen" /\ opened.car.floor = s.car.floor
      /\ ~opened.ctl.moveOver
  BY DEF Work, CarType, CtlType
<1> HIDE DEF opened, d
<1>4. t.car = opened.car /\ ~t.ctl.moveOver
  BY <1>1, <1>2, <1>3 DEF Work, CtlType, ClearFloor
<1>5. Open(s, arrival) = t
  BY DEF Open, opened, d
<1> HIDE DEF t
<1> QED BY <1>3, <1>4, <1>5 DEF Fit, Kept

LEMMA PlanFits ==
  ASSUME NEW i, NEW P, NEW s \in Work(i, P), s.car.behavior # "stuck", ~s.ctl.moveOver
  PROVE  Fit(Plan(s)) /\ Kept(s, Plan(s))
<1>0. s.car.behavior \in {"idle", "moving", "doorOpen"}
  BY DEF Work, CarType, Behaviors
<1>1. CASE s.car.behavior = "doorOpen"
  BY <1>1 DEF Plan, Fit, Kept
<1>2. CASE s.car.behavior # "doorOpen" /\ CanServe(s, s.car.floor)
  <2>1. s.ctl.travelDir \in Directions
    BY DEF Work, CtlType
  <2> QED BY <1>2, <2>1, OpenStands DEF Plan
<1>3. CASE s.car.behavior # "doorOpen" /\ ~CanServe(s, s.car.floor) /\ NextDir(s) = Stop
  <2> DEFINE t == [s EXCEPT !.car.behavior = "idle", !.car.direction = Stop, !.motor = Stop]
  <2>1. Plan(s) = t
    BY <1>3 DEF Plan
  <2>2. t.car.behavior = "idle" /\ t.car.floor = s.car.floor /\ ~t.ctl.moveOver
    BY DEF Work, CarType
  <2> HIDE DEF t
  <2> QED BY <2>1, <2>2 DEF Fit, Kept
<1>4. CASE s.car.behavior # "doorOpen" /\ ~CanServe(s, s.car.floor) /\ NextDir(s) # Stop
  <2> DEFINE dir == NextDir(s)
             t == [s EXCEPT !.car.behavior = "moving", !.car.direction = dir, !.motor = dir,
                            !.ctl.travelDir = dir, !.ctl.moveOver = FALSE]
  <2>1. Plan(s) = t
    BY <1>4 DEF Plan
  <2>2. dir \in {Up, Down}
    BY <1>4, NextDirServes
  <2>3. PICK g \in Floors : Beyond(g, s.car.floor, dir) /\ CanServe(s, g)
    BY <1>4, NextDirServes
  <2>4. g # s.car.floor
    BY <2>3, FloorsAreInts DEF Beyond, Work, CarType
  <2>5. Claim(s, g)
    BY <1>0, <1>4, <2>3, <2>4, ServeIsClaim
  <2> HIDE DEF dir
  <2>6. /\ t.car.behavior = "moving" /\ t.car.floor = s.car.floor /\ t.car.direction = dir
        /\ t.motor = dir /\ ~t.ctl.moveOver /\ t.active = s.active /\ t.peers = s.peers
    BY DEF Work, CarType, CtlType
  <2> HIDE DEF t
  <2>7. Ahead(t)
    BY <2>3, <2>5, <2>6 DEF Ahead, Claim
  <2> QED BY <2>1, <2>2, <2>6, <2>7 DEF Fit, Kept, Up, Down, Stop
<1> QED BY <1>1, <1>2, <1>3, <1>4

LEMMA DoorStepFits ==
  ASSUME NEW i, NEW P, NEW s \in Work(i, P), DoorDue(s), ~s.ctl.moveOver
  PROVE  Fit(DoorStep(s)) /\ Kept(s, DoorStep(s))
<1> DEFINE d == NextDoorDir(s)
<1>1. d \in Directions
  BY NextDoorDirType
<1>2. CASE d # Stop
  <2> DEFINE t == ClearFloor([s EXCEPT !.ctl.doorDir = d, !.ctl.doorOver = FALSE], d)
  <2>1. DoorStep(s) = t
    BY <1>2 DEF DoorStep
  <2> HIDE DEF d
  <2>2. t.car = s.car /\ ~t.ctl.moveOver
    BY <1>1 DEF Work, CtlType, ClearFloor
  <2> HIDE DEF t
  <2> QED BY <2>1, <2>2 DEF Fit, Kept, DoorDue
<1>3. CASE d = Stop
  <2> DEFINE t == [s EXCEPT !.car.doorOpen = FALSE, !.car.behavior = "idle",
                            !.ctl.doorDir = Stop, !.ctl.doorOver = FALSE]
  <2>1. DoorStep(s) = Plan(t)
    BY <1>3 DEF DoorStep
  <2>2. t \in Work(i, P) /\ t.car.behavior = "idle" /\ t.car.floor = s.car.floor /\ ~t.ctl.moveOver
    BY DEF Work, CarType, CtlType, Behaviors, Directions
  <2> HIDE DEF t
  <2>3. Fit(Plan(t)) /\ Kept(t, Plan(t))
    BY <2>2, PlanFits
  <2> QED BY <2>1, <2>2, <2>3 DEF Kept
<1> QED BY <1>2, <1>3

(* A tick that has seen a peer expire plans; otherwise nothing has changed before it. *)
LEMMA TickFits ==
  ASSUME NEW i, NEW P, NEW s \in Work(i, P), NEW expired \in BOOLEAN,
         s.car.behavior # "stuck", ~s.ctl.moveOver,
         ~expired => Fit(s)
  PROVE  Fit(TickStep(s, expired)) /\ Kept(s, TickStep(s, expired))
<1> DEFINE t == TickStep(s, expired)
<1>1. CASE expired /\ s.car.behavior # "doorOpen"
  BY <1>1, PlanFits DEF TickStep
<1>2. CASE ~(expired /\ s.car.behavior # "doorOpen") /\ DoorDue(s)
  <2>1. t = DoorStep(s)
    BY <1>2 DEF TickStep, DoorDue
  <2> QED BY <1>2, <2>1, DoorStepFits
<1>3. CASE ~(expired /\ s.car.behavior # "doorOpen") /\ s.car.behavior = "idle"
  <2>1. t = Plan(s)
    BY <1>3 DEF TickStep, DoorDue
  <2> QED BY <2>1, PlanFits
<1>4. CASE ~(expired /\ s.car.behavior # "doorOpen") /\ ~DoorDue(s) /\ s.car.behavior # "idle"
  <2>1. t = s
    BY <1>4 DEF TickStep
  <2>2. Kept(s, s)
    BY DEF Kept
  <2> QED BY <1>4, <2>1, <2>2 DEF Fit
<1> QED BY <1>1, <1>2, <1>3, <1>4

LEMMA ObstructionFits ==
  ASSUME NEW i, NEW P, NEW s \in Work(i, P), Fit(s), NEW on \in BOOLEAN
  PROVE  Fit(ObstructionStep(s, on)) /\ Kept(s, ObstructionStep(s, on))
<1> DEFINE u == [s EXCEPT !.car.obstruction = on]
<1>1. /\ u \in Work(i, P) /\ u.active = s.active /\ u.ctl = s.ctl
      /\ u.motor = s.motor /\ u.peers = s.peers
      /\ u.car.behavior = s.car.behavior /\ u.car.direction = s.car.direction
      /\ u.car.floor = s.car.floor
  BY DEF Work, CarType
<1>2. ObstructionStep(s, on) = IF DoorDue(u) THEN DoorStep(u) ELSE u
  BY DEF ObstructionStep
<1> HIDE DEF u
<1>3. Fit(u) /\ Kept(s, u)
  BY <1>1 DEF Fit, Ahead, Claim, Kept
<1>4. CASE DoorDue(u)
  <2>1. Fit(DoorStep(u)) /\ Kept(u, DoorStep(u))
    BY <1>1, <1>3, <1>4, DoorStepFits DEF Fit
  <2> QED BY <1>1, <1>2, <1>4, <2>1 DEF Kept
<1>5. CASE ~DoorDue(u)
  BY <1>2, <1>3, <1>5
<1> QED BY <1>4, <1>5

(* A floor event: a car that goes on has a claim beyond the floor it reports. *)
LEMMA FloorFits ==
  ASSUME NEW i, NEW P, NEW s \in Work(i, P), Fit(s),
         NEW f \in Floors, f \in {s.car.floor - 1, s.car.floor + 1}
  PROVE  LET t == FloorStep(s, f)
         IN  /\ Fit(t) /\ t.car.floor = f
             /\ t.car.behavior = "moving" =>
                  /\ s.car.behavior = "moving" /\ t.motor = s.motor
                  /\ t.car.direction = s.car.direction
<1> DEFINE u == [s EXCEPT !.car.floor = f, !.ctl.moveOver = FALSE]
           d == s.car.direction
<1>1. /\ u \in Work(i, P) /\ u.active = s.active /\ u.motor = s.motor /\ u.peers = s.peers
      /\ ~u.ctl.moveOver /\ u.car.floor = f
      /\ u.car.behavior = s.car.behavior /\ u.car.direction = s.car.direction
  BY DEF Work, CarType, CtlType
<1>2. FloorStep(s, f) = IF s.car.behavior \notin {"moving", "stuck"} THEN u
                        ELSE IF ShouldStop(u, f, d) THEN Open(u, d)
                        ELSE [u EXCEPT !.car.behavior = "moving"]
  BY DEF FloorStep
<1> HIDE DEF u
<1>3. CASE s.car.behavior # "moving"
  <2>1. FloorStep(s, f) = u
    BY <1>2, <1>3 DEF Fit
  <2> QED BY <1>1, <1>3, <2>1 DEF Fit
<1>4. CASE s.car.behavior = "moving" /\ ShouldStop(u, f, d)
  <2>1. FloorStep(s, f) = Open(u, d) /\ d \in Directions
    BY <1>2, <1>4 DEF Work, CarType
  <2>2. Fit(Open(u, d)) /\ Kept(u, Open(u, d)) /\ Open(u, d).car.behavior = "doorOpen"
    BY <1>1, <2>1, OpenStands
  <2> QED BY <1>1, <2>1, <2>2 DEF Kept
<1>5. CASE s.car.behavior = "moving" /\ ~ShouldStop(u, f, d)
  <2>1. FloorStep(s, f) = [u EXCEPT !.car.behavior = "moving"]
    BY <1>2, <1>5
  <2>2. [u EXCEPT !.car.behavior = "moving"] = u
    BY <1>1, <1>5 DEF Work, CarType
  <2>3. d \in {Up, Down}
    BY <1>5 DEF Fit
  <2>4. PICK h \in Floors : Beyond(h, s.car.floor, d) /\ Claim(s, h)
    BY <1>5 DEF Fit, Ahead
  <2>5. Claim(u, h)
    BY <1>1, <2>4 DEF Claim
  <2>a. ASSUME NEW g \in Floors, Beyond(g, f, d), Claim(u, g) PROVE Ahead(u)
    BY <1>1, <2>a DEF Ahead, Beyond
  <2>6. h \in Int /\ f \in Int /\ s.car.floor \in Int
    BY FloorsAreInts DEF Work, CarType
  <2>7. ASSUME h # f PROVE Ahead(u)
    <3>1. Beyond(h, f, d)
      BY <2>3, <2>4, <2>6, <2>7 DEF Beyond
    <3> QED BY <2>5, <2>a, <3>1
  <2>8. ASSUME h = f PROVE Ahead(u)
    <3>1. Cab(u, f) \/ \E e \in {Up, Down} : Hall(u, f, e)
      BY <1>1, <1>5, <2>5, <2>8, ClaimIsServed
    <3>2. AnyBeyond(u, f, d)
      BY <1>5, <2>3, <3>1 DEF ShouldStop, Up, Down, Stop
    <3>3. PICK g \in Floors : Beyond(g, f, d) /\ CanServe(u, g)
      BY <2>3, <3>2 DEF AnyBeyond, AnyAbove, AnyBelow, Beyond
    <3>4. g # f
      BY <2>6, <3>3, FloorsAreInts DEF Beyond
    <3>5. Claim(u, g)
      BY <1>1, <1>5, <3>3, <3>4, ServeIsClaim
    <3> QED BY <2>a, <3>3, <3>5
  <2>9. Ahead(u)
    BY <2>7, <2>8
  <2> QED BY <1>1, <1>5, <2>1, <2>2, <2>3, <2>9 DEF Fit
<1> QED BY <1>3, <1>4, <1>5

-----------------------------------------------------------------------------
(* A set of natural numbers that is not empty has a least one. *)
LEMMA LeastNatural ==
  ASSUME NEW T \in SUBSET Nat, T # {}
  PROVE  \E m \in T : \A k \in T : m <= k
<1> DEFINE R == OpToRel(<, Nat)
<1>1. IsWellFoundedOn(R, Nat)
  BY NatLessThanWellFounded
<1>2. \A x, y \in Nat : <<x, y>> \in R <=> x < y
  BY DEF OpToRel
<1> HIDE DEF R
<1>3. PICK m \in T : \A y \in T : ~(<<y, m>> \in R)
  BY <1>1, WFMin
<1>4. ASSUME NEW k \in T PROVE m <= k
  <2>1. m \in Nat /\ k \in Nat /\ ~(k < m)
    BY <1>2, <1>3
  <2> QED BY <2>1
<1> QED BY <1>4

LEMMA CostBounded ==
  ASSUME NEW b \in Soft, NEW h \in Floors, NEW d
  PROVE  Cost(b, h, d) + 1 \in Nat
<1>1. b.floor \in Int /\ h \in Int
  BY FloorsAreInts DEF Soft
<1>2. Abs(b.floor - h) \in Nat
  BY <1>1 DEF Abs
<1> HIDE DEF Abs
<1> QED BY <1>2 DEF Cost

(* OneAssigned: of elevators that are told apart by their ID, whatever their states, *)
(* each hall call is assigned to exactly one (Assign, assigner.go:10-34).            *)
THEOREM OneAssigned ==
  ASSUME NEW S \in SUBSET Soft, S # {}, \A a, b \in S : a.id = b.id => a = b,
         NEW h \in Floors, NEW d
  PROVE  \E a \in S : Assigned(a, S, h, d) /\ \A b \in S : Assigned(b, S, h, d) => b = a
<1> DEFINE costs == {Cost(a, h, d) + 1 : a \in S}
<1>1. \A a \in S : Cost(a, h, d) + 1 \in Nat /\ Cost(a, h, d) \in Int
  BY CostBounded, CostIsInt
<1>2. costs \in SUBSET Nat /\ costs # {}
  BY <1>1
<1>3. PICK least \in costs : \A k \in costs : least <= k
  BY <1>2, LeastNatural
<1> DEFINE cheapest == {a \in S : Cost(a, h, d) + 1 = least}
           ids == {a.id : a \in cheapest}
<1>4. ids \in SUBSET Nat /\ ids # {}
  BY DEF Soft
<1>5. PICK i \in ids : \A k \in ids : i <= k
  BY <1>4, LeastNatural
<1>6. PICK a \in cheapest : a.id = i
  OBVIOUS
<1>7. ASSUME NEW b \in S, b.id # a.id PROVE Before(a, b, h, d)
  <2>1. Cost(a, h, d) + 1 <= Cost(b, h, d) + 1
    BY <1>3
  <2>2. Cost(a, h, d) < Cost(b, h, d) \/ Cost(a, h, d) = Cost(b, h, d)
    BY <1>1, <2>1
  <2>3. ASSUME Cost(a, h, d) = Cost(b, h, d) PROVE a.id < b.id
    <3>1. b \in cheapest
      BY <2>3
    <3>2. a.id <= b.id /\ a.id \in Nat /\ b.id \in Nat
      BY <1>4, <1>5, <1>6, <3>1
    <3> QED BY <1>7, <3>2
  <2> QED BY <2>2, <2>3 DEF Before
<1>8. Assigned(a, S, h, d)
  BY <1>7 DEF Assigned
<1>9. ASSUME NEW b \in S, Assigned(b, S, h, d), b.id # a.id PROVE FALSE
  <2>1. Before(a, b, h, d) /\ Before(b, a, h, d)
    BY <1>7, <1>9 DEF Assigned
  <2>2. Cost(a, h, d) \in Int /\ Cost(b, h, d) \in Int /\ a.id \in Nat /\ b.id \in Nat
    BY <1>1 DEF Soft
  <2> QED BY <2>1, <2>2 DEF Before
<1> QED BY <1>8, <1>9
=============================================================================
