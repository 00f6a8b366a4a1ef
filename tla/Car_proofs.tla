----------------------------- MODULE Car_proofs -----------------------------
(***************************************************************************)
(* Proofs about one elevator of new_heis (module Car), for any number of   *)
(* floors, any peers and any bounds: the type invariant, the motor, the    *)
(* door intervals, the cab calls, and that a car on time is never stuck.   *)
(***************************************************************************)
EXTENDS Car, Controller_proofs

Inv == TypeOK /\ MotorSafe

(* What the theorems say of a step. *)
Good ==
  /\ Inv'
  /\ /\ car.doorOpen
     /\ ~car'.doorOpen \/ ctl'.doorDir # ctl.doorDir \/ (ctl.doorOver /\ ~ctl'.doorOver)
     => ctl.doorOver /\ ~car'.obstruction
  /\ \A c \in active \ active' :
       c \in CabCalls \ old' => car'.doorOpen /\ ~ctl'.doorOver /\ c[1] = car'.floor

LEMMA PeersKnown ==
  ASSUME NEW K \in SUBSET Peers PROVE K \in SUBSET {p \in Peers \cap Soft : p.id # ID}
BY PeersAssumption

LEMMA StateWork == ASSUME Inv PROVE State \in Work(ID, Peers) /\ Safe(State)
<1>1. peers \in SUBSET {p \in Peers \cap Soft : p.id # ID}
  BY PeersKnown DEF Inv, TypeOK
<1> QED BY <1>1 DEF Inv, TypeOK, MotorSafe, State, Work, CarType, CtlType, Safe

(* A handler that leaves such a record leaves such a state. *)
LEMMA SyncGood ==
  ASSUME Inv, NEW t \in Work(ID, Peers), Safe(t), Interval(State, t),
         NEW set, NEW s, Sync(set, s, t), floors' \in Seq(Floors),
         \A c \in active \ t.active :
           c \in CabCalls \ old' => t.car.doorOpen /\ ~t.ctl.doorOver /\ c[1] = t.car.floor
  PROVE  Good
<1>1. /\ t.car \in CarType(ID) /\ t.ctl \in CtlType /\ t.active \subseteq Calls
      /\ t.peers \subseteq Peers /\ t.motor \in Directions /\ t.car.floor \in Floors
  BY DEF Work, CarType
<1>2. /\ car' = t.car /\ ctl' = t.ctl /\ active' = t.active /\ peers' = t.peers
      /\ drv' = [floor |-> t.car.floor, motor |-> t.motor, onTime |-> drv.onTime]
  BY DEF Sync
<1>3. /\ drv' \in [floor : Floors, motor : Directions, onTime : BOOLEAN]
      /\ drv'.motor = t.motor
  BY <1>1, <1>2 DEF Inv, TypeOK
<1>4. TypeOK'
  <2>1. old' \subseteq Old
    BY DEF Sync, Inv, TypeOK
  <2> QED BY <1>1, <1>2, <1>3, <2>1 DEF TypeOK, CarType, CtlType
<1>5. MotorSafe'
  BY <1>2, <1>3 DEF MotorSafe, Safe
<1> QED BY <1>2, <1>4, <1>5 DEF Good, Inv, Interval, State

(* HandleTick, which is also the end of the sync window. *)
LEMMA TickGood ==
  ASSUME Inv, NEW gone \in SUBSET peers, NEW ready \in BOOLEAN, UNCHANGED floors,
         NEW s, s = [State EXCEPT !.ctl.ready = ready, !.peers = @ \ gone],
         Sync({}, s, TickStep(s, gone # {}))
  PROVE  Good
<1> DEFINE t == TickStep(s, gone # {})
<1>1. State \in Work(ID, Peers) /\ Safe(State)
  BY StateWork
<1>2. s \in Work(ID, Peers) /\ s.active = State.active /\ s.car = State.car /\ s.motor = State.motor
      /\ s.ctl.doorOver = State.ctl.doorOver /\ s.ctl.doorDir = State.ctl.doorDir
  BY <1>1 DEF Work, CtlType
<1>3. Sync({}, s, t) /\ (gone # {}) \in BOOLEAN
  OBVIOUS
<1>4. Safe(s)
  BY <1>1, <1>2 DEF Safe
<1>5. t \in Work(ID, Peers) /\ Safe(t) /\ Clears(s, t) /\ Interval(s, t)
  BY <1>2, <1>3, <1>4, TickKeeps
<1> HIDE DEF t
<1>6. Interval(State, t) /\ State.active = active
  BY <1>2, <1>5 DEF Interval, State
<1>7. floors' \in Seq(Floors)
  BY DEF Inv, TypeOK
<1> QED BY <1>2, <1>3, <1>5, <1>6, <1>7, SyncGood DEF Clears, Served

(* A handler that makes the car plan with other calls or other peers. *)
LEMMA PlanGood ==
  ASSUME Inv, UNCHANGED floors,
         NEW s \in Work(ID, Peers), s.car = State.car, s.ctl = State.ctl, s.motor = State.motor,
         \A c \in active \ s.active : c \in CabCalls => c \in old,
         NEW set, Sync(set, s, Plan(s)) \/ Sync(set, s, s)
  PROVE  Good
<1>1. State \in Work(ID, Peers) /\ Safe(State)
  BY StateWork
<1>2. Safe(s)
  BY <1>1 DEF Safe
<1>3. floors' \in Seq(Floors)
  BY DEF Inv, TypeOK
<1>4. CASE Sync(set, s, s)
  <2>1. Interval(State, s)
    BY DEF Interval
  <2>2. \A c \in active \ s.active : c \in CabCalls => c \in old'
    BY <1>4 DEF Sync
  <2> QED BY <1>2, <1>3, <1>4, <2>1, <2>2, SyncGood
<1>5. CASE Sync(set, s, Plan(s))
  <2> DEFINE t == Plan(s)
  <2>1. /\ t \in Work(ID, Peers) /\ Safe(t) /\ Clears(s, t)
        /\ s.car.behavior = "doorOpen" => t = s
    BY <1>2, PlanKeeps
  <2>2. Sync(set, s, t)
    BY <1>5
  <2> HIDE DEF t
  <2>3. Interval(State, t)
    BY <1>1, <2>1 DEF Interval, Safe
  <2>4. \A c \in active \ t.active :
          c \in CabCalls \ old' => t.car.doorOpen /\ ~t.ctl.doorOver /\ c[1] = t.car.floor
    <3> SUFFICES ASSUME NEW c \in active \ t.active, c \in CabCalls \ old'
                 PROVE  t.car.doorOpen /\ ~t.ctl.doorOver /\ c[1] = t.car.floor
      OBVIOUS
    <3>1. c \in s.active
      BY <2>2 DEF Sync
    <3> QED BY <2>1, <3>1 DEF Clears, Served
  <2> QED BY <1>3, <2>1, <2>2, <2>3, <2>4, SyncGood
<1> QED BY <1>4, <1>5

LEMMA InitInv == Init => Inv
<1> SUFFICES ASSUME Init PROVE Inv
  OBVIOUS
<1>1. PICK f \in Floors, onTime \in BOOLEAN :
        /\ car = [id |-> ID, floor |-> f, direction |-> Stop, behavior |-> "idle",
                  doorOpen |-> FALSE, obstruction |-> FALSE]
        /\ drv = [floor |-> f, motor |-> Stop, onTime |-> onTime]
  BY DEF Init
<1>2. TypeOK
  BY <1>1 DEF Init, TypeOK, Directions, Behaviors
<1>3. MotorSafe
  BY <1>1 DEF MotorSafe
<1> QED BY <1>2, <1>3 DEF Inv

(* Every step of the elevator is a good one. *)
LEMMA StepGood == ASSUME Inv, Next PROVE Good
<1> USE DEF Inv
<1>0. TypeOK /\ MotorSafe /\ State \in Work(ID, Peers) /\ Safe(State)
  BY StateWork
<1>1. CASE EndSync
  <2>1. PICK gone \in SUBSET peers :
          LET s == [State EXCEPT !.ctl.ready = TRUE, !.peers = @ \ gone]
          IN  Sync({}, s, TickStep(s, gone # {}))
    BY <1>1 DEF EndSync
  <2> QED BY <1>1, <2>1, TickGood DEF EndSync
<1>2. CASE HandleTick
  <2>1. PICK gone \in SUBSET peers :
          LET s == [State EXCEPT !.peers = @ \ gone] IN Sync({}, s, TickStep(s, gone # {}))
    BY <1>2 DEF HandleTick
  <2>2. [State EXCEPT !.peers = @ \ gone] = [State EXCEPT !.ctl.ready = TRUE, !.peers = @ \ gone]
    BY <1>0, <1>2 DEF HandleTick, Work, CtlType, State
  <2> QED BY <1>2, <2>1, <2>2, TickGood DEF HandleTick
<1>3. CASE HandleFloor
  <2> DEFINE t == FloorStep(State, Head(floors))
  <2>1. Head(floors) \in Floors /\ floors' \in Seq(Floors)
    BY <1>0, <1>3 DEF HandleFloor, TypeOK
  <2>2. t \in Work(ID, Peers) /\ Safe(t) /\ Clears(State, t) /\ Interval(State, t)
    BY <1>0, <2>1, FloorKeeps
  <2>3. Sync({}, State, t)
    BY <1>3 DEF HandleFloor
  <2> HIDE DEF t
  <2>4. active = State.active
    BY DEF State
  <2> QED BY <2>1, <2>2, <2>3, <2>4, SyncGood DEF Clears, Served
<1>4. CASE DoorDeadline
  <2>1. ctl' \in [ready : BOOLEAN, travelDir : Directions, doorDir : Directions,
                  doorOver : BOOLEAN, moveOver : BOOLEAN]
    BY <1>0, <1>4 DEF DoorDeadline, TypeOK
  <2>2. ctl'.doorDir = ctl.doorDir /\ ~ctl.doorOver
    BY <1>0, <1>4 DEF DoorDeadline, TypeOK
  <2> QED BY <1>0, <1>4, <2>1, <2>2 DEF DoorDeadline, TypeOK, MotorSafe, Good
<1>5. CASE MoveDeadline
  <2>1. ctl' \in [ready : BOOLEAN, travelDir : Directions, doorDir : Directions,
                  doorOver : BOOLEAN, moveOver : BOOLEAN]
    BY <1>0, <1>5 DEF MoveDeadline, TypeOK
  <2>2. ctl'.doorDir = ctl.doorDir /\ ctl'.doorOver = ctl.doorOver
    BY <1>0, <1>5 DEF MoveDeadline, TypeOK
  <2> QED BY <1>0, <1>5, <2>1, <2>2 DEF MoveDeadline, TypeOK, MotorSafe, Good
<1>6. CASE DriverStep
  <2>1. CASE drv.floor + drv.motor \in Floors
    <3>1. drv' \in [floor : Floors, motor : Directions, onTime : BOOLEAN] /\ drv'.motor = drv.motor
      BY <1>0, <1>6, <2>1 DEF DriverStep, TypeOK
    <3>2. floors' \in Seq(Floors)
      BY <1>0, <1>6, <2>1 DEF DriverStep, Sent, TypeOK
    <3> QED BY <1>0, <1>6, <3>1, <3>2 DEF DriverStep, TypeOK, MotorSafe, Good
  <2>2. CASE drv.floor + drv.motor \notin Floors
    <3>1. drv' \in [floor : Floors, motor : Directions, onTime : BOOLEAN] /\ drv'.motor = Stop
      BY <1>0, <1>6, <2>2 DEF DriverStep, TypeOK, Directions
    <3> QED BY <1>0, <1>6, <2>2, <3>1 DEF DriverStep, TypeOK, MotorSafe, Good
  <2> QED BY <2>1, <2>2
<1>7. ASSUME NEW c \in Calls, HandleButton(c) PROVE Good
  <2> DEFINE s == [State EXCEPT !.active = @ \cup {c}]
  <2>0. Sync({c}, s, Plan(s))
    BY <1>7 DEF HandleButton
  <2>1. active \cup {c} \in SUBSET Calls /\ State.active = active
    BY <1>0 DEF TypeOK, State
  <2>2. /\ s \in Work(ID, Peers) /\ s.active = active \cup {c}
        /\ s.car = State.car /\ s.motor = State.motor /\ s.ctl = State.ctl
    BY <1>0, <2>1 DEF Work
  <2> HIDE DEF s
  <2> QED BY <1>7, <2>0, <2>1, <2>2, PlanGood DEF HandleButton
<1>8. ASSUME NEW on \in BOOLEAN, HandleObstruction(on) PROVE Good
  <2> DEFINE t == ObstructionStep(State, on)
  <2>1. t \in Work(ID, Peers) /\ Safe(t) /\ Interval(State, t) /\ Served(State, t)
    BY <1>0, ObstructionKeeps
  <2>2. Sync({}, State, t) /\ floors' \in Seq(Floors)
    BY <1>0, <1>8 DEF HandleObstruction, TypeOK
  <2> HIDE DEF t
  <2>3. active = State.active
    BY DEF State
  <2> QED BY <2>1, <2>2, <2>3, SyncGood DEF Served
<1>9. ASSUME NEW from \in {{}} \cup {{p} : p \in Peers}, NEW news \in News,
             ApplyRemote(from, news)
      PROVE  Good
  <2> DEFINE heard == {p.id : p \in from}
             calls == (active \ news) \cup (news \ active)
             known == {q \in peers : q.id \notin heard} \cup from
             s == [State EXCEPT !.active = (@ \ news) \cup (news \ @),
                                !.peers = {q \in @ : q.id \notin heard} \cup from]
  <2>1. calls \in SUBSET Calls /\ known \in SUBSET Peers
    BY <1>0, NewsAssumption DEF TypeOK
  <2>2. /\ s \in Work(ID, Peers) /\ s.active = calls /\ s.car = State.car /\ s.motor = State.motor
        /\ s.ctl = State.ctl
    <3>1. State.active = active /\ State.peers = peers
      BY DEF State
    <3>2. known \in SUBSET {p \in Peers \cap Soft : p.id # ID}
      BY <2>1, PeersKnown
    <3> HIDE DEF calls, known
    <3>3. s = [State EXCEPT !.active = calls, !.peers = known]
      BY <3>1 DEF calls, known
    <3> QED BY <1>0, <2>1, <3>2, <3>3 DEF Work
  <2>3. \A c \in active \ calls : c \in CabCalls => c \in old
    BY <1>9 DEF ApplyRemote
  <2>4. (Sync({}, s, Plan(s)) \/ Sync({}, s, s)) /\ UNCHANGED floors
    BY <1>9 DEF ApplyRemote
  <2> HIDE DEF s, calls, known
  <2> QED BY <2>1, <2>2, <2>3, <2>4, PlanGood
<1> QED BY <1>1, <1>2, <1>3, <1>4, <1>5, <1>6, <1>7, <1>8, <1>9 DEF Next, Own

LEMMA StutterGood == ASSUME Inv, UNCHANGED vars PROVE Inv'
BY DEF Inv, TypeOK, MotorSafe, vars

(* The invariant holds throughout: Inv is inductive. *)
THEOREM Invariant == Spec => []Inv
<1>1. Inv /\ [Next]_vars => Inv'
  BY StepGood, StutterGood DEF Good
<1> QED BY <1>1, InitInv, PTL DEF Spec

(* TypeCorrect: the state keeps its shape; the driver never counts a floor the *)
(* shaft does not have (mock.go:153-157).                                      *)
THEOREM TypeCorrect == Spec => []TypeOK
BY Invariant, PTL DEF Inv

(* MotorNeverLoose: whatever is pressed, obstructed, heard or delayed, the motor *)
(* runs only for a moving car in its direction, and never with the door open     *)
(* (controller.go:186-226).                                                      *)
THEOREM MotorNeverLoose == Spec => []MotorSafe
BY Invariant, PTL DEF Inv

(* IntervalsFull: no handler cuts a door interval short (controller.go:164-184). *)
THEOREM IntervalsFull == Spec => DoorInterval
<1>1. Inv /\ [Next]_vars =>
        [/\ car.doorOpen
         /\ ~car'.doorOpen \/ ctl'.doorDir # ctl.doorDir \/ (ctl.doorOver /\ ~ctl'.doorOver)
         => ctl.doorOver /\ ~car'.obstruction]_vars
  BY StepGood DEF Good
<1> QED BY <1>1, Invariant, PTL DEF Spec, DoorInterval

(* CabsKept: a cab call is cleared only by the door at its floor *)
(* (controller.go:372-377).                                      *)
THEOREM CabsKept == Spec => CabClearedByDoor
<1>1. Inv /\ [Next]_vars =>
        [\A c \in active \ active' :
           c \in CabCalls \ old' => car'.doorOpen /\ ~ctl'.doorOver /\ c[1] = car'.floor]_vars
  BY StepGood DEF Good
<1> QED BY <1>1, Invariant, PTL DEF Spec, CabClearedByDoor

-----------------------------------------------------------------------------
(* A car that is on time has a claim ahead when it moves; the driver has stopped by *)
(* itself only where the floor event that waits is of the end of the shaft.         *)
OnTime ==
  drv.onTime =>
    /\ Fit(State)
    /\ \/ floors = <<>> /\ drv.floor = car.floor
       \/ \E g \in {car.floor - 1, car.floor + 1} : floors = <<g>> /\ drv.floor \in {g, car.floor}
    /\ car.behavior = "moving" /\ drv.motor = Stop =>
         /\ floors = <<car.floor + car.direction>>
         /\ car.floor + 2 * car.direction \notin Floors

NInv == Inv /\ OnTime

(* A handler of anything but a floor event. *)
LEMMA SyncOnTime ==
  ASSUME NInv, NEW t, drv.onTime => Fit(t) /\ Kept(State, t),
         NEW set, NEW s, Sync(set, s, t), UNCHANGED floors
  PROVE  OnTime'
<1>1. /\ car' = t.car /\ ctl' = t.ctl /\ active' = t.active /\ peers' = t.peers
      /\ drv' = [floor |-> t.car.floor, motor |-> t.motor, onTime |-> drv.onTime]
  BY DEF Sync
<1>2. drv'.onTime = drv.onTime /\ drv'.floor = t.car.floor /\ drv'.motor = t.motor
  BY <1>1 DEF NInv, Inv, TypeOK
<1>3. SUFFICES ASSUME drv.onTime PROVE OnTime'
  BY <1>2 DEF OnTime
<1>4. Fit(t) /\ Kept(State, t)
  BY <1>3
<1>5. Fit(State)'
  BY <1>1, <1>2, <1>4 DEF Fit, Ahead, Claim, State
<1>6. State.car = car /\ State.motor = drv.motor
  BY DEF State
<1>7. car'.floor = car.floor /\ drv'.floor = car.floor
  BY <1>1, <1>2, <1>4, <1>6 DEF Kept
<1>8. \/ floors' = <<>> /\ drv'.floor = car'.floor
      \/ \E g \in {car'.floor - 1, car'.floor + 1} :
           floors' = <<g>> /\ drv'.floor \in {g, car'.floor}
  BY <1>3, <1>7 DEF NInv, OnTime
<1>9. car'.behavior = "moving" /\ drv'.motor = Stop =>
         /\ floors' = <<car'.floor + car'.direction>>
         /\ car'.floor + 2 * car'.direction \notin Floors
  BY <1>1, <1>2, <1>3, <1>4, <1>6, <1>7 DEF Kept, NInv, OnTime
<1> QED BY <1>5, <1>8, <1>9 DEF OnTime

LEMMA FloorOnTime ==
  ASSUME NInv, HandleFloor
  PROVE  OnTime'
<1> DEFINE t == FloorStep(State, Head(floors))
<1>1. Sync({}, State, t) /\ floors # <<>> /\ floors' = Tail(floors)
  BY DEF HandleFloor
<1>2. State \in Work(ID, Peers) /\ TypeOK
  BY StateWork DEF NInv, Inv
<1>3. drv'.onTime = drv.onTime /\ drv'.floor = t.car.floor /\ drv'.motor = t.motor
  BY <1>1, <1>2 DEF Sync, TypeOK
<1>4. SUFFICES ASSUME drv.onTime PROVE OnTime'
  BY <1>3 DEF OnTime
<1>5. PICK g \in {car.floor - 1, car.floor + 1} : floors = <<g>> /\ drv.floor \in {g, car.floor}
  BY <1>1, <1>4 DEF NInv, OnTime
<1>6. Head(floors) = g /\ g \in Floors /\ floors' = <<>>
  BY <1>1, <1>2, <1>5 DEF TypeOK
<1>7. Fit(State) /\ State.car = car /\ State.motor = drv.motor
  BY <1>4 DEF NInv, OnTime, State
<1>8. /\ Fit(t) /\ t.car.floor = g
      /\ t.car.behavior = "moving" =>
           car.behavior = "moving" /\ t.motor = drv.motor /\ t.car.direction = car.direction
  BY <1>2, <1>5, <1>6, <1>7, FloorFits
<1> HIDE DEF t
<1>9. /\ car' = t.car /\ ctl' = t.ctl /\ active' = t.active /\ peers' = t.peers
  BY <1>1 DEF Sync
<1>10. Fit(State)'
  BY <1>3, <1>8, <1>9 DEF Fit, Ahead, Claim, State
<1>11. ASSUME car'.behavior = "moving", drv'.motor = Stop PROVE FALSE
  <2>1. car.behavior = "moving" /\ drv.motor = Stop /\ t.car.direction = car.direction
    BY <1>3, <1>8, <1>9, <1>11
  <2>2. floors = <<car.floor + car.direction>> /\ car.floor + 2 * car.direction \notin Floors
    BY <1>4, <2>1 DEF NInv, OnTime
  <2>3. g = car.floor + car.direction
    BY <1>5, <2>2
  <2>4. car.direction \in {Up, Down} /\ Ahead(t)
    BY <1>8, <1>9, <1>11, <2>1 DEF Fit
  <2>5. PICK h \in Floors : Beyond(h, g, car.direction)
    BY <1>8, <2>1, <2>4 DEF Ahead
  <2>6. g + car.direction \in Floors
    BY <1>6, <2>4, <2>5, FloorsAssumption DEF Beyond, Floors, Up, Down
  <2>7. car.floor \in Int
    BY <1>2, FloorsAreInts DEF TypeOK
  <2> QED BY <2>2, <2>3, <2>4, <2>6, <2>7 DEF Up, Down
<1> QED BY <1>3, <1>6, <1>8, <1>9, <1>10, <1>11 DEF OnTime

(* The driver stops the motor only where a floor event of the end of the shaft waits. *)
LEMMA DriverOnTime ==
  ASSUME NInv, DriverStep
  PROVE  OnTime'
<1>1. TypeOK /\ MotorSafe /\ UNCHANGED <<car, ctl, active, peers>> /\ drv.motor # Stop
  BY DEF NInv, Inv, DriverStep
<1>2. car.behavior = "moving" /\ car.direction = drv.motor
  BY <1>1 DEF MotorSafe
<1>3. drv'.onTime = drv.onTime
  BY <1>1 DEF DriverStep, TypeOK
<1>4. SUFFICES ASSUME drv.onTime PROVE OnTime'
  BY <1>3 DEF OnTime
<1>5. Fit(State)'
  <2>1. Fit(State)
    BY <1>4 DEF NInv, OnTime
  <2> QED BY <1>1, <2>1 DEF Fit, Ahead, Claim, State
<1>6. drv.motor \in {Up, Down} /\ car.floor \in Floors /\ car.floor \in Int
  BY <1>1, FloorsAreInts DEF TypeOK, Directions
<1>7. CASE drv.floor + drv.motor \in Floors
  <2>1. floors = <<>>
    BY <1>4, <1>7 DEF DriverStep, Prompt
  <2>2. drv.floor = car.floor
    BY <1>4, <2>1 DEF NInv, OnTime
  <2>3. floors' = <<car.floor + drv.motor>>
    BY <1>7, <2>1, <2>2, PendingAssumption DEF DriverStep, Sent
  <2>4. drv'.floor = car.floor + drv.motor /\ drv'.motor = drv.motor
    BY <1>1, <1>7, <2>2 DEF DriverStep, TypeOK
  <2>5. car.floor + drv.motor \in {car.floor - 1, car.floor + 1}
    BY <1>6 DEF Up, Down
  <2> QED BY <1>1, <1>5, <2>3, <2>4, <2>5 DEF OnTime
<1>8. CASE drv.floor + drv.motor \notin Floors
  <2>1. drv'.motor = Stop /\ drv'.floor = drv.floor /\ floors' = floors
    BY <1>1, <1>8 DEF DriverStep, TypeOK
  <2>2. Ahead(State) /\ State.car = car
    BY <1>2, <1>4 DEF NInv, OnTime, Fit, State
  <2>3. PICK h \in Floors : Beyond(h, car.floor, drv.motor)
    BY <1>2, <2>2 DEF Ahead
  <2>4. car.floor + drv.motor \in Floors
    BY <1>6, <2>3, FloorsAssumption DEF Beyond, Floors, Up, Down
  <2>5. drv.floor # car.floor
    BY <1>8, <2>4
  <2>6. PICK g \in {car.floor - 1, car.floor + 1} : floors = <<g>> /\ drv.floor \in {g, car.floor}
    BY <1>4, <2>5 DEF NInv, OnTime
  <2>7. g = drv.floor /\ g + drv.motor # car.floor
    BY <1>6, <1>8, <2>5, <2>6
  <2>8. g = car.floor + drv.motor
    BY <1>6, <2>6, <2>7 DEF Up, Down
  <2>9. car.floor + 2 * drv.motor \notin Floors
    BY <1>6, <1>8, <2>7, <2>8 DEF Up, Down
  <2> QED BY <1>1, <1>2, <1>5, <2>1, <2>6, <2>7, <2>8, <2>9 DEF OnTime
<1> QED BY <1>7, <1>8

LEMMA TickOnTime ==
  ASSUME NInv, NEW gone \in SUBSET peers, NEW ready \in BOOLEAN, UNCHANGED floors,
         NEW s, s = [State EXCEPT !.ctl.ready = ready, !.peers = @ \ gone],
         Sync({}, s, TickStep(s, gone # {}))
  PROVE  OnTime'
<1> DEFINE t == TickStep(s, gone # {})
<1>1. State \in Work(ID, Peers)
  BY StateWork DEF NInv
<1>2. /\ s \in Work(ID, Peers) /\ s.active = State.active
      /\ s.car = State.car /\ s.motor = State.motor
      /\ s.ctl.moveOver = State.ctl.moveOver /\ s.peers = State.peers \ gone
  BY <1>1 DEF Work, CtlType
<1>3. Sync({}, s, t) /\ (gone # {}) \in BOOLEAN
  OBVIOUS
<1>4. ASSUME drv.onTime PROVE Fit(t) /\ Kept(State, t)
  <2>1. Fit(State)
    BY <1>4 DEF NInv, OnTime
  <2>2. s.car.behavior # "stuck" /\ ~s.ctl.moveOver
    BY <1>2, <2>1 DEF Fit
  <2>3. ASSUME gone = {} PROVE Fit(s)
    <3>1. State.peers \ gone = State.peers
      BY <2>3
    <3>2. s.peers = State.peers /\ s.active = State.active /\ s.car = State.car
      BY <1>2, <3>1
    <3>3. \A h : Claim(State, h) => Claim(s, h)
      BY <3>2 DEF Claim
    <3>4. Ahead(State) => Ahead(s)
      BY <3>2, <3>3 DEF Ahead
    <3> QED BY <1>2, <2>1, <3>2, <3>4 DEF Fit
  <2>4. Fit(t) /\ Kept(s, t)
    BY <1>2, <1>3, <2>2, <2>3, TickFits
  <2> HIDE DEF t
  <2> QED BY <1>2, <2>4 DEF Kept
<1> HIDE DEF t
<1> QED BY <1>3, <1>4, SyncOnTime

LEMMA PlanOnTime ==
  ASSUME NInv, UNCHANGED floors,
         NEW s \in Work(ID, Peers), s.car = State.car, s.ctl = State.ctl, s.motor = State.motor,
         NEW set,
         \/ Sync(set, s, Plan(s))
         \/ Sync(set, s, s) /\ s.active = active /\ s.peers \subseteq peers
  PROVE  OnTime'
<1>1. CASE Sync(set, s, Plan(s))
  <2>1. ASSUME drv.onTime PROVE Fit(Plan(s)) /\ Kept(State, Plan(s))
    <3>1. s.car.behavior # "stuck" /\ ~s.ctl.moveOver
      BY <2>1 DEF NInv, OnTime, Fit
    <3>2. Fit(Plan(s)) /\ Kept(s, Plan(s))
      BY <3>1, PlanFits
    <3> QED BY <3>2 DEF Kept
  <2> QED BY <1>1, <2>1, SyncOnTime
<1>2. CASE Sync(set, s, s) /\ s.active = active /\ s.peers \subseteq peers
  <2>1. ASSUME drv.onTime PROVE Fit(s) /\ Kept(State, s)
    <3>1. Fit(State) /\ State.active = active /\ State.peers = peers
      BY <2>1 DEF NInv, OnTime, State
    <3> QED BY <1>2, <3>1 DEF Fit, Ahead, Claim, Kept
  <2> QED BY <1>2, <2>1, SyncOnTime
<1> QED BY <1>1, <1>2

LEMMA InitOnTime == Init => OnTime
<1> SUFFICES ASSUME Init PROVE OnTime
  OBVIOUS
<1>1. PICK f \in Floors, onTime \in BOOLEAN :
        /\ car = [id |-> ID, floor |-> f, direction |-> Stop, behavior |-> "idle",
                  doorOpen |-> FALSE, obstruction |-> FALSE]
        /\ drv = [floor |-> f, motor |-> Stop, onTime |-> onTime]
  BY DEF Init
<1>2. car.behavior = "idle" /\ drv.floor = car.floor /\ ~ctl.moveOver /\ floors = <<>>
  BY <1>1 DEF Init
<1> QED BY <1>2 DEF OnTime, Fit, State

LEMMA StepOnTime == ASSUME NInv, Next PROVE OnTime'
<1>0. TypeOK /\ State \in Work(ID, Peers) /\ State.active = active /\ State.peers = peers
  BY StateWork DEF NInv, Inv, State
<1>1. CASE EndSync
  <2>1. PICK gone \in SUBSET peers :
          LET s == [State EXCEPT !.ctl.ready = TRUE, !.peers = @ \ gone]
          IN  Sync({}, s, TickStep(s, gone # {}))
    BY <1>1 DEF EndSync
  <2> QED BY <1>1, <2>1, TickOnTime DEF EndSync
<1>2. CASE HandleTick
  <2>1. PICK gone \in SUBSET peers :
          LET s == [State EXCEPT !.peers = @ \ gone] IN Sync({}, s, TickStep(s, gone # {}))
    BY <1>2 DEF HandleTick
  <2>2. [State EXCEPT !.peers = @ \ gone] = [State EXCEPT !.ctl.ready = TRUE, !.peers = @ \ gone]
    BY <1>0, <1>2 DEF HandleTick, Work, CtlType, State
  <2> QED BY <1>2, <2>1, <2>2, TickOnTime DEF HandleTick
<1>3. CASE HandleFloor
  BY <1>3, FloorOnTime
<1>4. CASE DoorDeadline
  <2>1. ctl'.moveOver = ctl.moveOver
    BY <1>0, <1>4 DEF DoorDeadline, TypeOK
  <2>2. Fit(State) => Fit(State)'
    BY <1>4, <2>1 DEF DoorDeadline, Fit, Ahead, Claim, State
  <2> QED BY <1>4, <2>2 DEF NInv, OnTime, DoorDeadline
<1>5. CASE MoveDeadline
  <2>1. ~drv.onTime
    <3>1. SUFFICES ASSUME drv.onTime PROVE FALSE
      OBVIOUS
    <3>2. floors = <<>> /\ floors = <<car.floor + car.direction>>
      BY <1>5, <3>1 DEF MoveDeadline, NInv, OnTime
    <3> QED BY <3>2
  <2> QED BY <1>5, <2>1 DEF MoveDeadline, OnTime
<1>6. CASE DriverStep
  BY <1>6, DriverOnTime
<1>7. ASSUME NEW c \in Calls, HandleButton(c) PROVE OnTime'
  <2> DEFINE s == [State EXCEPT !.active = @ \cup {c}]
  <2>0. Sync({c}, s, Plan(s)) /\ UNCHANGED floors
    BY <1>7 DEF HandleButton
  <2>1. active \cup {c} \in SUBSET Calls
    BY <1>0 DEF TypeOK
  <2>2. s \in Work(ID, Peers) /\ s.car = State.car /\ s.motor = State.motor /\ s.ctl = State.ctl
    BY <1>0, <2>1 DEF Work
  <2> HIDE DEF s
  <2> QED BY <2>0, <2>2, PlanOnTime
<1>8. ASSUME NEW on \in BOOLEAN, HandleObstruction(on) PROVE OnTime'
  <2> DEFINE t == ObstructionStep(State, on)
  <2>1. ASSUME drv.onTime PROVE Fit(t) /\ Kept(State, t)
    <3>1. Fit(State)
      BY <2>1 DEF NInv, OnTime
    <3> QED BY <1>0, <3>1, ObstructionFits
  <2>2. Sync({}, State, t) /\ UNCHANGED floors
    BY <1>8 DEF HandleObstruction
  <2> HIDE DEF t
  <2> QED BY <2>1, <2>2, SyncOnTime
<1>9. ASSUME NEW from \in {{}} \cup {{p} : p \in Peers}, NEW news \in News,
             ApplyRemote(from, news)
      PROVE  OnTime'
  <2> DEFINE heard == {p.id : p \in from}
             calls == (active \ news) \cup (news \ active)
             known == {q \in peers : q.id \notin heard} \cup from
             s == [State EXCEPT !.active = (@ \ news) \cup (news \ @),
                                !.peers = {q \in @ : q.id \notin heard} \cup from]
  <2>1. calls \in SUBSET Calls /\ known \in SUBSET Peers
    BY <1>0, NewsAssumption DEF TypeOK
  <2>2. /\ s \in Work(ID, Peers) /\ s.active = calls /\ s.peers = known
        /\ s.car = State.car /\ s.motor = State.motor /\ s.ctl = State.ctl
    <3>1. State.active = active /\ State.peers = peers
      BY DEF State
    <3>2. known \in SUBSET {p \in Peers \cap Soft : p.id # ID}
      BY <2>1, PeersKnown
    <3> HIDE DEF calls, known
    <3>3. s = [State EXCEPT !.active = calls, !.peers = known]
      BY <3>1 DEF calls, known
    <3> QED BY <1>0, <2>1, <3>2, <3>3 DEF Work
  <2>3. Sync({}, s, Plan(s)) \/ (news = {} /\ from \subseteq peers /\ Sync({}, s, s))
    BY <1>9 DEF ApplyRemote
  <2>4. news = {} => calls = active
    OBVIOUS
  <2>5. from \subseteq peers => known \subseteq peers
    OBVIOUS
  <2>6. UNCHANGED floors
    BY <1>9 DEF ApplyRemote
  <2> HIDE DEF s, calls, known
  <2> QED BY <2>2, <2>3, <2>4, <2>5, <2>6, PlanOnTime
<1> QED BY <1>1, <1>2, <1>3, <1>4, <1>5, <1>6, <1>7, <1>8, <1>9 DEF Next, Own

LEMMA StutterOnTime == ASSUME OnTime, UNCHANGED vars PROVE OnTime'
BY DEF OnTime, Fit, Ahead, Claim, State, vars

LEMMA NInvariant == Spec => []NInv
<1>1. Init => NInv
  BY InitInv, InitOnTime DEF NInv
<1>2. NInv /\ [Next]_vars => NInv'
  BY StepGood, StutterGood, StepOnTime, StutterOnTime DEF NInv, Good
<1> QED BY <1>1, <1>2, PTL DEF Spec

(* NeverStuck: a car that is on time never passes its last call, whatever its *)
(* peers take over on the way (controller.go:111-162, assigner.go:36-56).     *)
THEOREM NeverStuck == Spec => []NotStuck
<1>1. NInv => NotStuck
  BY DEF NInv, OnTime, Fit, NotStuck, State
<1> QED BY <1>1, NInvariant, PTL

(* PositionKnown: the controller of a car that is on time is off by no more than *)
(* the floor whose event waits (controller.go:111-130, mock.go:85-89, 138-165).  *)
THEOREM PositionKnown == Spec => []AtMostOneOff
<1>1. NInv => AtMostOneOff
  BY DEF NInv, OnTime, AtMostOneOff
<1> QED BY <1>1, NInvariant, PTL

=============================================================================
