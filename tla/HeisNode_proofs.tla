--------------------------- MODULE HeisNode_proofs ---------------------------
(***************************************************************************)
(* Proofs about one process of Heis_test (module HeisNode), for any number *)
(* of floors, any peers with any states, and any bound: the type           *)
(* invariant, the door and its timer, the motor, the end of the shaft, and *)
(* what may close the door or clear a cab call.                            *)
(*                                                                         *)
(* That the car stays in the shaft takes all of it at once: the car moves  *)
(* only towards a request it has not yet reached, is never further than    *)
(* one floor from the floor last handled, and nothing takes the request    *)
(* away on the way: reassign changes nothing as long as Assign has no row  *)
(* for the elevator itself (NoOwnRow).                                     *)
(***************************************************************************)
EXTENDS HeisNode, TLAPS

(* The floor event that waits is of the floor the car stands at, as sensed. *)
EventInv ==
  floorCh # <<>> => AtFloor(place) /\ floorCh = <<FloorOf(place)>> /\ sensed = FloorOf(place)

(* Before the first floor is known: the car goes down to it. *)
InitPhaseInv ==
  phase = "init" =>
    /\ motor = Down /\ e.dir = Down /\ e.behaviour = "Moving" /\ e.requests = {}
    /\ ~door /\ timer = "off"
    /\ floorCh = <<>> => sensed = -2

(* What the state machine has still to do, and that it is at it. *)
Busy(el) ==
  /\ el.behaviour = "Idle" => el.requests = {} /\ el.dir = Stop
  /\ el.behaviour = "DoorOpen" => Cab(el.floor) \notin el.requests
  /\ el.behaviour = "Moving" => el.dir # Stop /\ RequestsBeyond(el, el.dir)

RequestInv == e.requests \subseteq CabButtons /\ (phase = "run" => Busy(e))

(* Where the car is: at the floor last handled, or on its way to the next. *)
PlaceInv ==
  phase = "run" =>
    /\ motor = Stop => place = 2 * e.floor
    /\ motor # Stop =>
         \/ place = 2 * e.floor
         \/ place = 2 * e.floor + motor /\ floorCh = <<>> /\ sensed = e.floor
         \/ place = 2 * e.floor + 2 * motor /\ (floorCh = <<>> => sensed # FloorOf(place))

Inv ==
  /\ TypeOK /\ DoorTimed /\ MotorSafe /\ InShaft
  /\ EventInv /\ InitPhaseInv /\ RequestInv /\ PlaceInv

-----------------------------------------------------------------------------
LEMMA HalfOf == ASSUME NEW g \in Int PROVE AtFloor(2 * g) /\ FloorOf(2 * g) = g
BY DEF AtFloor, FloorOf

LEMMA FloorIs ==
  ASSUME NEW p \in Int, AtFloor(p) PROVE p = 2 * FloorOf(p) /\ FloorOf(p) \in Int
BY DEF AtFloor, FloorOf

LEMMA OddIsNot == ASSUME NEW g \in Int, NEW d \in {Up, Down} PROVE ~AtFloor(2 * g + d)
BY DEF AtFloor, Up, Down

LEMMA ButtonTypes == CabButtons \subseteq Buttons /\ \A f \in Floors : Cab(f) \in CabButtons
BY DEF Buttons, CabButtons

LEMMA CabButton == ASSUME NEW b \in CabButtons PROVE b = Cab(b[1]) /\ b[1] \in Floors
BY DEF CabButtons, Cab

LEMMA CabIsNotHall == \A f, g, d : Cab(f) # Hall(g, d)
BY DEF Cab, Hall

(* An elevator with cab calls only. *)
CabsOnly == {el \in ElevatorState : el.requests \subseteq CabButtons /\ el.floor \in Floors}

(* Of cab calls, ClearAtCurrentFloor clears exactly that of the floor. *)
LEMMA ClearsOne ==
  ASSUME NEW el \in CabsOnly
  PROVE  ClearAtCurrentFloor(el) = [el EXCEPT !.requests = @ \ {Cab(el.floor)}]
<1>1. \A r \in el.requests : \A g, d : r # Hall(g, d)
  BY CabButton, CabIsNotHall DEF CabsOnly
<1> DEFINE cleared == IF el.dir = Stop THEN {Hall(el.floor, Up), Hall(el.floor, Down)}
                      ELSE IF ~RequestsBeyond(el, el.dir) /\ Hall(el.floor, el.dir) \notin el.requests
                      THEN {Hall(el.floor, el.dir), Hall(el.floor, -el.dir)}
                      ELSE {Hall(el.floor, el.dir)}
<1>2. \A r \in el.requests : r \notin cleared
  BY <1>1
<1>3. ClearAtCurrentFloor(el) = [el EXCEPT !.requests = @ \ ({Cab(el.floor)} \cup cleared)]
  BY DEF ClearAtCurrentFloor
<1> HIDE DEF cleared
<1>4. el.requests \ ({Cab(el.floor)} \cup cleared) = el.requests \ {Cab(el.floor)}
  BY <1>2
<1> QED BY <1>3, <1>4

(* Without a call here, ChooseDirection sends the car towards one, or to rest for want of any. *)
LEMMA Chooses ==
  ASSUME NEW el \in CabsOnly, Cab(el.floor) \notin el.requests
  PROVE  LET next == ChooseDirection(el)
         IN  \/ /\ next.behaviour = "Moving" /\ next.dir \in {Up, Down}
                /\ RequestsBeyond(el, next.dir)
             \/ next.behaviour = "Idle" /\ next.dir = Stop /\ el.requests = {}
<1>0. \A r \in el.requests : r = Cab(r[1]) /\ r[1] \in Floors
  BY CabButton DEF CabsOnly
<1>1. ~RequestsHere(el)
  BY <1>0 DEF RequestsHere
<1>2. el.requests # {} => RequestsBeyond(el, Up) \/ RequestsBeyond(el, Down)
  BY <1>0, <1>1 DEF RequestsBeyond, RequestsHere, CabsOnly, Floors, Up, Down
<1>3. el \in ElevatorState
  BY DEF CabsOnly
<1>4. el.dir \in Directions
  BY <1>3 DEF ElevatorState
<1> QED BY <1>1, <1>2, <1>4 DEF Directions, ChooseDirection, Up, Down, Stop

(* Assign has no row for the elevator itself: no reassignment changes it. *)
LEMMA NoOwnRow ==
  ASSUME NEW states \in SUBSET PeerState, NEW el, NEW h, NEW list
  PROVE  IfMaster(el, h, list, states) = {el}
BY IDAssumption DEF IfMaster, Reassigned, IDs, PeerState

-----------------------------------------------------------------------------
(* A step that takes the elevator and its hardware from a good state to a good one. *)
Good ==
  /\ Inv'
  /\ door /\ ~door' => timer = "expired" /\ ~e.obstructed
  /\ \A f \in Floors : Cab(f) \in e.requests \ e'.requests =>
       door' /\ timer' = "running" /\ place = 2 * f /\ motor' = Stop

LEMMA Cabs == ASSUME Inv, phase = "run" PROVE e \in CabsOnly /\ Busy(e)
BY DEF Inv, TypeOK, RequestInv, CabsOnly

(* What changes neither the car nor what it has to do. *)
LEMMA SameCarGood ==
  ASSUME Inv, TypeOK', UNCHANGED <<phase, e, timer, carVars>>
  PROVE  Good
BY DEF Inv, Good, DoorTimed, MotorSafe, InShaft, EventInv, InitPhaseInv, RequestInv, PlaceInv,
       carVars

(* What TypeOK says of all but the phase, the elevator and the motor. *)
Rest ==
  /\ timer \in {"off", "running", "expired"}
  /\ hall \subseteq HallButtons
  /\ peerList \subseteq Peers \cup {ID}
  /\ peerStates \subseteq PeerState /\ \A s, t \in peerStates : s.id = t.id => s = t
  /\ door \in BOOLEAN
  /\ sensed \in Floors \cup {-2} /\ floorCh \in Seq(Floors)
  /\ seen \subseteq Peers \cup {ID} /\ updates \in Seq(Update)
  /\ stateRx \subseteq PeerState

LEMMA RestOfInit == Init => Rest
<1> SUFFICES ASSUME Init PROVE Rest
  OBVIOUS
<1>1. /\ timer = "off" /\ door = FALSE /\ hall = {} /\ peerList = {} /\ peerStates = {}
      /\ sensed = -2 /\ floorCh = <<>> /\ seen = {} /\ updates = <<>> /\ stateRx = {}
  BY DEF Init
<1>2. <<>> \in Seq(Floors) /\ <<>> \in Seq(Update)
  OBVIOUS
<1>3. floorCh \in Seq(Floors) /\ updates \in Seq(Update)
  BY <1>1, <1>2
<1> QED BY <1>1, <1>3 DEF Rest

LEMMA InitInv == Init => Inv
<1> SUFFICES ASSUME Init PROVE Inv
  OBVIOUS
<1>1. NumFloors \in Nat /\ NumFloors > 1
  BY NumFloorsAssumption
<1>2. place \in Int /\ place >= 0 /\ place <= 2 * NumFloors - 2
  BY <1>1 DEF Init
<1>3. CASE AtFloor(place)
  <2>1. /\ FloorOf(place) \in Floors /\ place = 2 * FloorOf(place)
    BY <1>1, <1>2, <1>3 DEF AtFloor, FloorOf, Floors
  <2>2. /\ phase = "run" /\ motor = Stop
        /\ e = [floor |-> FloorOf(place), dir |-> Stop, behaviour |-> "Idle",
                requests |-> {}, obstructed |-> FALSE]
    BY <1>3 DEF Init
  <2>3. e \in ElevatorState /\ e.floor \in Floors
    BY <2>1, <2>2 DEF ElevatorState, Directions, Behaviours
  <2>4. TypeOK
    <3>1. motor \in Directions /\ place \in Int
      BY <1>2, <2>2 DEF Directions
    <3> QED BY <2>2, <2>3, <3>1, RestOfInit DEF TypeOK, Rest
  <2> QED BY <1>2, <2>1, <2>2, <2>4 DEF Init, Inv, DoorTimed, MotorSafe, InShaft, EventInv,
                                        InitPhaseInv, RequestInv, Busy, PlaceInv
<1>4. CASE ~AtFloor(place)
  <2>1. /\ phase = "init" /\ motor = Down
        /\ e = [floor |-> -1, dir |-> Down, behaviour |-> "Moving",
                requests |-> {}, obstructed |-> FALSE]
    BY <1>4 DEF Init
  <2>2. e \in ElevatorState
    BY <2>1 DEF ElevatorState, Directions, Behaviours
  <2>3. TypeOK
    <3>1. motor \in Directions /\ place \in Int
      BY <1>2, <2>1 DEF Directions
    <3> QED BY <2>1, <2>2, <3>1, RestOfInit DEF TypeOK, Rest
  <2> QED BY <1>2, <2>1, <2>3 DEF Init, Inv, DoorTimed, MotorSafe, InShaft, EventInv,
                                  InitPhaseInv, RequestInv, PlaceInv, Up, Stop, Down
<1> QED BY <1>3, <1>4

LEMMA InitFloorGood == ASSUME Inv, InitFloor PROVE Good
<1> DEFINE g == FloorOf(place)
<1>1. /\ TypeOK /\ phase = "init" /\ phase' = "run" /\ AtFloor(place) /\ floorCh = <<g>>
      /\ ~door /\ timer = "off" /\ e.requests = {} /\ e.behaviour = "Moving"
  BY DEF Inv, InitFloor, EventInv, InitPhaseInv
<1>2. g \in Floors /\ Head(floorCh) = g /\ floorCh' = <<>>
  BY <1>1 DEF InitFloor, TypeOK
<1>3. place = 2 * g
  BY <1>1, FloorIs DEF TypeOK
<1>4. e' = [e EXCEPT !.floor = g, !.dir = Stop, !.behaviour = "Idle"]
  BY <1>2 DEF InitFloor
<1> HIDE DEF g
<1>5. /\ e' \in ElevatorState /\ e'.floor = g /\ e'.dir = Stop /\ e'.behaviour = "Idle"
      /\ e'.requests = {}
  BY <1>1, <1>2, <1>4 DEF TypeOK, ElevatorState, Directions, Behaviours
<1>6. UNCHANGED <<timer, hall, peerList, peerStates, door, place, sensed, netVars>> /\ motor' = Stop
  BY DEF InitFloor
<1>7. TypeOK'
  BY <1>1, <1>2, <1>5, <1>6 DEF TypeOK, Directions, netVars
<1> QED BY <1>1, <1>2, <1>3, <1>5, <1>6, <1>7
        DEF Inv, Good, DoorTimed, MotorSafe, InShaft, EventInv, InitPhaseInv, RequestInv, Busy, PlaceInv

(* A handler that takes the car where it stands or drives from el to another state. *)
LEMMA HandlerGood ==
  ASSUME Inv, phase = "run",
         UNCHANGED <<phase, hall, peerList, peerStates, place, sensed, floorCh, netVars>>,
         e' \in CabsOnly, e'.floor = e.floor, Busy(e'),
         motor' = IF e'.behaviour = "Moving" THEN e'.dir ELSE Stop,
         motor # Stop => motor' = motor,
         door' = (e'.behaviour = "DoorOpen"),
         timer' \in {"off", "running", "expired"}, e'.behaviour = "DoorOpen" <=> timer' # "off",
         door /\ ~door' => timer = "expired" /\ ~e.obstructed,
         \A f \in Floors : Cab(f) \in e.requests \ e'.requests =>
           f = e.floor /\ door' /\ timer' = "running" /\ motor = Stop
  PROVE  Good
<1>1. e' \in ElevatorState /\ e'.floor \in Floors /\ e'.requests \subseteq CabButtons
  BY DEF CabsOnly
<1>2. e'.dir \in Directions /\ motor' \in Directions /\ door' \in BOOLEAN
  BY <1>1 DEF ElevatorState, Directions
<1>3. TypeOK'
  BY <1>1, <1>2 DEF Inv, TypeOK, netVars
<1>4. DoorTimed' /\ InShaft'
  BY DEF Inv, DoorTimed, InShaft
<1>5. MotorSafe'
  BY <1>2 DEF MotorSafe, Busy
<1>6. EventInv' /\ InitPhaseInv' /\ RequestInv'
  BY <1>1 DEF Inv, EventInv, InitPhaseInv, RequestInv
<1>7. PlaceInv'
  BY <1>1 DEF Inv, PlaceInv
<1>8. \A f \in Floors : Cab(f) \in e.requests \ e'.requests =>
        door' /\ timer' = "running" /\ place = 2 * f /\ motor' = Stop
  <2>1. door' => motor' = Stop
    OBVIOUS
  <2>2. motor = Stop => place = 2 * e.floor
    BY DEF Inv, PlaceInv
  <2> QED BY <2>1, <2>2
<1> QED BY <1>3, <1>4, <1>5, <1>6, <1>7, <1>8 DEF Inv, Good

LEMMA PressCabGood == ASSUME Inv, NEW f \in Floors, PressCab(f) PROVE Good
<1> DEFINE pressed == [e EXCEPT !.requests = @ \cup {Cab(f)}]
           next == ChooseDirection(pressed)
<1>1. phase = "run" /\ e \in CabsOnly /\ Busy(e)
  BY Cabs DEF PressCab
<1>2. e \in ElevatorState /\ e.floor \in Floors /\ e.requests \subseteq CabButtons
  BY <1>1 DEF CabsOnly
<1>3. Cab(f) \in CabButtons /\ Cab(f) \in Buttons /\ Cab(f)[1] = f
  BY ButtonTypes DEF Cab
<1>4. /\ pressed \in ElevatorState /\ pressed.floor = e.floor /\ pressed.dir = e.dir
      /\ pressed.behaviour = e.behaviour /\ pressed.requests = e.requests \cup {Cab(f)}
  BY <1>2, <1>3 DEF ElevatorState
<1>5. pressed \in CabsOnly
  BY <1>2, <1>3, <1>4 DEF CabsOnly
<1>6. UNCHANGED <<phase, hall, peerList, peerStates, place, sensed, floorCh, netVars>>
  BY DEF PressCab
<1>7. /\ motor = Stop <=> e.behaviour # "Moving"
      /\ e.behaviour = "DoorOpen" <=> timer # "off"
      /\ door = (e.behaviour = "DoorOpen")
      /\ motor # Stop => motor = e.dir
      /\ timer \in {"off", "running", "expired"}
  BY <1>1 DEF Inv, MotorSafe, DoorTimed, TypeOK
<1>8. e.behaviour \in {"Idle", "DoorOpen", "Moving"}
  BY <1>2 DEF ElevatorState, Behaviours
<1> HIDE DEF pressed
<1>a. CASE e.behaviour \in {"DoorOpen", "Idle"} /\ f = e.floor
  <2>1. ClearAtCurrentFloor(pressed) = [pressed EXCEPT !.requests = @ \ {Cab(e.floor)}]
    BY <1>4, <1>5, ClearsOne
  <2>2. /\ e' = [ClearAtCurrentFloor(pressed) EXCEPT !.behaviour = "DoorOpen"]
        /\ motor' = motor /\ door' = TRUE /\ timer' = "running"
    BY <1>3, <1>a DEF PressCab, OnRequestButtonPress, Result, Take, pressed
  <2>3. e' = [[pressed EXCEPT !.requests = @ \ {Cab(e.floor)}] EXCEPT !.behaviour = "DoorOpen"]
    BY <2>1, <2>2
  <2>4. /\ e' \in ElevatorState /\ e'.floor = e.floor /\ e'.behaviour = "DoorOpen"
        /\ e'.requests = pressed.requests \ {Cab(e.floor)}
    BY <1>4, <2>3 DEF ElevatorState, Behaviours
  <2>5. e' \in CabsOnly /\ Busy(e')
    BY <1>2, <1>3, <1>4, <2>4 DEF CabsOnly, Busy
  <2>6. \A g \in Floors : Cab(g) \in e.requests \ e'.requests => g = e.floor
    BY <1>4, <2>4 DEF Cab
  <2> QED BY <1>1, <1>6, <1>7, <1>a, <2>2, <2>4, <2>5, <2>6, HandlerGood
<1>b. CASE e.behaviour = "Idle" /\ f # e.floor
  <2>1. e.requests = {} /\ pressed.requests = {Cab(f)} /\ motor = Stop
    BY <1>1, <1>4, <1>7, <1>b DEF Busy
  <2>2. Cab(pressed.floor) \notin pressed.requests
    BY <2>1, <1>4, <1>b DEF Cab
  <2>3. /\ next.behaviour = "Moving" /\ next.dir \in {Up, Down}
        /\ RequestsBeyond(pressed, next.dir)
    BY <1>5, <2>1, <2>2, Chooses
  <2>4. /\ e' = [pressed EXCEPT !.dir = next.dir, !.behaviour = next.behaviour]
        /\ motor' = next.dir /\ door' = door /\ timer' = timer
    BY <1>3, <1>b, <2>3 DEF PressCab, OnRequestButtonPress, Result, Take, pressed
  <2> HIDE DEF next
  <2>5. /\ e' \in ElevatorState /\ e'.floor = e.floor /\ e'.behaviour = "Moving"
        /\ e'.dir = next.dir /\ e'.requests = pressed.requests
    BY <1>4, <2>3, <2>4 DEF ElevatorState, Behaviours, Directions
  <2>6. e' \in CabsOnly
    BY <1>2, <1>5, <2>5 DEF CabsOnly
  <2>7. RequestsBeyond(e', e'.dir)
    BY <1>4, <2>3, <2>5 DEF RequestsBeyond
  <2>8. Busy(e')
    BY <2>3, <2>5, <2>7 DEF Busy, Up, Down, Stop
  <2> QED BY <1>1, <1>6, <1>7, <1>b, <2>1, <2>4, <2>5, <2>6, <2>8, HandlerGood
<1>c. CASE ~(e.behaviour \in {"DoorOpen", "Idle"} /\ f = e.floor) /\ e.behaviour # "Idle"
  <2>1. e' = pressed /\ motor' = motor /\ door' = door /\ timer' = timer
    BY <1>3, <1>c DEF PressCab, OnRequestButtonPress, Result, Take, pressed
  <2>2. RequestsBeyond(e, e.dir) => RequestsBeyond(e', e'.dir)
    BY <1>4, <2>1 DEF RequestsBeyond
  <2>3. e.behaviour = "DoorOpen" => Cab(e.floor) # Cab(f)
    BY <1>c DEF Cab
  <2>4. Busy(e')
    BY <1>1, <1>4, <1>c, <2>1, <2>2, <2>3 DEF Busy
  <2> QED BY <1>1, <1>4, <1>5, <1>6, <1>7, <1>8, <1>c, <2>1, <2>4, HandlerGood
<1> QED BY <1>a, <1>b, <1>c

LEMMA DoorTimeoutGood == ASSUME Inv, DoorTimeout PROVE Good
<1> DEFINE next == ChooseDirection(e)
           turned == [e EXCEPT !.dir = next.dir, !.behaviour = next.behaviour]
<1>1. phase = "run" /\ timer = "expired" /\ e \in CabsOnly /\ Busy(e)
  BY Cabs DEF DoorTimeout
<1>2. e \in ElevatorState /\ e.floor \in Floors /\ e.requests \subseteq CabButtons
  BY <1>1 DEF CabsOnly
<1>3. e.behaviour = "DoorOpen" /\ door = TRUE /\ motor = Stop
  BY <1>1 DEF Inv, DoorTimed, MotorSafe, TypeOK
<1>4. UNCHANGED <<phase, hall, peerList, peerStates, place, sensed, floorCh, netVars>>
  BY DEF DoorTimeout
<1>a. CASE e.obstructed
  <2>1. e' = e /\ motor' = motor /\ door' = door /\ timer' = "running"
    BY <1>a DEF DoorTimeout, OnDoorTimeout, Result, Take
  <2> QED BY <1>1, <1>3, <1>4, <2>1, HandlerGood
<1>b. CASE ~e.obstructed
  <2>1. Cab(e.floor) \notin e.requests
    BY <1>1, <1>3 DEF Busy
  <2>2. \/ /\ next.behaviour = "Moving" /\ next.dir \in {Up, Down}
           /\ RequestsBeyond(e, next.dir)
        \/ next.behaviour = "Idle" /\ next.dir = Stop /\ e.requests = {}
    BY <1>1, <2>1, Chooses
  <2>3. e' = turned /\ motor' = next.dir /\ door' = FALSE /\ timer' = "off"
    BY <1>3, <1>b, <2>2 DEF DoorTimeout, OnDoorTimeout, Result, Take
  <2> HIDE DEF next
  <2>4. /\ e' \in ElevatorState /\ e'.floor = e.floor /\ e'.behaviour = next.behaviour
        /\ e'.dir = next.dir /\ e'.requests = e.requests
    BY <1>2, <2>2, <2>3 DEF ElevatorState, Behaviours, Directions
  <2>5. e' \in CabsOnly
    BY <1>2, <2>4 DEF CabsOnly
  <2>6. RequestsBeyond(e, next.dir) => RequestsBeyond(e', e'.dir)
    BY <2>4 DEF RequestsBeyond
  <2>7. Busy(e')
    BY <2>2, <2>4, <2>6 DEF Busy, Up, Down, Stop
  <2> QED BY <1>1, <1>3, <1>4, <1>b, <2>2, <2>3, <2>4, <2>5, <2>7, HandlerGood
<1> QED BY <1>a, <1>b

LEMMA FloorArrivalGood == ASSUME Inv, FloorArrival PROVE Good
<1> DEFINE f == Head(floorCh)
           here == [e EXCEPT !.floor = f]
           r == OnFloorArrival(e, motor, door, f)
<1>1. phase = "run" /\ e \in CabsOnly /\ Busy(e) /\ TypeOK
  BY Cabs DEF FloorArrival, Inv
<1>2. e \in ElevatorState /\ e.floor \in Floors /\ e.requests \subseteq CabButtons
  BY <1>1 DEF CabsOnly
<1>3. AtFloor(place) /\ floorCh = <<FloorOf(place)>> /\ floorCh \in Seq(Floors)
  BY DEF FloorArrival, Inv, EventInv, TypeOK
<1>4. f = FloorOf(place) /\ f \in Floors /\ floorCh' = <<>>
  BY <1>3 DEF FloorArrival
<1>5. place = 2 * f /\ place \in Int
  BY <1>1, <1>3, <1>4, FloorIs DEF TypeOK
<1>6. UNCHANGED <<phase, peerList, peerStates, place, sensed, netVars>>
  BY DEF FloorArrival
<1> HIDE DEF f
<1>7. /\ here \in ElevatorState /\ here.floor = f /\ here.dir = e.dir
      /\ here.behaviour = e.behaviour /\ here.requests = e.requests
  BY <1>2, <1>4 DEF ElevatorState
<1>8. here \in CabsOnly
  BY <1>2, <1>4, <1>7 DEF CabsOnly
<1>9. e' = r.e
  <2>1. CASE r.start
    <3>1. e' \in IfMaster(r.e, hall', peerList, peerStates)
      BY <2>1 DEF FloorArrival, f
    <3> QED BY <1>1, <3>1, NoOwnRow DEF TypeOK
  <2>2. CASE ~r.start
    BY <2>2 DEF FloorArrival, f
  <2> QED BY <2>1, <2>2
<1>10. /\ motor' = r.motor /\ door' = r.door
       /\ timer' = (IF r.start THEN "running" ELSE timer) /\ hall' \subseteq hall
  BY DEF FloorArrival, Take, ClearServedHall, f
<1>a. CASE e.behaviour = "Moving" /\ ShouldStop(here)
  <2>1. r = Result([ClearAtCurrentFloor(here) EXCEPT !.behaviour = "DoorOpen"], Stop, TRUE, TRUE)
    BY <1>a DEF OnFloorArrival
  <2> HIDE DEF r
  <2>2. /\ e' = [ClearAtCurrentFloor(here) EXCEPT !.behaviour = "DoorOpen"]
        /\ motor' = Stop /\ door' = TRUE /\ timer' = "running"
    BY <1>9, <1>10, <2>1 DEF Result
  <2>3. ClearAtCurrentFloor(here) = [here EXCEPT !.requests = @ \ {Cab(f)}]
    BY <1>7, <1>8, ClearsOne
  <2> HIDE DEF here
  <2>4. e' = [[here EXCEPT !.requests = @ \ {Cab(f)}] EXCEPT !.behaviour = "DoorOpen"]
    BY <2>2, <2>3
  <2>5. /\ e' \in ElevatorState /\ e'.floor = f /\ e'.behaviour = "DoorOpen"
        /\ e'.requests = e.requests \ {Cab(f)}
    BY <1>7, <2>4 DEF ElevatorState, Behaviours
  <2>6. TypeOK'
    <3>1. /\ motor' \in Directions /\ door' \in BOOLEAN /\ timer' \in {"off", "running", "expired"}
          /\ e'.floor \in Floors /\ floorCh' \in Seq(Floors)
      BY <1>4, <2>2, <2>5 DEF Directions
    <3> QED BY <1>1, <1>6, <1>10, <2>5, <3>1 DEF TypeOK, netVars
  <2>7. \A g \in Floors : Cab(g) \in e.requests \ e'.requests => g = f
    BY <2>5 DEF Cab
  <2>8. RequestInv'
    BY <1>2, <2>5 DEF RequestInv, Busy
  <2> QED BY <1>1, <1>4, <1>5, <1>6, <2>2, <2>5, <2>6, <2>7, <2>8
          DEF Inv, Good, DoorTimed, MotorSafe, InShaft, EventInv, InitPhaseInv, PlaceInv
<1>b. CASE e.behaviour = "Moving" /\ ~ShouldStop(here)
  <2>1. r = Result(here, motor, door, FALSE)
    BY <1>b DEF OnFloorArrival
  <2> HIDE DEF r
  <2>2. e' = here /\ motor' = motor /\ door' = door /\ timer' = timer
    BY <1>9, <1>10, <2>1 DEF Result
  <2>3. here.dir # Stop /\ RequestsBeyond(here, here.dir)
    BY <1>b DEF ShouldStop
  <2> HIDE DEF here
  <2>4. Busy(e')
    BY <1>b, <1>7, <2>2, <2>3 DEF Busy
  <2>5. TypeOK'
    BY <1>1, <1>4, <1>6, <1>7, <1>10, <2>2 DEF TypeOK, netVars
  <2> QED BY <1>1, <1>2, <1>4, <1>5, <1>6, <1>7, <2>2, <2>4, <2>5
          DEF Inv, Good, DoorTimed, MotorSafe, InShaft, EventInv, InitPhaseInv, RequestInv, PlaceInv
<1>c. CASE e.behaviour # "Moving"
  <2>1. r = Result(here, motor, door, FALSE)
    BY <1>c DEF OnFloorArrival
  <2> HIDE DEF r
  <2>2. e' = here /\ motor' = motor /\ door' = door /\ timer' = timer
    BY <1>9, <1>10, <2>1 DEF Result
  <2>3. motor = Stop /\ place = 2 * e.floor
    BY <1>1, <1>c DEF Inv, MotorSafe, PlaceInv
  <2>4. f = e.floor
    <3>1. f \in Int /\ e.floor \in Int
      BY <1>2, <1>4, NumFloorsAssumption DEF Floors
    <3> HIDE DEF here
    <3> QED BY <1>5, <2>3, <3>1
  <2> HIDE DEF here
  <2>5. Busy(e')
    BY <1>1, <1>c, <1>7, <2>2, <2>4 DEF Busy
  <2>6. TypeOK'
    BY <1>1, <1>4, <1>6, <1>7, <1>10, <2>2 DEF TypeOK, netVars
  <2> QED BY <1>1, <1>2, <1>4, <1>5, <1>6, <1>7, <2>2, <2>3, <2>5, <2>6
          DEF Inv, Good, DoorTimed, MotorSafe, InShaft, EventInv, InitPhaseInv, RequestInv, PlaceInv
<1> QED BY <1>a, <1>b, <1>c

LEMMA PollGood == ASSUME Inv, PollFloorSensor PROVE Good
<1> DEFINE g == FloorOf(place)
<1>1. TypeOK /\ AtFloor(place) /\ g # sensed /\ sensed' = g /\ place \in Int
  BY DEF Inv, PollFloorSensor, TypeOK
<1>2. floorCh = <<>>
  BY <1>1 DEF Inv, EventInv
<1>3. floorCh' = <<g>> /\ floorCh' # <<>>
  BY <1>2 DEF PollFloorSensor
<1>4. UNCHANGED <<phase, e, timer, hall, peerList, peerStates, motor, door, place, netVars>>
  BY DEF PollFloorSensor
<1>5. place = 2 * g /\ g \in Int
  BY <1>1, FloorIs
<1>6. g \in Floors
  BY <1>5, NumFloorsAssumption DEF Inv, InShaft, Floors
<1>7. TypeOK'
  BY <1>1, <1>3, <1>4, <1>6 DEF TypeOK, netVars
<1>8. EventInv'
  BY <1>1, <1>3, <1>4 DEF EventInv
<1>9. PlaceInv'
  <2>1. SUFFICES ASSUME phase = "run", motor # Stop,
                        place = 2 * e.floor + motor
                 PROVE FALSE
    BY <1>3, <1>4 DEF Inv, PlaceInv
  <2>2. motor \in {Up, Down} /\ e.floor \in Int
    BY <1>1, <2>1 DEF TypeOK, Directions, Floors
  <2> QED BY <1>1, <2>1, <2>2, OddIsNot
<1> HIDE DEF g
<1> QED BY <1>3, <1>4, <1>7, <1>8, <1>9
        DEF Inv, Good, DoorTimed, MotorSafe, InShaft, InitPhaseInv, RequestInv

LEMMA CarMovesGood == ASSUME Inv, CarMoves PROVE Good
<1>1. TypeOK /\ motor \in {Up, Down} /\ place \in Int /\ place' = place + motor
  BY DEF Inv, CarMoves, TypeOK, Directions
<1>2. floorCh = <<>> /\ (AtFloor(place) => FloorOf(place) = sensed)
  BY DEF Inv, EventInv, CarMoves
<1>3. UNCHANGED <<phase, e, timer, hall, peerList, peerStates, motor, door, sensed, floorCh, netVars>>
  BY DEF CarMoves
<1>4. NumFloors \in Nat /\ place >= 0 /\ place <= 2 * NumFloors - 2
  BY NumFloorsAssumption DEF Inv, InShaft
<1>5. TypeOK'
  BY <1>1, <1>3 DEF TypeOK, netVars, Up, Down
<1>a. CASE phase = "init"
  <2>1. motor = Down /\ sensed = -2
    BY <1>2, <1>a DEF Inv, InitPhaseInv
  <2>2. place # 0
    <3>1. SUFFICES ASSUME place = 0 PROVE FALSE
      OBVIOUS
    <3>2. AtFloor(2 * 0) /\ FloorOf(2 * 0) = 0
      BY HalfOf
    <3> QED BY <1>2, <2>1, <3>1, <3>2
  <2>3. InShaft'
    BY <1>1, <1>4, <2>1, <2>2, <1>3 DEF InShaft, Down
  <2> QED BY <1>2, <1>3, <1>5, <1>a, <2>3
          DEF Inv, Good, DoorTimed, MotorSafe, EventInv, InitPhaseInv, RequestInv, PlaceInv
<1>b. CASE phase = "run"
  <2> DEFINE g == e.floor
  <2>1. g \in Floors /\ g \in Int /\ g >= 0 /\ g <= NumFloors - 1
    BY <1>1, <1>4, <1>b DEF TypeOK, Floors
  <2>2. e.behaviour = "Moving" /\ motor = e.dir /\ RequestsBeyond(e, motor)
    BY <1>b DEF Inv, MotorSafe, RequestInv, Busy, CarMoves, TypeOK
  <2>3. PICK r \in e.requests : IF motor = Up THEN r[1] > g ELSE r[1] < g
    BY <2>2 DEF RequestsBeyond
  <2>4. r[1] \in Floors
    BY CabButton DEF Inv, RequestInv
  <2>5. motor = Up => g <= NumFloors - 2
    BY <1>4, <2>1, <2>3, <2>4 DEF Floors
  <2>6. motor = Down => g >= 1
    BY <1>4, <2>1, <2>3, <2>4 DEF Floors, Up, Down
  <2>7. \/ place = 2 * g
        \/ place = 2 * g + motor /\ sensed = g
        \/ place = 2 * g + 2 * motor /\ sensed # FloorOf(place)
    BY <1>2, <1>b DEF Inv, PlaceInv, CarMoves
  <2>8. ~(place = 2 * g + 2 * motor /\ sensed # FloorOf(place))
    <3>1. SUFFICES ASSUME place = 2 * (g + motor) PROVE AtFloor(place)
      BY <1>1, <1>2, <2>1 DEF Up, Down
    <3>2. g + motor \in Int
      BY <1>1, <2>1 DEF Up, Down
    <3> QED BY <3>1, <3>2, HalfOf
  <2>c. CASE place = 2 * g
    <3>1. sensed = g
      BY <1>2, <2>1, <2>c, HalfOf
    <3>2. place' = 2 * g + motor
      BY <1>1, <2>c
    <3>3. place' \in 0..(2 * NumFloors - 2)
      BY <1>1, <1>4, <2>1, <2>5, <2>6, <3>2 DEF Up, Down
    <3>4. PlaceInv'
      BY <1>2, <1>3, <3>1, <3>2 DEF PlaceInv, CarMoves
    <3> QED BY <1>2, <1>3, <1>5, <1>b, <3>3, <3>4
            DEF Inv, Good, DoorTimed, MotorSafe, InShaft, EventInv, InitPhaseInv, RequestInv
  <2>d. CASE place = 2 * g + motor /\ sensed = g
    <3>1. place' = 2 * g + 2 * motor
      BY <1>1, <2>1, <2>d DEF Up, Down
    <3>2. place' = 2 * (g + motor) /\ g + motor \in Int
      BY <1>1, <2>1, <3>1 DEF Up, Down
    <3>3. FloorOf(place') = g + motor
      BY <3>2, HalfOf
    <3>4. sensed # FloorOf(place')
      BY <1>1, <2>1, <2>d, <3>3 DEF Up, Down
    <3>5. place' \in 0..(2 * NumFloors - 2)
      BY <1>1, <1>4, <2>1, <2>5, <2>6, <3>1 DEF Up, Down
    <3>6. PlaceInv'
      BY <1>3, <3>1, <3>4 DEF PlaceInv, CarMoves, FloorOf
    <3> QED BY <1>2, <1>3, <1>5, <1>b, <3>5, <3>6
            DEF Inv, Good, DoorTimed, MotorSafe, InShaft, EventInv, InitPhaseInv, RequestInv
  <2> QED BY <2>7, <2>8, <2>c, <2>d
<1> QED BY <1>1, <1>a, <1>b DEF TypeOK

(* The rest of the steps do not touch the car: what the network brings, a hall *)
(* call, the switch, the timer.                                                *)
LEMMA PressHallGood == ASSUME Inv, NEW b \in HallButtons, PressHall(b) PROVE Good
<1>1. e' = e
  BY NoOwnRow DEF Inv, TypeOK, PressHall
<1> QED BY <1>1, SameCarGood DEF Inv, TypeOK, PressHall, carVars, netVars

LEMMA HallMsgGood == ASSUME Inv, NEW h \in SUBSET HallButtons, HallMsg(h) PROVE Good
<1>1. e' = e
  BY NoOwnRow DEF Inv, TypeOK, HallMsg
<1> QED BY <1>1, SameCarGood DEF Inv, TypeOK, HallMsg, carVars, netVars

LEMMA PeerUpdateGood == ASSUME Inv, PeerUpdate PROVE Good
<1>1. TypeOK /\ updates \in Seq(Update) /\ updates # <<>>
  BY DEF Inv, TypeOK, PeerUpdate
<1>2. Head(updates) \in Update /\ updates' \in Seq(Update)
  BY <1>1 DEF PeerUpdate
<1>3. peerList' \subseteq Peers \cup {ID}
  BY <1>2 DEF PeerUpdate, Update
<1>4. peerStates' \subseteq peerStates
  BY DEF PeerUpdate
<1>5. e' = e
  BY <1>1, <1>4, NoOwnRow DEF TypeOK, PeerUpdate
<1>6. UNCHANGED <<phase, timer, hall, carVars, seen, stateRx>>
  BY DEF PeerUpdate
<1>7. TypeOK'
  BY <1>1, <1>2, <1>3, <1>4, <1>5, <1>6 DEF TypeOK, carVars
<1> QED BY <1>5, <1>6, <1>7, SameCarGood

LEMMA StateMsgGood == ASSUME Inv, NEW m \in stateRx, StateMsg(m) PROVE Good
<1>1. TypeOK /\ m \in PeerState
  BY DEF Inv, TypeOK
<1>2. peerStates' = {s \in peerStates : s.id # m.id} \cup {m} /\ stateRx' \subseteq stateRx
  BY DEF StateMsg
<1>3. peerStates' \in SUBSET PeerState /\ \A s, t \in peerStates' : s.id = t.id => s = t
  BY <1>1, <1>2 DEF TypeOK
<1>4. e' = e
  BY <1>3, NoOwnRow DEF StateMsg
<1>5. UNCHANGED <<phase, timer, hall, peerList, carVars, seen, updates>>
  BY DEF StateMsg
<1>6. TypeOK'
  BY <1>1, <1>2, <1>3, <1>4, <1>5 DEF TypeOK, carVars
<1> QED BY <1>4, <1>5, <1>6, SameCarGood

LEMMA HeartbeatGood == ASSUME Inv, NEW i \in Peers \cup {ID}, Heartbeat(i) PROVE Good
<1>1. TypeOK /\ seen' \subseteq Peers \cup {ID}
  BY DEF Inv, TypeOK, Heartbeat
<1>2. [peers |-> seen', lost |-> {}] \in Update
  BY <1>1 DEF Update
<1>3. updates' \in Seq(Update)
  BY <1>1, <1>2 DEF Heartbeat, TypeOK
<1>4. UNCHANGED <<phase, e, timer, hall, peerList, peerStates, carVars, stateRx>>
  BY DEF Heartbeat
<1>5. TypeOK'
  BY <1>1, <1>3, <1>4 DEF TypeOK, carVars
<1> QED BY <1>4, <1>5, SameCarGood

LEMMA PeerTimeoutGood == ASSUME Inv, NEW lost \in SUBSET seen, PeerTimeout(lost) PROVE Good
<1>1. TypeOK /\ seen' \subseteq Peers \cup {ID} /\ lost \subseteq Peers \cup {ID}
  BY DEF Inv, TypeOK, PeerTimeout
<1>2. [peers |-> seen', lost |-> lost] \in Update
  BY <1>1 DEF Update
<1>3. updates' \in Seq(Update)
  BY <1>1, <1>2 DEF PeerTimeout, TypeOK
<1>4. UNCHANGED <<phase, e, timer, hall, peerList, peerStates, carVars, stateRx>>
  BY DEF PeerTimeout
<1>5. TypeOK'
  BY <1>1, <1>3, <1>4 DEF TypeOK, carVars
<1> QED BY <1>4, <1>5, SameCarGood

LEMMA StateArrivesGood ==
  ASSUME Inv, NEW i \in Peers, NEW c \in PeerCars, StateArrives(i, c) PROVE Good
<1>1. TypeOK /\ c \in [floor : Floors, dir : Directions, behaviour : Behaviours]
  BY PeerCarsAssumption DEF Inv
<1>2. [id |-> i, floor |-> c.floor, dir |-> c.dir, behaviour |-> c.behaviour] \in PeerState
  BY <1>1 DEF PeerState
<1>3. stateRx' \subseteq PeerState
  BY <1>1, <1>2 DEF StateArrives, TypeOK
<1>4. UNCHANGED <<phase, e, timer, hall, peerList, peerStates, carVars, seen, updates>>
  BY DEF StateArrives
<1>5. TypeOK'
  BY <1>1, <1>3, <1>4 DEF TypeOK, carVars
<1> QED BY <1>4, <1>5, SameCarGood

LEMMA TimerExpiresGood == ASSUME Inv, TimerExpires PROVE Good
<1>1. TypeOK'
  BY DEF Inv, TypeOK, TimerExpires, carVars, netVars
<1> QED BY <1>1 DEF Inv, Good, DoorTimed, MotorSafe, InShaft, EventInv, InitPhaseInv, RequestInv,
                    PlaceInv, TimerExpires, carVars

LEMMA ObstructionGood == ASSUME Inv, NEW on \in BOOLEAN, Obstruction(on) PROVE Good
<1>1. TypeOK /\ phase = "run" /\ e \in ElevatorState
  BY DEF Inv, TypeOK, Obstruction
<1>2. /\ e' \in ElevatorState /\ e'.floor = e.floor /\ e'.dir = e.dir
      /\ e'.behaviour = e.behaviour /\ e'.requests = e.requests
  BY <1>1 DEF Obstruction, ElevatorState
<1>3. UNCHANGED <<phase, hall, peerList, peerStates, carVars, netVars>>
  BY DEF Obstruction
<1>4. /\ timer' \in {"off", "running", "expired"}
      /\ timer' # timer => e.behaviour = "DoorOpen" /\ timer' = "running"
  BY <1>1 DEF Obstruction, TypeOK
<1>5. TypeOK'
  BY <1>1, <1>2, <1>3, <1>4 DEF TypeOK, carVars, netVars
<1>6. DoorTimed'
  BY <1>1, <1>2, <1>3, <1>4 DEF Inv, DoorTimed, carVars
<1>7. RequestInv'
  <2>1. Busy(e) => Busy(e')
    BY <1>2 DEF Busy, RequestsBeyond
  <2> QED BY <1>1, <1>2, <2>1 DEF Inv, RequestInv
<1> QED BY <1>1, <1>2, <1>3, <1>5, <1>6, <1>7
        DEF Inv, Good, MotorSafe, InShaft, EventInv, InitPhaseInv, PlaceInv, carVars

-----------------------------------------------------------------------------
LEMMA StepGood == Inv /\ [Next]_vars => Good
<1> SUFFICES ASSUME Inv, [Next]_vars PROVE Good
  OBVIOUS
<1>1. CASE Unattended
  BY <1>1, InitFloorGood, FloorArrivalGood, DoorTimeoutGood, PeerUpdateGood, StateMsgGood, HallMsgGood,
     TimerExpiresGood, PollGood, CarMovesGood, HeartbeatGood, PeerTimeoutGood, StateArrivesGood
     DEF Unattended
<1>2. CASE \E f \in Floors : PressCab(f)
  BY <1>2, PressCabGood
<1>3. CASE \E b \in HallButtons : PressHall(b)
  BY <1>3, PressHallGood
<1>4. CASE \E on \in BOOLEAN : Obstruction(on)
  BY <1>4, ObstructionGood
<1>5. CASE UNCHANGED vars
  <2>1. TypeOK'
    BY <1>5 DEF Inv, TypeOK, vars, carVars, netVars
  <2> QED BY <1>5, <2>1, SameCarGood DEF vars
<1> QED BY <1>1, <1>2, <1>3, <1>4, <1>5 DEF Next

(* The inductive invariant holds of every reachable state of the process. *)
THEOREM Invariant == Spec => []Inv
<1>1. Inv /\ [Next]_vars => Inv'
  BY StepGood DEF Good
<1> QED BY InitInv, <1>1, PTL DEF Spec

(* Every reachable state of the process has the types of TypeOK. *)
THEOREM TypeCorrect == Spec => []TypeOK
<1>1. Inv => TypeOK
  BY DEF Inv
<1> QED BY Invariant, <1>1, PTL

(* The door is open exactly while its timer has still to run out or be handled. *)
THEOREM DoorIsTimed == Spec => []DoorTimed
<1>1. Inv => DoorTimed
  BY DEF Inv
<1> QED BY Invariant, <1>1, PTL

(* The motor runs exactly while the state machine is Moving, never with the door open. *)
THEOREM MotorFollows == Spec => []MotorSafe
<1>1. Inv => MotorSafe
  BY DEF Inv
<1> QED BY Invariant, <1>1, PTL

(* InShaft: from wherever it starts, under every order of polls, floor events, *)
(* buttons and door time-outs, the car never leaves the shaft.                 *)
THEOREM StaysInShaft == Spec => []InShaft
<1>1. Inv => InShaft
  BY DEF Inv
<1> QED BY Invariant, <1>1, PTL

(* The door closes only when the timer has run out and nothing obstructs it. *)
THEOREM DoorStaysOpen == Spec => DoorHeld
<1>1. Inv /\ [Next]_vars => [door /\ ~door' => timer = "expired" /\ ~e.obstructed]_vars
  BY StepGood DEF Good
<1> QED BY Invariant, <1>1, PTL DEF Spec, DoorHeld

(* A cab call is cleared only with the car at its floor and a full door time to come. *)
THEOREM CabsKept == Spec => CabKept
<1>1. Inv /\ [Next]_vars =>
        [\A f \in Floors : Cab(f) \in e.requests \ e'.requests =>
           door' /\ timer' = "running" /\ place = 2 * f /\ motor' = Stop]_vars
  BY StepGood DEF Good
<1> QED BY Invariant, <1>1, PTL DEF Spec, CabKept

=============================================================================
