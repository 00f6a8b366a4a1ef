------------------------------ MODULE HeisNode ------------------------------
(***************************************************************************)
(* One elevator process of Heis_test with the hardware it drives: the      *)
(* event loop of main.go over the state machine of module Elevator, the    *)
(* door timer (timer/timer.go), the floor sensor and its poller            *)
(* (elevio/elevio.go), and the receiver of heartbeats                      *)
(* (network/peers/peers.go).                                               *)
(*                                                                         *)
(* The loop handles one event at a time; between it and the world are the  *)
(* channels, of which chFloor, chPeerUpdates and chStateRx matter here.    *)
(***************************************************************************)
EXTENDS HallAssigner, Sequences

CONSTANTS
  ID,          \* this elevator; IDs are numbers, ordered as the strings are
  Peers,       \* the IDs of the other elevators
  PeerCars,    \* what a peer's state message may say: [floor, dir, behaviour]
  MaxUpdates   \* bound: peer updates in their channel (of 8)

ASSUME IDAssumption == ID \in Nat /\ Peers \subseteq Nat /\ ID \notin Peers
ASSUME PeerCarsAssumption == PeerCars \subseteq [floor : Floors, dir : Directions, behaviour : Behaviours]
ASSUME UpdatesAssumption == MaxUpdates \in Nat

VARIABLES
  phase,       \* "init" until a floor is known, then "run"
  e,           \* the elevator
  timer,       \* door timer: "off", "running" or "expired"
  hall,        \* hallRequests, as the set of the hall buttons that are TRUE
  peerList,    \* the live peers (and this elevator, by its own heartbeats)
  peerStates,  \* the last state of each peer
  motor, door, \* as last commanded
  place,       \* where the car is: 2f at floor f, 2f + 1 between f and f + 1
  sensed,      \* prev of the floor poller
  floorCh,     \* chFloor
  seen,        \* the receiver's peerLastSeen
  updates,     \* chPeerUpdates
  stateRx      \* state messages received and not yet handled

carVars == <<motor, door, place, sensed, floorCh>>
netVars == <<seen, updates, stateRx>>
vars    == <<phase, e, timer, hall, peerList, peerStates, carVars, netVars>>

PeerState == [id : Peers, floor : Floors, dir : Directions, behaviour : Behaviours]
Update    == [peers : SUBSET (Peers \cup {ID}), lost : SUBSET (Peers \cup {ID})]
IDs(states) == {s.id : s \in states}

(* TypeOK: the shape of the state; the loop runs only once the floor is known. *)
TypeOK ==
  /\ phase \in {"init", "run"}
  /\ phase = "run" => e.floor \in Floors
  /\ e \in ElevatorState
  /\ timer \in {"off", "running", "expired"}
  /\ hall \subseteq HallButtons
  /\ peerList \subseteq Peers \cup {ID}
  /\ peerStates \subseteq PeerState /\ \A s, t \in peerStates : s.id = t.id => s = t
  /\ motor \in Directions /\ door \in BOOLEAN
  /\ place \in Int /\ sensed \in Floors \cup {-2} /\ floorCh \in Seq(Floors)
  /\ seen \subseteq Peers \cup {ID} /\ updates \in Seq(Update)
  /\ stateRx \subseteq PeerState

AtFloor(p) == p % 2 = 0
FloorOf(p) == p \div 2

(* The car stands at a floor, or between two: then it goes down to the next. *)
Init ==
  /\ place \in 0..(2 * NumFloors - 2)
  /\ IF AtFloor(place)
     THEN /\ phase = "run" /\ motor = Stop
          /\ e = [floor |-> FloorOf(place), dir |-> Stop, behaviour |-> "Idle",
                  requests |-> {}, obstructed |-> FALSE]
     ELSE /\ phase = "init" /\ motor = Down
          /\ e = [floor |-> -1, dir |-> Down, behaviour |-> "Moving",
                  requests |-> {}, obstructed |-> FALSE]
  /\ timer = "off" /\ door = FALSE
  /\ hall = {} /\ peerList = {} /\ peerStates = {}
  /\ sensed = -2 /\ floorCh = <<>>
  /\ seen = {} /\ updates = <<>> /\ stateRx = {}

-----------------------------------------------------------------------------
(* masterID: the first of the sorted peer list, or this elevator. *)
Master(list) == IF list = {} THEN ID ELSE CHOOSE i \in list : \A j \in list : i <= j

(* reassign: if there is an assignment for this elevator, its hall requests   *)
(* become that.  Assign has one only for the elevators in peerStates, and so  *)
(* never for this one.                                                        *)
Reassigned(el, h, states) ==
  IF ID \in IDs(states)
  THEN {[el EXCEPT !.requests = (@ \cap CabButtons) \cup own] : own \in AssignedTo(ID, h, states)}
  ELSE {el}

IfMaster(el, h, list, states) == IF Master(list) = ID THEN Reassigned(el, h, states) ELSE {el}

(* clearServedHall, after the stop at floor f has cleared e's own requests. *)
ClearServedHall(el, f, h) ==
  LET ahead == \E r \in el.requests : IF el.dir = Up THEN r[1] >= f ELSE r[1] <= f
  IN  IF el.dir = Stop \/ ~ahead THEN h \ {Hall(f, Up), Hall(f, Down)} ELSE h \ {Hall(f, el.dir)}

(* The handler takes over what the state machine returned. *)
Take(r) ==
  /\ motor' = r.motor
  /\ door' = r.door

-----------------------------------------------------------------------------
(* Mutant of InitFloor: the floor is not noted. *)
InitFloorUnset ==
  /\ phase = "init" /\ floorCh # <<>>
  /\ phase' = "run"
  /\ e' = [e EXCEPT !.dir = Stop, !.behaviour = "Idle"]
  /\ motor' = Stop
  /\ floorCh' = Tail(floorCh)
  /\ UNCHANGED <<timer, hall, peerList, peerStates, door, place, sensed, netVars>>

(* The first floor after a start between floors. *)
InitFloor ==
  /\ phase = "init" /\ floorCh # <<>>
  /\ phase' = "run"
  /\ e' = [e EXCEPT !.floor = Head(floorCh), !.dir = Stop, !.behaviour = "Idle"]
  /\ motor' = Stop
  /\ floorCh' = Tail(floorCh)
  /\ UNCHANGED <<timer, hall, peerList, peerStates, door, place, sensed, netVars>>

PressCab(f) ==
  /\ phase = "run"
  /\ LET r == OnRequestButtonPress(e, motor, door, Cab(f))
     IN  /\ e' = r.e
         /\ Take(r)
         /\ timer' = IF r.start THEN "running" ELSE timer
  /\ UNCHANGED <<phase, hall, peerList, peerStates, place, sensed, floorCh, netVars>>

PressHall(b) ==
  /\ phase = "run"
  /\ hall' = hall \cup {b}
  /\ e' \in IfMaster(e, hall', peerList, peerStates)
  /\ UNCHANGED <<phase, timer, peerList, peerStates, carVars, netVars>>

FloorArrival ==
  /\ phase = "run" /\ floorCh # <<>>
  /\ LET f == Head(floorCh)
         r == OnFloorArrival(e, motor, door, f)
     IN  /\ Take(r)
         /\ IF r.start
            THEN /\ timer' = "running"
                 /\ hall' = ClearServedHall(r.e, f, hall)
                 /\ e' \in IfMaster(r.e, hall', peerList, peerStates)
            ELSE e' = r.e /\ UNCHANGED <<timer, hall>>
  /\ floorCh' = Tail(floorCh)
  /\ UNCHANGED <<phase, peerList, peerStates, place, sensed, netVars>>

(* The obstruction switch; when it is released the open door's timer restarts. *)
Obstruction(on) ==
  /\ phase = "run"
  /\ e.obstructed # on
  /\ e' = [e EXCEPT !.obstructed = on]
  /\ timer' = IF ~on /\ e.behaviour = "DoorOpen" THEN "running" ELSE timer
  /\ UNCHANGED <<phase, hall, peerList, peerStates, carVars, netVars>>

(* The door ticker finds the timer expired. *)
DoorTimeout ==
  /\ phase = "run"
  /\ timer = "expired"
  /\ LET r == OnDoorTimeout(e, motor, door)
     IN  /\ e' = r.e
         /\ Take(r)
         /\ timer' = IF r.start THEN "running" ELSE "off"
  /\ UNCHANGED <<phase, hall, peerList, peerStates, place, sensed, floorCh, netVars>>

(* A peer update: the list is replaced, the states of lost peers are removed. *)
PeerUpdate ==
  /\ phase = "run" /\ updates # <<>>
  /\ peerList' = Head(updates).peers
  /\ peerStates' = {s \in peerStates : s.id \notin Head(updates).lost}
  /\ e' \in IfMaster(e, hall, peerList', peerStates')
  /\ updates' = Tail(updates)
  /\ UNCHANGED <<phase, timer, hall, carVars, seen, stateRx>>

(* A state message of another elevator (its own are skipped). *)
StateMsg(m) ==
  /\ phase = "run"
  /\ peerStates' = {s \in peerStates : s.id # m.id} \cup {m}
  /\ e' \in IfMaster(e, hall, peerList, peerStates')
  /\ stateRx' = stateRx \ {m}
  /\ UNCHANGED <<phase, timer, hall, peerList, carVars, seen, updates>>

(* A hall request message of another elevator: merged by OR. *)
HallMsg(h) ==
  /\ phase = "run"
  /\ hall' = hall \cup h
  /\ e' \in IF hall' # hall THEN IfMaster(e, hall', peerList, peerStates) ELSE {e}
  /\ UNCHANGED <<phase, timer, peerList, peerStates, carVars, netVars>>

-----------------------------------------------------------------------------
(* timer.TimedOut becomes true. *)
TimerExpires ==
  /\ timer = "running"
  /\ timer' = "expired"
  /\ UNCHANGED <<phase, e, hall, peerList, peerStates, carVars, netVars>>

(* PollFloorSensor sees a floor it did not see last. *)
PollFloorSensor ==
  /\ AtFloor(place)
  /\ FloorOf(place) # sensed
  /\ sensed' = FloorOf(place)
  /\ floorCh' = Append(floorCh, FloorOf(place))
  /\ UNCHANGED <<phase, e, timer, hall, peerList, peerStates, motor, door, place, netVars>>

(* The car moves.  It takes longer to leave a floor sensor than the poller   *)
(* (25 ms) and the loop take to handle the floor.                            *)
CarMoves ==
  /\ motor # Stop
  /\ AtFloor(place) => FloorOf(place) = sensed /\ floorCh = <<>>
  /\ place' = place + motor
  /\ UNCHANGED <<phase, e, timer, hall, peerList, peerStates, motor, door, sensed, floorCh, netVars>>

(* peers.Receiver: a heartbeat of somebody new, or of this elevator itself. *)
Heartbeat(i) ==
  /\ i \notin seen
  /\ Len(updates) < MaxUpdates
  /\ seen' = seen \cup {i}
  /\ updates' = Append(updates, [peers |-> seen', lost |-> {}])
  /\ UNCHANGED <<phase, e, timer, hall, peerList, peerStates, carVars, stateRx>>

(* peers.Receiver: the heartbeats of the elevators in lost have timed out. *)
PeerTimeout(lost) ==
  /\ lost # {}
  /\ Len(updates) < MaxUpdates
  /\ seen' = seen \ lost
  /\ updates' = Append(updates, [peers |-> seen', lost |-> lost])
  /\ UNCHANGED <<phase, e, timer, hall, peerList, peerStates, carVars, stateRx>>

(* A state message arrives, perhaps late: its sender may have been lost since. *)
StateArrives(i, c) ==
  /\ i \notin IDs(stateRx)
  /\ stateRx' = stateRx \cup {[id |-> i, floor |-> c.floor, dir |-> c.dir, behaviour |-> c.behaviour]}
  /\ UNCHANGED <<phase, e, timer, hall, peerList, peerStates, carVars, seen, updates>>

(* What happens when nobody presses a button or obstructs the door. *)
Unattended ==
  \/ InitFloor
  \/ FloorArrival
  \/ DoorTimeout
  \/ PeerUpdate
  \/ \E m \in stateRx : StateMsg(m)
  \/ \E h \in SUBSET HallButtons : Peers # {} /\ HallMsg(h)
  \/ TimerExpires
  \/ PollFloorSensor
  \/ CarMoves
  \/ \E i \in Peers \cup {ID} : Heartbeat(i)
  \/ \E lost \in SUBSET seen : PeerTimeout(lost)
  \/ \E i \in Peers, c \in PeerCars : StateArrives(i, c)

Next ==
  \/ Unattended
  \/ \E f \in Floors : PressCab(f)
  \/ \E b \in HallButtons : PressHall(b)
  \/ \E on \in BOOLEAN : Obstruction(on)

Spec == Init /\ [][Next]_vars

-----------------------------------------------------------------------------
(***************************************************************************)
(* DoorTimed: the door is open exactly while the timer runs or has expired *)
(* unhandled, so it never stays open for good (every handler that opens or *)
(* keeps open must have started the timer, every one that closes must not  *)
(* have), and the lamp shows it.                                           *)
(***************************************************************************)
DoorTimed ==
  phase = "run" =>
    /\ e.behaviour = "DoorOpen" <=> timer # "off"
    /\ e.behaviour = "DoorOpen" <=> door

(***************************************************************************)
(* MotorSafe: the motor runs exactly while the state machine is Moving, in *)
(* its direction, and so never with the door open.                         *)
(***************************************************************************)
MotorSafe ==
  /\ motor = Stop <=> e.behaviour # "Moving"
  /\ motor # Stop => motor = e.dir /\ ~door

(***************************************************************************)
(* InShaft: the car never drives past the lowest or the highest floor,     *)
(* from wherever it starts, in whatever order polls, floor events and      *)
(* buttons come: a moving car always has a request it has not reached.     *)
(***************************************************************************)
InShaft == place \in 0..(2 * NumFloors - 2)

(***************************************************************************)
(* DoorHeld: the door closes only when the timer has run out and nothing   *)
(* obstructs it ("Keep door open", elevator/fsm.go:53).                    *)
(***************************************************************************)
DoorHeld == [][door /\ ~door' => timer = "expired" /\ ~e.obstructed]_vars

(***************************************************************************)
(* CabKept: a cab call is cleared only with the door open at its floor and *)
(* a full door time to come (elevator/requests.go:101-121).                *)
(***************************************************************************)
CabKept ==
  [][\A f \in Floors : Cab(f) \in e.requests \ e'.requests =>
       door' /\ timer' = "running" /\ place = 2 * f /\ motor' = Stop]_vars

(***************************************************************************)
(* MasterAssigns: "We are master: assign immediately" (main.go:192).  A    *)
(* master that knows of no other elevator has taken every hall call itself.*)
(***************************************************************************)
MasterAssigns ==
  Master(peerList) = ID /\ peerStates = {} => hall \subseteq e.requests

-----------------------------------------------------------------------------
(***************************************************************************)
(* Fairness: the tickers tick, the poller polls, the loop takes what waits *)
(* in its channels, the timer runs out, a running motor moves the car.     *)
(***************************************************************************)
Fairness ==
  /\ WF_vars(InitFloor) /\ WF_vars(FloorArrival) /\ WF_vars(DoorTimeout)
  /\ WF_vars(TimerExpires) /\ WF_vars(PollFloorSensor) /\ WF_vars(CarMoves)
  /\ WF_vars(PeerUpdate)

FairSpec == Spec /\ Fairness

(* From some time on nobody presses and nothing obstructs the door. *)
Quiet == <>[][Unattended]_vars /\ <>[](~e.obstructed)

(***************************************************************************)
(* CabServed: every cab call is answered, once the buttons are left alone. *)
(***************************************************************************)
CabServed == Quiet => \A f \in Floors : []<>(Cab(f) \notin e.requests)
=============================================================================
