--------------------------------- MODULE Car ---------------------------------
(***************************************************************************)
(* One elevator of new_heis: the controller and the simulated hardware it  *)
(* drives (internal/controller/controller.go, internal/driver/mock/mock.go,*)
(* and the event loop of cmd/elevator/main.go).                            *)
(*                                                                         *)
(* The controller is one thread that runs one handler at a time, to its    *)
(* end; the driver is another, which moves the car and queues floor        *)
(* events.  Between the two there is the queue, so a handler may run on a  *)
(* floor the car has already left.                                         *)
(*                                                                         *)
(* The other elevators are what their snapshots say: where their cars are, *)
(* and the calls they set or clear in the table.  Versions are module      *)
(* Gossip's: here a snapshot just changes which calls are active.  The     *)
(* lamps are left out: sync sets them from the table and the car whenever  *)
(* a handler has changed either.                                           *)
(***************************************************************************)
EXTENDS Controller, Sequences

CONSTANTS
  ID,          \* this elevator
  Peers,       \* the soft states a peer may report; {} for an elevator on its own
  Old,         \* the cab calls of which an earlier run has left copies to others
  News,        \* bound: the sets of calls that a snapshot changes at once
  MaxPending   \* capacity of the channel of floor events (64)

ASSUME IDAssumption == ID \in Nat
ASSUME NewsAssumption == News \subseteq SUBSET Calls
ASSUME PendingAssumption == MaxPending \in Nat \ {0}
ASSUME OldAssumption == Old \subseteq CabCalls
ASSUME PeersAssumption == Peers \subseteq Soft /\ \A p \in Peers : p.id # ID

VARIABLES
  car,     \* SoftState (id, floor, direction, behavior) with door and obstruction
  ctl,     \* Controller: ready, travelDir, doorDir, and the two deadlines
  active,  \* the calls active in Controller.reqs
  old,     \* the cab calls of Old that this run has not written
  peers,   \* the last soft state of every live peer
  drv,     \* mock.Driver: floor and motor; onTime: how long a floor takes
  floors   \* Driver.floors, the channel of floor events

vars == <<car, ctl, active, old, peers, drv, floors>>

(***************************************************************************)
(* Deadlines are kept as what the handlers ask of them: has the door       *)
(* deadline passed, has the car been moving for longer than the timeout.   *)
(* The travel time of the driver (--travel-time) is given at its start: on *)
(* time, a floor takes less than the stuck timeout and more than the loop  *)
(* takes to come to the floor event; otherwise neither need be so.         *)
(***************************************************************************)
TypeOK ==
  /\ car \in [id : {ID}, floor : Floors, direction : Directions, behavior : Behaviors,
              doorOpen : BOOLEAN, obstruction : BOOLEAN]
  /\ ctl \in [ready : BOOLEAN, travelDir : Directions, doorDir : Directions,
              doorOver : BOOLEAN, moveOver : BOOLEAN]
  /\ active \subseteq Calls /\ old \subseteq Old
  /\ peers \in SUBSET Peers
  /\ drv \in [floor : Floors, motor : Directions, onTime : BOOLEAN]
  /\ floors \in Seq(Floors)

Init ==
  /\ \E f \in Floors, onTime \in BOOLEAN :
       /\ car = [id |-> ID, floor |-> f, direction |-> Stop, behavior |-> "idle",
                 doorOpen |-> FALSE, obstruction |-> FALSE]
       /\ drv = [floor |-> f, motor |-> Stop, onTime |-> onTime]
  /\ ctl = [ready |-> FALSE, travelDir |-> Stop, doorDir |-> Stop,
            doorOver |-> FALSE, moveOver |-> FALSE]
  /\ active = {}
  /\ old = Old
  /\ peers = {}
  /\ floors = <<>>

-----------------------------------------------------------------------------
(* What a handler works on. *)
State == [car |-> car, ctl |-> ctl, active |-> active, peers |-> peers, motor |-> drv.motor]

(* The end of a handler that has pressed the calls of set (Controller.set does *)
(* not write a cell that has that state already), then began with s and leaves *)
(* t: sync.  The simulated car stands wherever the floor indicator is set.     *)
Sync(set, s, t) ==
  /\ car' = t.car
  /\ ctl' = t.ctl
  /\ active' = t.active
  /\ old' = old \ ((set \ active) \cup (s.active \ t.active))
  /\ peers' = t.peers
  /\ drv' = [floor |-> t.car.floor, motor |-> t.motor, onTime |-> drv.onTime]

(* HandleTick, every 50 ms; any of the peers may have timed out. *)
HandleTick ==
  /\ ctl.ready
  /\ \E gone \in SUBSET peers :
       LET s == [State EXCEPT !.peers = @ \ gone] IN Sync({}, s, TickStep(s, gone # {}))
  /\ UNCHANGED floors

(* The sync window ends: EnableButtons, then a first HandleTick. *)
EndSync ==
  /\ ~ctl.ready
  /\ \E gone \in SUBSET peers :
       LET s == [State EXCEPT !.ctl.ready = TRUE, !.peers = @ \ gone]
       IN  Sync({}, s, TickStep(s, gone # {}))
  /\ UNCHANGED floors

HandleButton(c) ==
  /\ ctl.ready
  /\ c \in CabCalls \/ peers # {}
  /\ LET s == [State EXCEPT !.active = @ \cup {c}] IN Sync({c}, s, Plan(s))
  /\ UNCHANGED floors

HandleObstruction(on) ==
  /\ ctl.ready
  /\ Sync({}, State, ObstructionStep(State, on))
  /\ UNCHANGED floors

(* HandleFloor, for the oldest event in the channel. *)
HandleFloor ==
  /\ ctl.ready
  /\ floors # <<>>
  /\ Sync({}, State, FloorStep(State, Head(floors)))
  /\ floors' = Tail(floors)

(***************************************************************************)
(* ApplyRemote for a snapshot that flips the calls in news, either way:    *)
(* hall calls, and the cab calls an earlier run of this process had, as    *)
(* long as this run has not written them (what CabCall promises, which     *)
(* module Gossip implements).  It comes from the peer in from, or, from    *)
(* being empty, is an old one of this elevator, which is not observed.     *)
(* Cells that are not modelled here (cab calls of others, versions) may    *)
(* change too and are reason enough to plan.                               *)
(***************************************************************************)
ApplyRemote(from, news) ==
  /\ news \cap CabCalls \subseteq old
  /\ LET heard == {p.id : p \in from}
         merged == [State EXCEPT !.active = (@ \ news) \cup (news \ @)]
         s == [merged EXCEPT !.peers = {q \in @ : q.id \notin heard} \cup from]
     IN  \/ Sync({}, s, Plan(s))
         \/ news = {} /\ from \subseteq peers /\ Sync({}, s, s)
  /\ UNCHANGED floors

(* The door deadline passes. *)
DoorDeadline ==
  /\ car.behavior = "doorOpen"
  /\ ~ctl.doorOver
  /\ ctl' = [ctl EXCEPT !.doorOver = TRUE]
  /\ UNCHANGED <<car, active, old, peers, drv, floors>>

(* The stuck timeout passes since the last floor or departure: the car is not *)
(* moving, or it is not on time.                                              *)
MoveDeadline ==
  /\ car.behavior = "moving"
  /\ ~ctl.moveOver
  /\ ~drv.onTime \/ (drv.motor = Stop /\ floors = <<>>)
  /\ ctl' = [ctl EXCEPT !.moveOver = TRUE]
  /\ UNCHANGED <<car, active, old, peers, drv, floors>>

(* When a car that is on time comes to a floor, the last floor event has been taken. *)
Prompt == drv.onTime => floors = <<>>

(* The channel when floor f has been sent to it: a full one drops the event. *)
Sent(f) == IF Len(floors) < MaxPending THEN Append(floors, f) ELSE floors

(* Mutant of DriverStep: no end of the shaft. *)
DriverStepOn ==
  /\ drv.motor # Stop
  /\ Prompt
  /\ drv' = [drv EXCEPT !.floor = @ + drv.motor]
  /\ floors' = Sent(drv.floor + drv.motor)
  /\ UNCHANGED <<car, ctl, active, old, peers>>

(* Mutant of DriverStep: a floor event that is lost. *)
DriverStepSilent ==
  /\ drv.motor # Stop
  /\ IF drv.floor + drv.motor \in Floors
     THEN Prompt /\ drv' = [drv EXCEPT !.floor = @ + drv.motor]
     ELSE drv' = [drv EXCEPT !.motor = Stop]
  /\ UNCHANGED <<car, ctl, active, old, peers, floors>>

(* Driver.step: the car reaches the next floor, or stops at the end of the shaft. *)
DriverStep ==
  /\ drv.motor # Stop
  /\ IF drv.floor + drv.motor \in Floors
     THEN /\ Prompt
          /\ drv' = [drv EXCEPT !.floor = @ + drv.motor]
          /\ floors' = Sent(drv.floor + drv.motor)
     ELSE /\ drv' = [drv EXCEPT !.motor = Stop]
          /\ UNCHANGED floors
  /\ UNCHANGED <<car, ctl, active, old, peers>>

(* What the elevator does when nobody presses, obstructs or sends. *)
Own ==
  \/ EndSync
  \/ HandleTick
  \/ HandleFloor
  \/ DoorDeadline
  \/ MoveDeadline
  \/ DriverStep

Next ==
  \/ Own
  \/ \E c \in Calls : HandleButton(c)
  \/ \E on \in BOOLEAN : HandleObstruction(on)
  \/ \E from \in {{}} \cup {{p} : p \in Peers}, news \in News : ApplyRemote(from, news)

Spec == Init /\ [][Next]_vars

-----------------------------------------------------------------------------
(***************************************************************************)
(* MotorSafe: the motor never runs with the door open or against the       *)
(* controller's own idea of where the car is going, in whatever order      *)
(* floor events, ticks and snapshots are handled.                          *)
(***************************************************************************)
MotorSafe ==
  /\ drv.motor # Stop => car.behavior = "moving" /\ car.direction = drv.motor
  /\ car.doorOpen <=> car.behavior = "doorOpen"

(***************************************************************************)
(* NotStuck: a car that is on time is never declared stuck.  The           *)
(* assignment of a call can turn to a peer just because this car started   *)
(* for it; the car must still never pass its last call and run into the    *)
(* end of the shaft, where no floor event comes any more and "stuck" is    *)
(* for ever.                                                               *)
(***************************************************************************)
NotStuck == drv.onTime => car.behavior # "stuck"

(***************************************************************************)
(* AtMostOneOff: the controller of a car that is on time is never off by   *)
(* more than the floor whose event waits, although every sync puts the     *)
(* simulated car back to where the controller takes it to be; with no      *)
(* event waiting the two agree.                                            *)
(***************************************************************************)
AtMostOneOff ==
  drv.onTime =>
    \/ floors = <<>> /\ drv.floor = car.floor
    \/ \E g \in {car.floor - 1, car.floor + 1} : floors = <<g>> /\ drv.floor \in {g, car.floor}

(***************************************************************************)
(* DoorInterval: an interval of the open door (one hall direction, or the  *)
(* cab only) ends, by closing or by going over to the opposite direction,  *)
(* only after its full time and with no obstruction: "clears one           *)
(* direction, keeps the door open for another exact 3-second interval, and *)
(* then clears the opposite" (new_heis/README.md:68).                      *)
(***************************************************************************)
DoorInterval ==
  [][/\ car.doorOpen
     /\ ~car'.doorOpen \/ ctl'.doorDir # ctl.doorDir \/ (ctl.doorOver /\ ~ctl'.doorOver)
     => ctl.doorOver /\ ~car'.obstruction]_vars

(***************************************************************************)
(* CabClearedByDoor: no cab call this run has written is dropped, whatever *)
(* snapshots arrive; it is cleared by the door opening, or starting        *)
(* another interval, at its floor.                                         *)
(***************************************************************************)
CabClearedByDoor ==
  [][\A c \in active \ active' :
       c \in CabCalls \ old' => car'.doorOpen /\ ~ctl'.doorOver /\ c[1] = car'.floor]_vars

-----------------------------------------------------------------------------
(***************************************************************************)
(* Fairness: the ticker runs, the event loop takes what is in its channels *)
(* (Go's select is fair between them), the deadlines pass and the motor    *)
(* moves the car.  Buttons, obstructions and snapshots come as they like.  *)
(***************************************************************************)
Fairness ==
  /\ WF_vars(EndSync) /\ WF_vars(HandleTick) /\ WF_vars(HandleFloor)
  /\ WF_vars(DoorDeadline) /\ WF_vars(MoveDeadline) /\ WF_vars(DriverStep)

FairSpec == Spec /\ Fairness

(* From some time on nobody presses or obstructs, and no peer is heard. *)
Quiet == <>[][Own]_vars /\ <>[](~car.obstruction /\ peers = {})

(***************************************************************************)
(* KnownCallsServed: "While a node has no live peers: already-known active *)
(* requests continue to be served" (new_heis/README.md:74-76).             *)
(***************************************************************************)
KnownCallsServed == Quiet /\ drv.onTime => \A c \in Calls : []<>(c \notin active)

(* CabCallsServed: the same for an elevator that has only ever had cab calls. *)
CabCallsServed == Quiet /\ drv.onTime => \A c \in CabCalls : []<>(c \notin active)
=============================================================================
