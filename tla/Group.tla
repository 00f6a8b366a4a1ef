------------------------------- MODULE Group -------------------------------
(***************************************************************************)
(* A group of new_heis elevators that serve a hall call together: the      *)
(* controller of each (module Controller) with its simulated car, the cell *)
(* of the call in its request table (module RequestTable), and the         *)
(* snapshots by which they learn of each other's calls and cars.           *)
(*                                                                         *)
(* There is one call, which may be pressed again and again anywhere; cab   *)
(* calls, obstructions, restarts and late cars are modules Car's and       *)
(* Gossip's.  A snapshot may be received as soon as it is sent, or it is   *)
(* on its way, in the network or in the channel of the receiver, and       *)
(* comes late, out of order, more than once or never.                      *)
(***************************************************************************)
EXTENDS Controller, Sequences, FiniteSets

CONSTANTS
  Nodes,       \* the elevators
  Called,      \* bound: the hall calls of which one is modelled
  MaxCounter,  \* bound: of each, its button is pressed while the counter of its cell is lower
  MaxLate      \* bound: snapshots on their way at one time

ASSUME NodesAssumption   == Nodes \subseteq Nat
ASSUME CalledAssumption  == Called \subseteq HallCalls
ASSUME BoundsAssumption  == MaxCounter \in [Nodes -> Nat] /\ MaxLate \in Nat

VARIABLES
  call,        \* the hall call: floor and direction
  car, ctl,    \* of each elevator, as in module Car
  peers,       \* of each: the soft states of its live peers
  motor, at,   \* of each driver: motor and floor
  floors,      \* of each driver: its channel of floor events
  cell,        \* the cell of the call in the table of each
  late         \* snapshots on their way; one that was received may be received again

vars == <<call, car, ctl, peers, motor, at, floors, cell, late>>

R == INSTANCE RequestTable WITH Elevators <- Nodes, HallDirs <- {Up, Down}

(* TypeOK: the shape of the state.  A car is only heard of by others, and its  *)
(* motor runs exactly while it counts as moving: no car whose call is taken    *)
(* over on the way reaches the end of the shaft, so none is ever stuck.        *)
TypeOK ==
  /\ call \in HallCalls
  /\ \A p \in late : p.car.id \in Nodes /\ p.car.floor \in Floors /\ p.cell \in R!Cell
  /\ \A n \in Nodes :
       /\ car[n] \in [id : {n}, floor : Floors, direction : Directions,
                      behavior : Behaviors \ {"stuck"}, doorOpen : BOOLEAN, obstruction : {FALSE}]
       /\ ctl[n] \in [ready : BOOLEAN, travelDir : Directions, doorDir : Directions,
                      doorOver : BOOLEAN, moveOver : {FALSE}]
       /\ \A p \in peers[n] : p.id \in Nodes \ {n} /\ p.floor \in Floors
       /\ motor[n] \in Directions
       /\ motor[n] # Stop <=> car[n].behavior = "moving"
       /\ at[n] \in Floors
       /\ floors[n] \in Seq(Floors) /\ Len(floors[n]) <= 1
       /\ cell[n] \in R!Cell

Init ==
  /\ call \in Called
  /\ at \in [Nodes -> Floors]
  /\ car = [n \in Nodes |-> [id |-> n, floor |-> at[n], direction |-> Stop, behavior |-> "idle",
                             doorOpen |-> FALSE, obstruction |-> FALSE]]
  /\ ctl = [n \in Nodes |-> [ready |-> FALSE, travelDir |-> Stop, doorDir |-> Stop,
                             doorOver |-> FALSE, moveOver |-> FALSE]]
  /\ peers = [n \in Nodes |-> {}]
  /\ motor = [n \in Nodes |-> Stop]
  /\ floors = [n \in Nodes |-> <<>>]
  /\ cell = [n \in Nodes |-> R!ZeroCell]
  /\ late = {}

-----------------------------------------------------------------------------
(* The calls active in a table that has c for the call. *)
ActiveIn(c) == IF c.active THEN {call} ELSE {}

(* What a handler of n works on, when it has merged c. *)
View(n, c) ==
  [car |-> car[n], ctl |-> ctl[n], active |-> ActiveIn(c), peers |-> peers[n], motor |-> motor[n]]

(* Controller.set by n on a cell that was c: nothing if it has that state already. *)
Written(n, c, active) ==
  IF c.active = active THEN c
  ELSE [active |-> active,
        version |-> [counter |-> c.version.counter + 1, writerID |-> n, bootID |-> 1]]

(* The end of a handler that started with c for the call. *)
Sync(n, c, s) ==
  /\ \E t \in {s} :
       /\ car' = [car EXCEPT ![n] = t.car]
       /\ ctl' = [ctl EXCEPT ![n] = t.ctl]
       /\ peers' = [peers EXCEPT ![n] = t.peers]
       /\ motor' = [motor EXCEPT ![n] = t.motor]
       /\ at' = [at EXCEPT ![n] = t.car.floor]
       /\ cell' = [cell EXCEPT ![n] = Written(n, c, call \in t.active)]
  /\ UNCHANGED <<call, late>>

(* Mutant of HandleTick: it does not wait for the end of the sync window. *)
HandleTickEarly(n, gone) ==
  /\ LET s == [View(n, cell[n]) EXCEPT !.peers = @ \ gone]
     IN  Sync(n, cell[n], TickStep(s, gone # {}))
  /\ UNCHANGED floors

(* HandleTick, which finds that the peers in gone have not been heard of for the *)
(* peer timeout.                                                                 *)
HandleTick(n, gone) ==
  /\ ctl[n].ready
  /\ LET s == [View(n, cell[n]) EXCEPT !.peers = @ \ gone]
     IN  Sync(n, cell[n], TickStep(s, gone # {}))
  /\ UNCHANGED floors

(* The sync window ends: EnableButtons, then a first HandleTick. *)
EndSync(n, gone) ==
  /\ ~ctl[n].ready
  /\ LET s == [View(n, cell[n]) EXCEPT !.ctl.ready = TRUE, !.peers = @ \ gone]
     IN  Sync(n, cell[n], TickStep(s, gone # {}))
  /\ UNCHANGED floors

HandleFloor(n) ==
  /\ ctl[n].ready
  /\ floors[n] # <<>>
  /\ Sync(n, cell[n], FloorStep(View(n, cell[n]), Head(floors[n])))
  /\ floors' = [floors EXCEPT ![n] = Tail(@)]

(* HandleButton: hall calls are for elevators with a peer. *)
HandleButton(n) ==
  /\ ctl[n].ready
  /\ peers[n] # {}
  /\ cell[n].version.counter < MaxCounter[n]
  /\ LET c == Written(n, cell[n], TRUE) IN Sync(n, c, Plan(View(n, c)))
  /\ UNCHANGED floors

(* What m tells of itself: the snapshot that Node.send sends. *)
Current(m) == [car |-> car[m], cell |-> cell[m]]

(* What may reach n: what another tells now, or told some time ago.  Of its own *)
(* snapshots it can learn nothing.                                              *)
Incoming(n) ==
  {p \in late : p.car.id # n} \cup {Current(m) : m \in Nodes \ {n}}

(* ApplyRemote of n for the snapshot p of another: plan if it changes anything. *)
ApplyRemote(n, p) ==
  LET c == R!MergeCell(cell[n], p.cell)
      known == {q \in peers[n] : q.id # p.car.id}
      s == [View(n, c) EXCEPT !.peers = known \cup {p.car}]
      changed == c # cell[n] \/ p.car \notin peers[n]
  IN  /\ Sync(n, c, IF changed THEN Plan(s) ELSE s)
      /\ UNCHANGED floors

(* Node.send of a snapshot that does not arrive at once. *)
Delay(m) ==
  /\ late' = late \cup {Current(m)}
  /\ Cardinality(late') <= MaxLate
  /\ UNCHANGED <<call, car, ctl, peers, motor, at, floors, cell>>

(* It was lost, or everybody has had it. *)
Lose(p) ==
  /\ late' = late \ {p}
  /\ UNCHANGED <<call, car, ctl, peers, motor, at, floors, cell>>

DoorDeadline(n) ==
  /\ car[n].behavior = "doorOpen"
  /\ ~ctl[n].doorOver
  /\ ctl' = [ctl EXCEPT ![n].doorOver = TRUE]
  /\ UNCHANGED <<call, car, peers, motor, at, floors, cell, late>>

(* Driver.step of a car that is on time: the last floor event has been handled. *)
DriverStep(n) ==
  /\ motor[n] # Stop
  /\ floors[n] = <<>>
  /\ IF at[n] + motor[n] \in Floors
     THEN /\ at' = [at EXCEPT ![n] = @ + motor[n]]
          /\ floors' = [floors EXCEPT ![n] = <<at[n] + motor[n]>>]
          /\ UNCHANGED motor
     ELSE /\ motor' = [motor EXCEPT ![n] = Stop]
          /\ UNCHANGED <<at, floors>>
  /\ UNCHANGED <<call, car, ctl, peers, cell, late>>

(* What goes on when nobody presses and everybody is heard of. *)
Serving ==
  \/ \E n \in Nodes :
       \/ EndSync(n, {})
       \/ HandleTick(n, {})
       \/ HandleFloor(n)
       \/ DoorDeadline(n)
       \/ DriverStep(n)
       \/ \E p \in Incoming(n) : ApplyRemote(n, p)
       \/ Delay(n)
  \/ \E p \in late : Lose(p)

Next ==
  \/ Serving
  \/ \E n \in Nodes :
       \/ HandleButton(n)
       \/ \E gone \in SUBSET peers[n] \ {{}} : EndSync(n, gone) \/ HandleTick(n, gone)

Spec == Init /\ [][Next]_vars

-----------------------------------------------------------------------------
(* What an elevator may hear of the others, and what a snapshot changes at once. *)
Reports(n) ==
  {p \in [id : Nodes \ {n}, floor : Floors, direction : Directions,
          behavior : Behaviors \ {"stuck"}, doorOpen : BOOLEAN, obstruction : {FALSE}] :
     p.doorOpen <=> p.behavior = "doorOpen"}
OneCall == {{}} \cup {{c} : c \in HallCalls}

(* Elevator n by itself: the others are what their snapshots say. *)
Elevator(n) == INSTANCE Car WITH
  ID <- n, Peers <- Reports(n), Old <- {}, News <- OneCall, MaxPending <- 1,
  car <- car[n], ctl <- ctl[n], active <- ActiveIn(cell[n]), old <- {}, peers <- peers[n],
  drv <- [floor |-> at[n], motor |-> motor[n], onTime |-> TRUE], floors <- floors[n]

(***************************************************************************)
(* EachIsACar: an elevator of a group does nothing but what module Car has *)
(* an elevator do among others of which it assumes nothing but the form of *)
(* what they report.  What is checked and proved of a Car therefore holds  *)
(* of every elevator of a group, and the others are all that Car assumes.  *)
(***************************************************************************)
EachIsACar ==
  /\ \A n \in Nodes : Elevator(n)!Init
  /\ [][\A n \in Nodes : UNCHANGED Elevator(n)!vars \/ Elevator(n)!Next]_vars

(* Whom n would have serve the call, from what it knows. *)
Choice(n) ==
  LET known == peers[n] \cup {car[n]}
  IN  {p.id : p \in {q \in known : Assigned(q, known, call[1], call[2])}}

(***************************************************************************)
(* OneTakesIt: whatever an elevator has heard of the others, it takes the  *)
(* call to be one elevator's: never two's, whose costs are the same, and   *)
(* never nobody's (assigner.go:27-38).                                     *)
(***************************************************************************)
OneTakesIt == \A n \in Nodes : \E m \in Nodes : Choice(n) = {m}

(* The newest word on the call, and whether it is that somebody waits. *)
Latest(n) == \A m \in Nodes : ~R!Newer(cell[m].version, cell[n].version)
Lit == \E n \in Nodes : Latest(n) /\ cell[n].active

(***************************************************************************)
(* HallClearedByDoor: a call that was pressed is not forgotten.  The       *)
(* newest word on it in the whole group turns from lit to cleared only     *)
(* with a car that stands at its floor with the door open in its           *)
(* direction, at the start of a full interval.  A snapshot that comes      *)
(* late, crosses another or comes twice never does it: an older clearing   *)
(* does not put out a newer press (controller.go:101-109, 372-391).        *)
(***************************************************************************)
HallClearedByDoor ==
  [][Lit /\ ~Lit' =>
       \E n \in Nodes :
         /\ cell'[n] # cell[n] /\ ~cell'[n].active
         /\ car'[n].doorOpen /\ ~ctl'[n].doorOver
         /\ call = <<car'[n].floor, ctl'[n].doorDir>>]_vars

(***************************************************************************)
(* Fairness: tickers, event loops, deadlines and motors as in module Car.  *)
(* A motor that is stopped before it reaches a floor starts all over again *)
(* (mock.go:68-75), so nothing more is assumed of it.                      *)
(***************************************************************************)
Fairness ==
  \A n \in Nodes :
    /\ WF_vars(EndSync(n, {})) /\ WF_vars(HandleTick(n, {})) /\ WF_vars(HandleFloor(n))
    /\ WF_vars(DoorDeadline(n)) /\ WF_vars(DriverStep(n))

FairSpec == Spec /\ Fairness

(* n knows what m would tell it now. *)
UpToDate(n, m) == R!MergeCell(cell[n], cell[m]) = cell[n] /\ car[m] \in peers[n]

(* Of the snapshots that each sends every 150 ms enough reach the others: no *)
(* news is withheld for ever.                                                *)
InTouch == \A n \in Nodes : \A m \in Nodes \ {n} : []<>UpToDate(n, m)

(***************************************************************************)
(* SomeoneTakesIt: a call is never left by every elevator to the others.   *)
(* Each decides by itself, from what it last heard of the others, and yet  *)
(* the cars do not all stand idle for ever while the call is lit anywhere, *)
(* whatever old snapshots keep coming and whoever is given up in between.  *)
(***************************************************************************)
SomeoneTakesIt ==
  InTouch => []<>((\A n \in Nodes : ~cell[n].active) \/ (\E n \in Nodes : car[n].behavior # "idle"))

(***************************************************************************)
(* AloneServes: an elevator that has lost the others serves the hall calls *)
(* it knows, those included that it had left to a car it no longer hears:  *)
(* "While a node has no live peers: already-known active requests continue *)
(* to be served" (new_heis/README.md:74-76).                               *)
(***************************************************************************)
AloneServes == \A n \in Nodes : <>[](peers[n] = {}) => <>[](~cell[n].active)

(* Nor does anybody press or give another up any more. *)
Settled == InTouch /\ <>[][Serving]_vars

(***************************************************************************)
(* SameConclusion: when each elevator computes the distribution by itself, *)
(* it is necessary that "all elevators that calculate the redistribution   *)
(* eventually come to the same conclusion" (README.md:183 of the cost      *)
(* functions in Project-resources-master 2).                               *)
(***************************************************************************)
SameConclusion ==
  Settled => <>[](\A n, m \in Nodes : cell[n].active /\ cell[m].active => Choice(n) = Choice(m))
=============================================================================
