# A TLA+ model of the two elevator systems of Heis_test

The repository holds two programs that each drive one elevator of a group and
cooperate over UDP broadcast:

- **Heis_test** (`main.go` and the packages beside it): an event loop over a
  small state machine, hall calls in a table that is merged by OR, a *master*
  (the lowest id) that assigns hall calls.
- **new_heis** (`Annen_heis/new_heis`): every elevator keeps a replicated table
  of all calls, versioned cell by cell, gossips full snapshots, and computes
  the same assignment from it; its hardware is a simulated car.

This directory models the core logic of both, checks it with TLC and proves
every safety property that holds with TLAPS. File names below are
relative to the root of the repository; `new_heis/` stands for
`Annen_heis/new_heis/`.

## 1. Inventory

| Component | State it keeps | Operations | What is hard |
|---|---|---|---|
| new_heis request table (`internal/model/types.go`, `internal/cluster/merge.go`) | map from call to (active, version), Lamport clock | `Set`, `MergeRequests`, `CompareVersion`, `Clock.Next/Observe/Seed` | merges in any order must give one result; clocks restart from 0 |
| new_heis gossip (`internal/cluster/node.go`, `tracker.go`, `cmd/elevator/main.go`) | last local snapshot, live peers, start-up phase | send every 150 ms, receive, observe and expire peers, sync window | loss, delay, duplication, own packets looped back, crash with no disk |
| new_heis controller (`internal/controller/controller.go`) | car, travel and door direction, two deadlines, table | `HandleButton`, `HandleFloor`, `HandleTick`, `HandleObstruction`, `ApplyRemote`, each with `plan`, `open`, `doorStep`, `sync` | handlers run on a floor the car has left; the assignment changes under a moving car |
| new_heis assigner (`internal/assigner`) | none | `Assign`, `cost` | cost depends on motion, so an assignment can flip when a car starts |
| new_heis mock driver (`internal/driver/mock/mock.go`) | floor, motor, floor-event channel | `step`, `SetMotor`, `SetFloorIndicator` | a thread of its own; events queue up |
| Heis_test state machine (`elevator/fsm.go`, `requests.go`) | floor, direction, behaviour, request matrix, obstruction | `OnFloorArrival`, `OnDoorTimeout`, `OnRequestButtonPress` | door timer is started by the caller, not by the machine |
| Heis_test hall assigner (`hallassigner`) | none | `Assign`, `cost` | ties broken by Go's map order |
| Heis_test event loop (`main.go`) | hall table, peer list, peer states | one case per channel | stale messages, single unrepeated sends |
| Heis_test door timer (`timer`) | end time, running or not | start, stop, timed out | a restart and the expiry race |
| Heis_test hardware interface (`elevio`) | one connection under a mutex; each poller's last value | four pollers, commands, a channel to the loop for each poller | replies do not name their question; full channels; a connection that breaks; polling misses what happens between polls |
| Heis_test peer receiver (`network/peers`) | last heartbeat of each peer | new and lost peers, an update for each change | updates queue while peers come and go |
| console, socket set-up, JSON, lamps, vendored code, build cache, `Exercise5-master` | | | pure I/O, third-party or not part of a program: not modelled |

How they interact: within a process, threads (driver or pollers, receiver,
sender) talk to a single event loop through channels, and the loop calls the
controller or state machine, which runs to its end. Processes share nothing but
UDP broadcast.

What makes each correct: a version must stand for one write and merges must
converge (table); an owner's cab calls are never lost to old copies (gossip);
the motor never runs with the door open, the car stays in the shaft, intervals
of the door last their full time, cab calls are only cleared by being served
and are eventually served (both cars); hall calls reach somebody who serves
them, and the elevators agree on who that is (both systems); a poller reads the
answer to its own question and never keeps the loop from the hardware
(hardware interface). `PROJECT.json` lists every hazard at its line with the
properties that are there to catch it.

## 2. Modules

| Module | Models | Used by |
|---|---|---|
| `RequestTable` | keys, versions and their order, cells, merge, clock, `set`, `clearFloor` | `Gossip`, `Group` |
| `Gossip` | elevators of new_heis with lossy gossip, sync window, crash and restart | `MCGossip`, `Gossip_proofs` |
| `CabCall` | abstract: what new_heis promises of one cab call, without clocks or writers | `Gossip` (refinement) |
| `Gossip_proofs`, `CabCall_proofs` | theorems about `Gossip`; that it implements `CabCall` | |
| `Assigner` | new_heis `cost` and `Assign` | `Controller` |
| `Controller` | new_heis controller: `plan`, `open`, `doorStep`, the stop and direction rules, as functions | `Car`, `Group` |
| `Controller_proofs` | lemmas about those functions | `Car_proofs`, `Group_proofs` |
| `Car` | one controller with its driver, the event loop and whatever can happen to it | `MCCar`, `Car_proofs` |
| `Car_proofs` | theorems about `Car` | |
| `Group` | composition: several controllers, their cars, the cell of a hall call in the table of each, and snapshots that may come late; each elevator implements `Car` | `MCGroup`, `Group_proofs` |
| `Group_proofs` | theorems about `Group`, the refinement of `Car` among them | |
| `Elevator` | Heis_test `requests.go` and `fsm.go` as functions | `HallAssigner` |
| `HallAssigner` | Heis_test `cost` and `Assign` | `HeisNode` |
| `HeisNode` | Heis_test event loop of one process with timer, sensor, poller, peer receiver | `MCHeisNode`, `HeisNode_proofs` |
| `HeisNode_proofs` | theorems about `HeisNode` | |
| `HallTables` | the hall tables of several Heis_test processes, their messages, heartbeats and masters | `HallTables_proofs` |
| `HallTables_proofs` | theorems about `HallTables` | |
| `ElevIO` | Heis_test pollers, main's start-up reads, connection, mutex, channels, and the elevator server | `MCElevIO`, `ElevIO_proofs` |
| `ElevIO_proofs` | theorems about `ElevIO` | |

The `MC*` modules only define the values of constants.

### How they correspond to the code

*RequestTable.* A Go map without an entry reads as the zero cell, so a table is
a total function. `Newer(a, b)` is `CompareVersion(a, b) > 0`. The boot id,
a time stamp printed so that string order is time order, is the number of the
start, since only boots of one writer are compared. `Observed` is the clock
catching up with everything merged.

*Gossip.* One action per handler. Every handler ends in `plan`, which may open
the door and clear calls in the same step; where the car is does not matter
here, so `Planned` allows each clearing the code could do, or none. A packet
stays in the network when it is delivered, so it may arrive again, late, or at
its own sender; `Lose` drops it. `Crash` loses table, clock and peers, since
nothing is on disk.

*CabCall* is the specification of a cab call as the README of new_heis speaks of
it ("Fault Tolerance Model"): it belongs to its elevator, the others hold copies,
and a restarted owner may take a copy back until it has changed the call itself. `Gossip` maps to it
for each elevator and floor (`CabCallsOwned`): the owner's cell is the value,
with boot and counter as run and place, and the cells of the others and of the
packets are the copies.

*Controller, Car.* The variables of `Car` are the controller's fields (`car`,
`ctl`, `active`, `peers`), the driver (`drv`) and its channel of floor events
(`floors`). Each handler is a function on a record `s` of all that the
controller may change, ending in `Sync`, as the code's do; what the handlers
have in common is in `Controller`. Deadlines are the two Booleans the handlers
ask for (`doorOver`, `moveOver`). `sync` sets the simulated car's floor from
the controller's, which can pull the car back a floor while an event waits;
that is in the model. Snapshots of other elevators are their effect: hall calls
appear or vanish, a peer's state changes (to an older one too), and cab calls of
an earlier run of this process come back or go again, at any time, as long as
this run has not written them (`old`). That no snapshot touches a cab call this
run has written is what `CabCall` promises (`Relearn` is allowed to a run that
has written nothing yet) and `CabCall_proofs` proves of `Gossip`. Pressing a
call that is active already writes nothing, so it stays `old`.

The driver's travel time is a command-line flag, so `Init` chooses whether it is
*on time*: with it, a floor takes less than the 5 s stuck timeout and more than
the loop needs to take the event (one floor event at a time, `Prompt`); without
it, the timeout may pass at any moment and events queue up in the channel. A
channel that is full drops the event while the car goes on (`Sent`), as the
`default` in mock.go:161-164 does.

*Group.* What `Car` leaves open is here the other elevator: one hall call, its
cell in the table of each, and for each elevator the car, the controller, the
driver and what it last heard of the others. A snapshot of m reaches n either
with what m has at that moment (`Current`), or from `late`: between the sender's
ticker and the handler lie UDP and a channel of 64 snapshots (node.go:52-102),
so `Delay` puts a snapshot aside, which may then be received at any time, by
each of the others, again and again and after newer ones, until `Lose` takes it
away. Losing needs no more than that: a snapshot nobody receives. An elevator
starts in its sync window and ends it at any time (`EndSync`). Cars are on time,
in the window too: it is 350 ms long and a floor takes 700
(`cmd/elevator/main.go:25,27`). Cab calls and obstructions, which `Car` has, are
left out.

`EachIsACar` is the refinement between the two: in a group, every elevator is a
`Car` whose peers report states of which no more is assumed than their form
(`Reports`), and whose snapshots change the hall call or nothing. It ties the
assumptions of `Car` about the others to what the others do, and makes whatever
holds of a `Car` hold of every elevator of a group.

*Elevator, HallAssigner.* The functions of `fsm.go` return the elevator; the
commands they send to the hardware on the way are in the result as well, with
the flag that asks the caller to start the timer. The cost walk is a recursive
function over its turns; among equals any elevator may be first in Go's map.

*HeisNode.* One action per case of the loop's `select`, plus timer, floor
sensor, poller, heartbeats and arriving state messages. The position of the car
is in half floors, so it can stand between two and start there. A car leaves a
floor sensor only after poller (25 ms) and loop have handled it. The receiver
and the loop are two threads: an update waits in `updates` while a state
message waits in `stateRx`. The stop button and acknowledgements, which the
loop ignores, its own state broadcasts, and lamps are left out. `reassign` is
modelled with all of `Assign`, but as the code stands it changes no request:
`Assign` has no row for the elevator itself (see `node_master`). So no property
depends yet on what `HallAssigner` computes, and none of them says anything
about requests that change under a moving car.

*HallTables.* The same loop seen from the network, for several processes: the
table is broadcast on a press, on a stop, and, if the process takes itself for
the master, every 500 ms. Which calls a stop clears is left open here. Who the
master is comes from the peer list, the list from the updates the receiver of
heartbeats queues (it blocks while the channel is full), and a process may
restart or be silent until the others time it out.

*ElevIO.* A poll is three steps: under the mutex a command is written (`Ask`)
and four bytes are read (`Read`, or `ReadFails`, which leaves the buffer zero),
and then, with the mutex released, a change is sent to the loop (`SendEvent`),
which blocks while the channel is full. `main` is a reader too: at its start it
reads the floor once or twice beside the pollers (`stage`, main.go:104-119), and
between floors sends the car down and waits for `chFloor` before anything else.
Then it takes events and writes commands, for which it needs the mutex. The
server looks at the input when the command is written, and its reply waits on
the connection; since inputs change at any time, a server that is slow is one
that was asked later. The connection may break, and then what was under way is
gone. `Line` is what `main` knows of a value followed by the changes its poller
has seen and `main` has not heard.

## 3. Runs

| Run | Asks | Result |
|---|---|---|
| `gossip` | 2 elevators, crashes, restarts, loss: do versions identify writes, does the owner's cab cell stay the latest, do cab cells converge, do hall cells where no two boots of a writer meet, do cells only advance, is `CabCall` implemented, do running elevators end up with the same cab cells, and hall cells where no two boots of a writer are left | holds |
| `gossip_restart` | the README's convergence claim with one restart | **violated** |
| `car` | one car and a peer, any order of events, on time or not: motor and door, stuck, how far the controller can be wrong about the position, door intervals, cab calls | holds |
| `car_alone` | elevator that never has a peer: every cab call is served | holds |
| `car_disconnected` | after the last peer is gone, known calls are served | **violated** |
| `group` | two elevators and a hall call: is each a `Car`, is no car stuck when the other takes over, does each take the call to be exactly one's, does the newest word on it turn to cleared at an open door only, although snapshots come late and twice, is it never left by each to the other, does one that has lost the other serve it | holds |
| `group_conclusion` | do the two come to the same conclusion about whose the call is | **violated** |
| `node` | one Heis_test process, hardware and a peer: door timer, motor, shaft, obstruction, cab calls cleared by stops only, and every cab call answered whatever the network goes on doing | holds |
| `node_master` | a master takes hall calls itself | **violated** |
| `hall_tables` | do lists keep up with the receiver, do all processes end up with one master, does every call of its table reach everybody | holds |
| `hall_tables_sync` | the tables become equal | **violated** |
| `elevio` | does each reader get the reply to its own command, does main hear each change once and in order, does it always get its commands out, does it come to know every input | holds |

### What the violated runs show

- `gossip_restart`: `CompareVersion` orders two boots of one writer by boot
  alone and everything else by counter. After a restart this is not transitive,
  so for a hall call written by two elevators the result of a merge depends on
  the order of the packets (new_heis/README.md:46 promises that it does not).
  It also means that later packets need not repair it: v2 of w1's first boot, v1
  of its second and v1 of w2 are each newer than the one before, in a circle, and
  tables and delayed packets can pass them round, so `Agreement` is not claimed
  of a hall cell in which two boots of one writer are left.
  Cab calls have one writer and are not affected, and two boots of one writer
  have to meet for it to happen; both are proved.
- `car_disconnected`: `plan` opens the door for any call at the floor, but
  `pickDoorDir` picks no direction if the car arrived one way, the only call
  here is the other way, and something lies beyond. The call stays, the door
  closes and opens for it again, for ever (against new_heis/README.md:74-76).
- `group_conclusion`: two idle cars equally far from a hall call. The one with
  the lower id starts; moving against the direction of the call it now costs
  one more than the idle other (assigner.go:49), which starts as soon as it
  hears that, whereupon the first stops and is the cheaper again. A car that
  stops between floors starts the floor anew (mock.go:68-75), so neither need
  ever arrive. The trace is a matter of when snapshots arrive, but not a rare
  one: with the default times (tick 50 ms, gossip 150 ms, travel 700 ms) and
  random phases of the tickers, a timed simulation of the two controllers left
  the call unserved for good in about one of six cases (329 of 2000). Against
  the condition that the documentation of the cost functions puts on elevators
  that all compute the distribution (`Project-resources-master 2/cost_fns/README.md:183`).
- `node_master`: the loop skips its own state messages, so `peerStates` never
  has its own state, `Assign` never has a row for it and `reassign` does
  nothing: no elevator ever takes a hall call (against main.go:192).
- `hall_tables_sync`: with nothing lost at all, OR tells nobody that a call was
  served, and only the master repeats its table (against main.go:167).

### Bounds

- `MaxCounter`, `MaxBoots`, `MaxPackets` (Gossip): two writes are the least at
  which a cell of one elevator can be between two of another, two boots the
  least for a restart. A packet stays as long as it likes and is delivered as
  often as it likes, to its sender too, but with one in the network two packets
  never cross; two are more than TLC gets through in `gossip` (`gossip_restart`,
  about merging two packets, has them). The safety theorems are for any number of
  elevators, packets, writes and boots. `Agreement` is not proved, and two tables
  and one packet would not hold the three versions it takes to go round in a
  circle and a copy to carry on with, so it is stated only of the cells in which
  `CompareVersion` has no circle: those of one writer and those without a second
  boot, on which versions are totally ordered. `CHECK_DEADLOCK FALSE` is set in
  these configurations because with `MaxBoots` reached every process may be down
  for good.
- Three floors (`car`, `group_conclusion`, `node`) have an inner floor, where a car may
  pass or turn, and two ends; `car_alone` has four, so that two calls can lie
  beyond.
- `Peers` (Car): a peer that takes calls away by standing near and one that
  moves. `News`, the sets of calls a snapshot may change at
  once: none or one, so that a snapshot that changes several cells is several
  snapshots, except for the planning between them; none in the liveness runs,
  where calls come from buttons. `Old`: one cab call an earlier run has left.
- `MaxPending` (Car) is the channel's capacity: 2 in `car` instead of 64, so that
  a late car finds it full and drops an event; one event is all there ever is of
  a car on time, which the liveness runs are about.
- `Group`: two elevators, two floors and one of their two hall calls, which are
  each other's mirror images; one elevator presses twice, so that the call is
  pressed, served and pressed again, and the other once; one snapshot is on its
  way besides the ones that arrive at once, so each late one may cross all newer
  ones. `group_conclusion` has three floors, one press and no late snapshots:
  it does without. The theorems are for any number of elevators, floors,
  presses and late snapshots. As a `Car`, an elevator of the group hears of one
  call at a time (`OneCall`), since there is one.
- `MaxUpdates = 1` (of 8) in `HeisNode`: one update waiting is what a state
  message can overtake.
- `HallTables`: two processes, one call, two different messages under way, and a
  channel of one update, which is full with the first. The theorems are for
  any number.
- `ElevIO`: one button, two floors, one switch. The floor sensor's channel holds
  two events (8 in the code), so events can stand in it in the wrong order or
  without one between them; the others hold one, so that a full channel is
  common. The theorems are for any capacities.

### Fairness

Crashes, presses, obstructions, restarts and silences are never forced. Assumed
are:

- *Gossip*: a running process sends every 150 ms, so of the copies of one
  snapshot some arrive (strong fairness of `Send` and of the delivery of the
  current snapshot); nothing stays in the network for ever (weak fairness of
  losing some old packet); the sync window, a timer, ends.
- *Car*: the 50 ms ticker ticks, the loop takes what waits (Go's `select`
  chooses at random between ready cases, so none starves), deadlines pass, a
  running motor moves the car. `Quiet` restricts the liveness claims to
  executions in which from some time on nobody presses or obstructs and no peer
  is heard, as the README's sentence does; they are also about a car that is on
  time.
- *Group*: the same for every elevator. That snapshots are heard (each elevator
  knows, again and again, what the other would tell it) is a premise of
  `SomeoneTakesIt` and `SameConclusion` (`InTouch`), not of the specification:
  `AloneServes` is about the executions in which they are not. Old snapshots may
  keep coming in between. In `SameConclusion` (`Settled`) nobody presses or is
  given up any more either, and it fails with strong fairness of the ticker too.
- *HeisNode*: the same for door ticker, poller, timer, motor and channels.
- *HallTables*: the hall ticker ticks, a table or heartbeat that is sent again
  and again reaches each process now and then, old messages go, and the loops
  take their updates.
- *ElevIO*: the server answers, and a reader that waits for a reply gets it or an
  error; some poller that can send does, and `main` takes some event that waits
  (which one is left open: that `select` chooses at random is not needed). The
  mutex is fair to each goroutine that waits for it (Go's mutex hands over to a
  waiter after 1 ms: strong fairness of each poller's `Ask`, and of `main`'s
  commands and reads). A car that `main` has sent down to find a floor comes to
  one (`ComesToFloor`); no other movement is assumed.

## 4. Proofs

All theorems hold for every value of the constants that satisfies the named
assumptions of the modules: identifiers and floors are natural numbers, there is
at least one floor (two in Heis_test), bounds are natural numbers.

| Module | Theorem | Says |
|---|---|---|
| `Gossip_proofs` | `TypeCorrect` | `Spec => []TypeOK` |
| | `Invariant` | `Spec => []IInv` |
| | `UniqueVersions` | `Spec => []VersionIdentifiesWrite` |
| | `OwnerLatest` | `Spec => []OwnerCabIsLatest` |
| | `CabConverges` | `Spec => []CabMergeCommutes` |
| | `SameBootsUnite` | `Spec => []SameBootsCommute` |
| | `Advance` | `Spec => CellsOnlyAdvance` |
| | `ConvergesWithoutRestarts` | with `MaxBoots <= 1`, `Spec => []MergeCommutes` |
| `CabCall_proofs` | `CabCallOwned` | `Spec => CabCallsOwned`: Gossip implements CabCall |
| `Car_proofs` | `TypeCorrect` | `Spec => []TypeOK` |
| | `MotorNeverLoose` | `Spec => []MotorSafe` |
| | `IntervalsFull` | `Spec => DoorInterval` |
| | `CabsKept` | `Spec => CabClearedByDoor` |
| | `NeverStuck` | `Spec => []NotStuck` |
| | `PositionKnown` | `Spec => []AtMostOneOff` |
| `Controller_proofs` | `OneAssigned` | among elevators with different ids, each hall call is assigned to exactly one |
| `Group_proofs` | `NobodyStuck` | `Spec => []TypeOK` |
| | `OneTakes` | `Spec => []OneTakesIt` |
| | `HallServed` | `Spec => HallClearedByDoor` |
| | `EachACar` | `Spec => EachIsACar` |
| | `ImplementsCar` | for each elevator n, `Spec => Elevator(n)!Spec`: Group implements Car |
| `HeisNode_proofs` | `TypeCorrect` | `Spec => []TypeOK` |
| | `DoorIsTimed` | `Spec => []DoorTimed` |
| | `MotorFollows` | `Spec => []MotorSafe` |
| | `StaysInShaft` | `Spec => []InShaft` |
| | `DoorStaysOpen` | `Spec => DoorHeld` |
| | `CabsKept` | `Spec => CabKept` |
| `HallTables_proofs` | `TypeCorrect` | `Spec => []TypeOK` |
| | `ListsCurrent` | `Spec => []ListCurrent` |
| `ElevIO_proofs` | `TypeCorrect` | `Spec => []TypeOK` |
| | `RepliesOwned` | `Spec => []OwnReply` |
| | `UpToDate` | `Spec => LoopUpToDate` |

*Gossip.* None of the properties is inductive alone. That a new version is new
needs to know that no version anywhere of the running boot is past its clock and
none is from a later boot (`Stamps`), and that its clock is beyond everything in
its table (`ClockDominates`); that merges of cab cells converge needs the single
writer (`CabSingleWriter`) and that the owner has its own last write
(`OwnerHoldsLatest`); `CellsWritten` says that a cell is the zero cell or
somebody's write. The conjunction with `TypeOK` is `IInv`. `Stamped` describes
what a handler may do to a store, however many writes it makes, and
`SetCellStamped` shows one more write keeps to it. `WriteSteps` shows that every
action that writes is of one form (`Write`: a merge or clock advance, then
stamped writes), so that the invariant is shown once for it (`InvWrite`) and once
for the actions that only move or drop tables (`InvNoWrite`).
`ConvergesWithoutRestarts` adds that all boots are 1, with which
`CompareVersion` is a total order; together with `gossip_restart` it says that
restarts are the only cause of the disagreement.

*CabCall.* Every step of `Gossip` is, for one elevator and floor, a step of
`CabCall` or a stutter: the steps of others only copy; a write of the owner is
`Change`, since its clock is beyond everything; a merge into the owner's cell can
only bring an earlier run's value (`Relearn`), since of this run nobody has
anything later. The proof takes `IInv` as its invariant.

*Car.* Every handler is a composition of `Plan`, `Open` and `DoorStep` on one
record, so there is a lemma on each of these functions, in `Controller_proofs`
(what it leaves has the type, the motor runs only for a moving car, a call is
only cleared at the floor of an open door with a full interval to come, in the
direction of the door or as a cab call), and each action is such a record put
back. With that, `TypeOK` and `MotorSafe` are inductive as they stand.

*Never stuck.* Starting, turning and passing floors change what a call costs the
car, and `plan` does not run on any of these: on its way, the call it set out for
may well be a peer's. What saves the car is the floor where it arrives. The
invariant (`OnTime`) is that a moving car has a claim ahead (`Ahead`): a cab
call, or a hall call that no known peer could have at a cost of 1 or less. A call
elsewhere is assigned to the car only at a cost of 4 or more, so what it sets out
for is a claim; there a call costs it 1 at most, so a claim of the floor where it
arrives is its own, and it stops unless there is something further on to serve.
When calls or known peers change, `plan` runs and turns, stops or finds a new
claim. `OnTime` also says where the driver can be: at most one floor event waits,
of a floor next to the last one handled, and the driver has stopped by itself
only if that event is of the end of the shaft; `AtMostOneOff` is the part of it
that speaks of positions. None of this is claimed of a car whose floor events
come late.

*Group.* The same lemmas on the handlers, now on what the elevators really tell
each other: each works on a record with the invariant of the previous paragraph
(`Fine`), a snapshot that changes nothing leaves its claims, and a cell written
back is the record's (`SyncHere`). So the theorems hold for any number of
elevators, where TLC has two.

*A call is not forgotten.* `HallServed` is about the newest word on the call in
the whole group. There are no restarts here, so versions are ordered by counter
and writer (`Ordered`). A snapshot on its way is never newer than its sender's
own cell (`LateFine`), so a merge brings nothing that is news to everybody
(`Started`): it leaves the newest word as it is, and so does a press, which makes
it lit at most (`StaysLit`). What is left is that the handler itself clears the
call, and that it does only with the door just opened there (`SyncHere`). What
the network does changes no cell and keeps `LateFine` (`NetHere`).

*One takes it.* Costs are bounded below, so among the elevators one knows some
have the least cost (the natural numbers are well ordered), and of these one has
the least id; no other can be before it, and two that are each before the other
would have the same id. What an elevator knows has one state for each id
(`Apart`): `Observe` replaces the older one, and its own id is never among the
peers.

*Group implements Car.* Three steps. What a `Car` computes is what `Group`
computes: the functions of `Controller` reach `Car` through `INSTANCE` and are
other symbols to the provers, so their equality is shown once, from `Abs` up to
`TickStep` (`SameAssigner` to `SameHandlers`). A handler of n that ends in
`Group`'s `Sync` ends in `Car`'s, with the calls active in the new cell, and
leaves the others alone (`Ended`, in `SyncHere` again). Each action is then one
of `Car`: a snapshot p is one from `{p.car}` that flips the call if the merge
has changed it (`RemoteCar`), and the state in it, of now or of then, is one that
`Car` lets a peer report because of `Fine` and `LateFine` (`IncomingFine`). `CarAssumptions`
shows that the values given to the constants of `Car` meet its assumptions.

*HeisNode.* `InShaft` needs everything at once (`Inv`): a moving car has a
request beyond the floor last handled (`RequestInv`), is at most one floor from
it and, if it is that far, the poller has still to report it (`PlaceInv`), a
report that waits is of the floor the car is at (`EventInv`), and nothing takes
the request away on the way: `reassign` changes nothing, because `Assign` has no
row for the elevator itself (`NoOwnRow`), the cause of the `node_master` finding.
A repair of that finding would have to give `InShaft` another reason.

*HallTables, ElevIO.* `ListCurrent` follows from a stronger fact, that the last
update under way is what the receiver has. `OwnReply` follows from the wire
(`InStep`): nothing is under way while nobody holds the mutex, and while a reader
does, just the reply to it. `LoopUpToDate` needs that what `main` knows and the
channel end with what the poller reported last (`Reported`), so that what the
poller then sees is a change of the line's end (`News`), and that before the loop
no report of a floor has been taken (`Kept`), so that `main`'s own read at its
start only replaces what it knew. `Ends` and `Fronts` say what an event at the
end of such a line, or taken from its front, does to it; every action moves a
line in one of these ways or not at all (`Keeps`).

Only model-checked, of what holds, is all liveness (`Agreement`, `CabCallsServed`,
`SomeoneTakesIt`, `AloneServes`, `CabServed`, `OneMaster`, `MasterSpreads`,
`LoopReturns`, `InputsArrive`; fairness and ENABLED are out of the prover's
reach). `HallAssigner!Cost` is a recursive function whose value
for every input could only be proved by induction over data, which the installed
provers cannot do.

## 5. Not modelled

- Sockets, JSON, the console, lamps, signals, flags that only size things.
- Several processes with the same id, and a clock set back: boot ids are taken
  to go forward, as the code takes them.
- new_heis hardware between floors: the simulated car has no such place.
- Heis_test: replies that arrive in pieces (`Read` with fewer than four bytes),
  the retries of `Init` before the first connection, and a process that starts
  again while its car is still in motion; the hazards in `PROJECT.json` name
  them. Stop button and acknowledgements, which the loop ignores.
- Vendored course code (`Network-go-master 2`, `driver-go-master 2` and the
  project resources, which new_heis does not import) and the committed build
  cache are not part of either program.
- `Exercise5-master` is the handed-out starter code of a course exercise: its
  resource manager is left for the student to write, as its comments say, so
  there is no behaviour of it to hold to anything.

## 6. Plan

Done: the modules, runs and theorems above, in the order RequestTable, Gossip
and its proofs, Car, HeisNode, HallTables, CabCall, ElevIO, Controller and Group,
the proofs about the others, and that Group implements Car.

What could follow:

1. An abstract hall call for `Gossip` without restarts, like `CabCall`: a
   register whose value is the newest write.
2. `Group` with two calls, where an elevator chooses between them, and with cab
   calls: the refinement of `Car` would then cover these too.
3. `HallTables` with the assignment of `HallAssigner`, once an elevator has a row
   for itself (see `node_master`).
