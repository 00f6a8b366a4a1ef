----------------------------- MODULE HallTables -----------------------------
(***************************************************************************)
(* The hall request tables of the elevators of Heis_test, the messages     *)
(* that carry them (main.go), and the heartbeats by which the processes    *)
(* agree on their master (network/peers/peers.go).  Every process has its  *)
(* own table; it sends the whole of it when a hall button is pressed or    *)
(* its car stops, and, if it takes itself for the master, every 500 ms.  A *)
(* received table is merged by OR.  The network is UDP broadcast           *)
(* (network/bcast, external).                                              *)
(*                                                                         *)
(* Which calls a stop clears is module HeisNode's; here it is any of those *)
(* of one floor.                                                           *)
(***************************************************************************)
EXTENDS Naturals, FiniteSets, Sequences

CONSTANTS
  Nodes,       \* the elevators; IDs are numbers, ordered as the strings are
  Floors,      \* the floors with hall buttons
  Types,       \* the hall buttons of a floor
  Lossy,       \* does the network lose messages that not everybody has had?
  MaxPackets,  \* bound: different messages in the network at one time
  MaxUpdates   \* capacity of chPeerUpdates (8 in main.go)

ASSUME NodesAssumption  == Nodes \subseteq Nat /\ Nodes # {} /\ IsFiniteSet(Nodes)
ASSUME LossyAssumption  == Lossy \in BOOLEAN
ASSUME PacketAssumption == MaxPackets \in Nat
ASSUME UpdateAssumption == MaxUpdates \in Nat \ {0}

VARIABLES
  hall,      \* hallRequests of each process: the set of the calls that are TRUE
  seen,      \* peerLastSeen of each receiver of heartbeats: who is in it
  updates,   \* chPeerUpdates of each process: the lists of live peers
  peerList,  \* the live peers as each process last heard
  packets    \* HallRequestMsgs in the network, with those who have had them

peerVars == <<seen, updates, peerList>>
vars     == <<hall, peerVars, packets>>

Calls == Floors \X Types

Message == [sender : Nodes, hall : SUBSET Calls, had : SUBSET Nodes]

(* TypeOK: the shape of the state: only calls of existing buttons are in a table *)
(* or a message, and a message counts as had by its sender, who skips it.        *)
TypeOK ==
  /\ hall \in [Nodes -> SUBSET Calls]
  /\ seen \in [Nodes -> SUBSET Nodes]
  /\ updates \in [Nodes -> Seq(SUBSET Nodes)] /\ \A n \in Nodes : Len(updates[n]) <= MaxUpdates
  /\ peerList \in [Nodes -> SUBSET Nodes]
  /\ packets \subseteq Message
  /\ \A p \in packets : p.sender \in p.had

Init ==
  /\ hall = [n \in Nodes |-> {}]
  /\ seen = [n \in Nodes |-> {}]
  /\ updates = [n \in Nodes |-> <<>>]
  /\ peerList = [n \in Nodes |-> {}]
  /\ packets = {}

-----------------------------------------------------------------------------
Lowest(S) == CHOOSE i \in S : \A j \in S : i <= j

(* masterID: the first of the sorted peer list, or the process itself. *)
MasterID(n) == IF peerList[n] = {} THEN n ELSE Lowest(peerList[n])

(* Process n puts its table t on the network. *)
Broadcast(n, t) ==
  /\ packets' = packets \cup {[sender |-> n, hall |-> t, had |-> {n}]}
  /\ Cardinality(packets') <= MaxPackets

(* Mutant of PressHall: the floors of the buttons count from 1. *)
PressHallAbove(n, c) ==
  /\ hall' = [hall EXCEPT ![n] = @ \cup {<<c[1] + 1, c[2]>>}]
  /\ Broadcast(n, hall'[n])
  /\ UNCHANGED peerVars

(* A hall button: register it, and broadcast the table. *)
PressHall(n, c) ==
  /\ hall' = [hall EXCEPT ![n] = @ \cup {c}]
  /\ Broadcast(n, hall'[n])
  /\ UNCHANGED peerVars

(* A stop at floor f: clearServedHall, and broadcast the table. *)
StopAt(n, f) ==
  /\ \E served \in SUBSET ({f} \X Types) :
       /\ served # {}
       /\ hall' = [hall EXCEPT ![n] = @ \ served]
  /\ Broadcast(n, hall'[n])
  /\ UNCHANGED peerVars

(* Mutant of HallTick: the table is sent by the others only. *)
HallTickOthers(n) ==
  /\ MasterID(n) # n
  /\ Broadcast(n, hall[n])
  /\ UNCHANGED <<hall, peerVars>>

(* The hall ticker. *)
HallTick(n) ==
  /\ MasterID(n) = n
  /\ Broadcast(n, hall[n])
  /\ UNCHANGED <<hall, peerVars>>

(* A table arrives: merged by OR, so nothing is ever cleared by a message. *)
HallMsg(n, p) ==
  /\ p.sender # n
  /\ hall' = [hall EXCEPT ![n] = @ \cup p.hall]
  /\ packets' = (packets \ {p}) \cup {[p EXCEPT !.had = @ \cup {n}]}
  /\ UNCHANGED peerVars

(* Mutant of Heartbeat: an update that finds the channel full is dropped. *)
HeartbeatOrDrop(n, m) ==
  /\ m \notin seen[n]
  /\ seen' = [seen EXCEPT ![n] = @ \cup {m}]
  /\ updates' = IF Len(updates[n]) < MaxUpdates
                THEN [updates EXCEPT ![n] = Append(@, seen'[n])] ELSE updates
  /\ UNCHANGED <<hall, peerList, packets>>

(* peers.Receiver of n: a heartbeat of m, who is new.  The receiver blocks while *)
(* the channel is full; heartbeats of those it knows change nothing here.        *)
Heartbeat(n, m) ==
  /\ m \notin seen[n]
  /\ Len(updates[n]) < MaxUpdates
  /\ seen' = [seen EXCEPT ![n] = @ \cup {m}]
  /\ updates' = [updates EXCEPT ![n] = Append(@, seen'[n])]
  /\ UNCHANGED <<hall, peerList, packets>>

(* peers.Receiver of n: the heartbeats of the processes in lost have timed out. *)
PeerTimeout(n, lost) ==
  /\ lost # {}
  /\ Len(updates[n]) < MaxUpdates
  /\ seen' = [seen EXCEPT ![n] = @ \ lost]
  /\ updates' = [updates EXCEPT ![n] = Append(@, seen'[n])]
  /\ UNCHANGED <<hall, peerList, packets>>

(* The loop takes a peer update. *)
PeerUpdate(n) ==
  /\ updates[n] # <<>>
  /\ peerList' = [peerList EXCEPT ![n] = Head(updates[n])]
  /\ updates' = [updates EXCEPT ![n] = Tail(@)]
  /\ UNCHANGED <<hall, seen, packets>>

(* The process dies and is started again: nothing is kept. *)
Restart(n) ==
  /\ hall' = [hall EXCEPT ![n] = {}]
  /\ seen' = [seen EXCEPT ![n] = {}]
  /\ updates' = [updates EXCEPT ![n] = <<>>]
  /\ peerList' = [peerList EXCEPT ![n] = {}]
  /\ UNCHANGED packets

(* The network drops a message: one everybody has had, or any if Lossy. *)
Lose(p) ==
  /\ Lossy \/ p.had = Nodes
  /\ packets' = packets \ {p}
  /\ UNCHANGED <<hall, peerVars>>

(* What goes on without passengers, cars that stop, power cuts and silences. *)
Exchange ==
  \/ \E n \in Nodes :
       \/ HallTick(n)
       \/ \E p \in packets : HallMsg(n, p)
       \/ PeerUpdate(n)
       \/ \E m \in Nodes : Heartbeat(n, m)
  \/ \E p \in packets : Lose(p)

Next ==
  \/ Exchange
  \/ \E n \in Nodes :
       \/ \E c \in Calls : PressHall(n, c)
       \/ \E f \in Floors : StopAt(n, f)
       \/ \E lost \in SUBSET seen[n] : PeerTimeout(n, lost)
       \/ Restart(n)

Spec == Init /\ [][Next]_vars

-----------------------------------------------------------------------------
(***************************************************************************)
(* ListCurrent: a loop that has taken all its peer updates has the list of *)
(* those its receiver hears (the receiver waits for room in the channel,   *)
(* and a restart empties both).                                            *)
(***************************************************************************)
ListCurrent == \A n \in Nodes : updates[n] = <<>> => peerList[n] = seen[n]

-----------------------------------------------------------------------------
(* A message that is not its sender's table any more, or that everybody has *)
(* had, is delivered once more or goes.                                     *)
Old(p) ==
  /\ p.hall # hall[p.sender] \/ p.had = Nodes
  /\ Lose(p) \/ \E n \in Nodes \ p.had : HallMsg(n, p)

(***************************************************************************)
(* Fairness.  The hall ticker of every process runs; a table that its      *)
(* sender sends again and again reaches each process now and then, and so  *)
(* do the heartbeats it sends every 15 ms; no message stays in the network *)
(* for ever; every loop takes its peer updates.                            *)
(***************************************************************************)
Fairness ==
  /\ \A n \in Nodes : SF_vars(HallTick(n))
  /\ \A m, n \in Nodes :
       SF_vars(\E p \in packets : p.sender = m /\ p.hall = hall[m] /\ n \notin p.had /\ HallMsg(n, p))
  /\ WF_vars(\E p \in packets : Old(p))
  /\ \A m, n \in Nodes : WF_vars(Heartbeat(n, m))
  /\ \A n \in Nodes : WF_vars(PeerUpdate(n))

FairSpec == Spec /\ Fairness

(* From some time on there are no presses, stops and restarts, and no process *)
(* is silent for so long that others time it out.                             *)
Settled == <>[][Exchange]_vars

(***************************************************************************)
(* OneMaster: once things are settled, whoever took whom for the master    *)
(* before, all processes have the same master for good: the peer updates   *)
(* that were queued, and the restarts that emptied a list, leave no        *)
(* process behind.                                                         *)
(***************************************************************************)
OneMaster == Settled => <>[](\A n \in Nodes : MasterID(n) = Lowest(Nodes))

(***************************************************************************)
(* MasterSpreads: once things are settled, whatever has been lost,         *)
(* reordered or restarted before, every process comes to know and keeps    *)
(* each call of the master's table: the periodic broadcast repairs what    *)
(* the single ones missed.                                                 *)
(***************************************************************************)
MasterSpreads == Settled => <>[](\A n \in Nodes : hall[Lowest(Nodes)] \subseteq hall[n])

(***************************************************************************)
(* InSync: "Periodically broadcast hall requests so all nodes stay in      *)
(* sync" (main.go:167): once things are settled the tables become equal.   *)
(***************************************************************************)
InSync == Settled => <>[](\A m, n \in Nodes : hall[m] = hall[n])
=============================================================================
