------------------------------- MODULE Gossip -------------------------------
(***************************************************************************)
(* The elevators of new_heis exchanging full snapshots of their request    *)
(* tables over UDP, with crashes and restarts.                             *)
(*                                                                         *)
(* Every handler of the controller ends by planning, and planning may open *)
(* the door and clear requests in the same step.  Where the car stands is  *)
(* left out here, so "may serve" is the choice Planned makes; module Car   *)
(* has the car.                                                            *)
(***************************************************************************)
EXTENDS RequestTable, FiniteSets

CONSTANTS
  MaxCounter,  \* bound: no write takes a Lamport counter above this
  MaxBoots,    \* bound: how often an elevator process may be started
  MaxPackets   \* bound: snapshots in the network at one time

ASSUME BoundsAssumption == MaxCounter \in Nat /\ MaxBoots \in Nat /\ MaxPackets \in Nat

VARIABLES
  phase,    \* "down", "sync" (startupSync) or "ready" (the main loop)
  bootID,   \* number of the last start of each elevator's process
  store,    \* Controller.reqs and Controller.clock
  peers,    \* the IDs in PeerTracker.peers
  packets   \* snapshots in the network; a delivered one may be delivered again

vars == <<phase, bootID, store, peers, packets>>

Snapshot == [id : Elevators, requests : Table]

(* TypeOK: the shape of the state; no elevator counts itself as a live peer, *)
(* which is what keeps a lone elevator from accepting hall calls.            *)
TypeOK ==
  /\ phase \in [Elevators -> {"down", "sync", "ready"}]
  /\ bootID \in [Elevators -> Nat]
  /\ store \in [Elevators -> Store]
  /\ peers \in [Elevators -> SUBSET Elevators]
  /\ \A n \in Elevators : n \notin peers[n]
  /\ packets \subseteq Snapshot

Init ==
  /\ phase = [n \in Elevators |-> "down"]
  /\ bootID = [n \in Elevators |-> 0]
  /\ store = [n \in Elevators |-> EmptyStore]
  /\ peers = [n \in Elevators |-> {}]
  /\ packets = {}

-----------------------------------------------------------------------------
(* What a handler that ends in plan may leave of the store s: nothing more   *)
(* is cleared, or the door opens at some floor and clearFloor runs.          *)
Planned(n, s) ==
  {s} \cup {ClearFloor(s, n, bootID[n], f, d) : f \in Floors, d \in HallDirs \cup {Stop}}

(* PeerTracker.Expire: any of the peers may have been silent for too long.   *)
ExpirePeers(n) == \E gone \in SUBSET peers[n] : peers' = [peers EXCEPT ![n] = @ \ gone]

(* Elevator n ends a handler with the store s, within the bound on counters. *)
Commit(n, s) ==
  /\ s.clock <= MaxCounter
  /\ store' = [store EXCEPT ![n] = s]

-----------------------------------------------------------------------------
(* Mutant of Boot: every run of the process uses the same bootID. *)
BootSameID(n) ==
  /\ phase[n] = "down"
  /\ bootID[n] < MaxBoots
  /\ phase' = [phase EXCEPT ![n] = "sync"]
  /\ bootID' = [bootID EXCEPT ![n] = 1]
  /\ UNCHANGED <<store, peers, packets>>

(* The process starts: New with an empty table, a fresh bootID, cluster.Start. *)
Boot(n) ==
  /\ phase[n] = "down"
  /\ bootID[n] < MaxBoots
  /\ phase' = [phase EXCEPT ![n] = "sync"]
  /\ bootID' = [bootID EXCEPT ![n] = @ + 1]
  /\ UNCHANGED <<store, peers, packets>>

(* The process dies.  Nothing is on disk: the table, the clock and the peers go. *)
Crash(n) ==
  /\ phase[n] # "down"
  /\ phase' = [phase EXCEPT ![n] = "down"]
  /\ store' = [store EXCEPT ![n] = EmptyStore]
  /\ peers' = [peers EXCEPT ![n] = {}]
  /\ UNCHANGED <<bootID, packets>>

(***************************************************************************)
(* The sync window ends: the clock is seeded from the table, buttons are   *)
(* enabled and a first HandleTick expires peers and plans.                 *)
(***************************************************************************)
EndSync(n) ==
  /\ phase[n] = "sync"
  /\ phase' = [phase EXCEPT ![n] = "ready"]
  /\ \E m \in 0..MaxCounter :
       /\ Observed(m, store[n].clock, store[n].reqs)
       /\ \E s \in Planned(n, [store[n] EXCEPT !.clock = m]) : Commit(n, s)
  /\ ExpirePeers(n)
  /\ UNCHANGED <<bootID, packets>>

(* Mutant of ObservePeer: an elevator's own echoed snapshot makes it a peer. *)
ObserveAnyone(n, p) == peers' = [peers EXCEPT ![n] = @ \cup {p.id}]

(* PeerTracker.Observe: the sender is live, unless it is the elevator itself. *)
ObservePeer(n, p) == peers' = [peers EXCEPT ![n] = @ \cup ({p.id} \ {n})]

(***************************************************************************)
(* ApplyRemote: merge the snapshot, also one of this elevator's own (the   *)
(* broadcast loops back), note the sender as a live peer, and plan if a    *)
(* cell changed or the sender's car did (its car is not modelled here).    *)
(***************************************************************************)
ApplyRemote(n, p) ==
  /\ phase[n] # "down"
  /\ \E m \in 0..MaxCounter :
       /\ Observed(m, store[n].clock, p.requests)
       /\ LET merged == MergeRequests(store[n], p.requests, m)
          IN  \/ Commit(n, merged)
              \/ /\ merged.reqs # store[n].reqs \/ p.id # n
                 /\ \E s \in Planned(n, merged) : Commit(n, s)
  /\ ObservePeer(n, p)
  /\ UNCHANGED <<phase, bootID, packets>>

(* HandleButton for a cab call: accepted whether or not there are peers. *)
PressCab(n, f) ==
  /\ phase[n] = "ready"
  /\ \E s \in Planned(n, SetCell(store[n], n, bootID[n], CabKey(n, f), TRUE)) : Commit(n, s)
  /\ UNCHANGED <<phase, bootID, peers, packets>>

(* HandleButton for a hall call: ignored while no peer is live. *)
PressHall(n, f, d) ==
  /\ phase[n] = "ready"
  /\ peers[n] # {}
  /\ \E s \in Planned(n, SetCell(store[n], n, bootID[n], HallKey(f, d), TRUE)) : Commit(n, s)
  /\ UNCHANGED <<phase, bootID, peers, packets>>

(***************************************************************************)
(* HandleTick, and HandleFloor and HandleObstruction, which expire nobody: *)
(* the peers that timed out go, and the car may open its door somewhere.   *)
(***************************************************************************)
Serve(n) ==
  /\ phase[n] = "ready"
  /\ \E s \in Planned(n, store[n]) : Commit(n, s)
  /\ ExpirePeers(n)
  /\ UNCHANGED <<phase, bootID, packets>>

(* Node.send: the sender goroutine broadcasts the last snapshot it was given. *)
Send(n) ==
  /\ phase[n] # "down"
  /\ packets' = packets \cup {[id |-> n, requests |-> store[n].reqs]}
  /\ Cardinality(packets') <= MaxPackets
  /\ UNCHANGED <<phase, bootID, store, peers>>

(* UDP, or the full channel of Node.recv, drops a snapshot. *)
Lose(p) ==
  /\ packets' = packets \ {p}
  /\ UNCHANGED <<phase, bootID, store, peers>>

Next ==
  \/ \E n \in Elevators :
       \/ Boot(n)
       \/ Crash(n)
       \/ EndSync(n)
       \/ Serve(n)
       \/ Send(n)
       \/ \E f \in Floors : PressCab(n, f) \/ \E d \in HallDirs : PressHall(n, f, d)
       \/ \E p \in packets : ApplyRemote(n, p)
  \/ \E p \in packets : Lose(p)

Spec == Init /\ [][Next]_vars

-----------------------------------------------------------------------------
(* Tables and cells anywhere: in a process or in the network. *)
Tables == {store[n].reqs : n \in Elevators} \cup {p.requests : p \in packets}

(***************************************************************************)
(* VersionIdentifiesWrite: a version is never given to two writes, of one  *)
(* boot or of two, however the clocks of restarted processes start again   *)
(* from 0.  CompareVersion relies on it: equal versions are equal cells.   *)
(***************************************************************************)
VersionIdentifiesWrite ==
  \A t, u \in Tables : \A k, l \in Keys :
    /\ t[k].version = u[l].version
    /\ t[k].version.counter > 0
    => k = l /\ t[k] = u[l]

(***************************************************************************)
(* OwnerCabIsLatest: no delayed or echoed copy of a cab cell can overrule  *)
(* its owner.  A copy is newer than the owner's own cell only when it was  *)
(* written before the owner's last start: what it has yet to relearn.      *)
(***************************************************************************)
OwnerCabIsLatest ==
  \A n \in Elevators : \A f \in Floors :
    phase[n] # "down" =>
      \A t \in Tables :
        LET copy == t[CabKey(n, f)].version
            own  == store[n].reqs[CabKey(n, f)].version
        IN  Newer(copy, own) => copy.bootID < bootID[n] /\ own.bootID < bootID[n]

(* Who has a copy of the cab call of n at f: the others and the network. *)
CopiesOf(n, k) ==
  {store[m].reqs[k] : m \in Elevators \ {n}} \cup {p.requests[k] : p \in packets}

ValueOf(c) == [active |-> c.active, run |-> c.version.bootID, seq |-> c.version.counter]

Call(n, f) == INSTANCE CabCall WITH
  up     <- phase[n] # "down",
  run    <- bootID[n],
  own    <- ValueOf(store[n].reqs[CabKey(n, f)]),
  copies <- {ValueOf(c) : c \in CopiesOf(n, CabKey(n, f))}

(***************************************************************************)
(* CabCallsOwned: the table of every process, the network and the merge    *)
(* rule together implement CabCall for each cab call: only the owner's     *)
(* presses and stops change it, however snapshots are repeated, delayed,   *)
(* lost or looped back, and a restarted owner relearns it at most until    *)
(* its first write.                                                        *)
(***************************************************************************)
CabCallsOwned ==
  /\ \A n \in Elevators, f \in Floors : Call(n, f)!Init
  /\ [][\A n \in Elevators, f \in Floors : [Call(n, f)!Next]_(Call(n, f)!vars)]_vars

(***************************************************************************)
(* CellsOnlyAdvance: a running process never replaces a cell by one that   *)
(* is not newer, in a merge or by a write of its own (set writes without   *)
(* comparing: the clock must be beyond everything merged).                 *)
(***************************************************************************)
CellsOnlyAdvance ==
  [][\A n \in Elevators : phase'[n] # "down" =>
       \A k \in Keys :
         \/ store'[n].reqs[k] = store[n].reqs[k]
         \/ Newer(store'[n].reqs[k].version, store[n].reqs[k].version)]_vars

(* Merging t and then u leaves in the cell what u and then t leaves. *)
Commute(own, t, u) == MergeCell(MergeCell(own, t), u) = MergeCell(MergeCell(own, u), t)

(***************************************************************************)
(* MergeCommutes: "duplicated, delayed, or reordered packets converge by   *)
(* version order" (new_heis/README.md:46): any two tables, in the network  *)
(* or held by a process, leave the same cells in whichever order they are  *)
(* merged.                                                                 *)
(***************************************************************************)
MergeCommutes ==
  \A n \in Elevators : \A t, u \in Tables : \A k \in Keys :
    Commute(store[n].reqs[k], t[k], u[k])

(* No two boots of one writer have left versions of the cell k anywhere. *)
OneBootEach(k) ==
  \A t, u \in Tables :
    /\ t[k].version.writerID = u[k].version.writerID
    /\ t[k].version.counter > 0
    /\ u[k].version.counter > 0
    => t[k].version.bootID = u[k].version.bootID

(***************************************************************************)
(* SameBootsCommute: what is left of it across restarts.  A cell, of a     *)
(* hall call too, merges in any order until versions of two boots of one   *)
(* writer meet in it: the one case in which CompareVersion's order (by     *)
(* boot within a writer, by counter between writers) has cycles.           *)
(***************************************************************************)
SameBootsCommute ==
  \A k \in Keys : OneBootEach(k) =>
    \A n \in Elevators : \A t, u \in Tables : Commute(store[n].reqs[k], t[k], u[k])

(***************************************************************************)
(* CabMergeCommutes: the same for the cab cells alone.  They have a single *)
(* writer, so it holds across restarts too.                                *)
(***************************************************************************)
CabMergeCommutes ==
  \A n \in Elevators : \A t, u \in Tables : \A k \in CabKeys :
    Commute(store[n].reqs[k], t[k], u[k])

-----------------------------------------------------------------------------
(***************************************************************************)
(* Fairness.  A running process broadcasts its snapshot every 150 ms, so   *)
(* although any packet may be lost, no network loses every copy sent from  *)
(* m to n for ever; no network keeps what it has for ever; the startup     *)
(* window ends.  Crashes, presses and service are never forced.            *)
(***************************************************************************)
Current(m) == [id |-> m, requests |-> store[m].reqs]

Deliver(m, n) == \E p \in packets : p = Current(m) /\ ApplyRemote(n, p)

LoseSome == \E p \in packets : Lose(p)

Fairness ==
  /\ WF_vars(LoseSome)
  /\ \A n \in Elevators : WF_vars(EndSync(n)) /\ SF_vars(Send(n))
  /\ \A m \in Elevators : \A n \in Elevators \ {m} :
       SF_vars(phase[m] # "down" /\ Deliver(m, n))

FairSpec == Spec /\ Fairness

AgreeOn(k) ==
  \A m, n \in Elevators :
    phase[m] = "ready" /\ phase[n] = "ready" => store[m].reqs[k] = store[n].reqs[k]

(***************************************************************************)
(* Agreement: once the writes and crashes stop (their number is bounded),  *)
(* the running processes come to hold the same cell and keep it            *)
(* ("converge by version order", new_heis/README.md:46), whatever is       *)
(* lost, delayed or repeated: each cab cell, whoever was restarted, and    *)
(* each hall cell in which no two boots of one writer are left.  Where     *)
(* they are, three cells can be each newer than the one before, and        *)
(* processes and delayed packets can pass them round for ever.             *)
(***************************************************************************)
Agreement ==
  <>[](\A k \in Keys : (k \in CabKeys \/ OneBootEach(k)) => AgreeOn(k))
=============================================================================
