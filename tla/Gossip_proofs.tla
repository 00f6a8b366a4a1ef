---------------------------- MODULE Gossip_proofs ----------------------------
(***************************************************************************)
(* Proofs about Gossip for any set of elevators, floors and hall buttons   *)
(* and any bounds: what a version stamped by CompareVersion's inputs       *)
(* (counter, writer, boot) identifies, and who may overrule whom.          *)
(***************************************************************************)
EXTENDS Gossip, TLAPS

-----------------------------------------------------------------------------
(* Keys and cells. *)

(* A button of a modelled floor has a key in the table, and two cab keys, or  *)
(* a cab key and a hall key, are never the same (model.HallKey, model.CabKey). *)
LEMMA KeyFacts ==
  /\ \A o \in Elevators, f \in Floors : CabKey(o, f) \in Keys /\ CabKey(o, f) \in CabKeys
  /\ \A f \in Floors, d \in HallDirs : HallKey(f, d) \in Keys /\ HallKey(f, d) \in HallKeys
  /\ \A o1, o2, f1, f2 : CabKey(o1, f1) = CabKey(o2, f2) => o1 = o2 /\ f1 = f2
  /\ \A o, f1, f2, d : CabKey(o, f1) # HallKey(f2, d)
  /\ CabKeys \subseteq Keys
<1>1. \A o \in Elevators, f \in Floors : CabKey(o, f) \in CabKeys
  BY DEF CabKeys
<1>2. \A f \in Floors, d \in HallDirs : HallKey(f, d) \in HallKeys
  BY DEF HallKeys
<1>3. \A o1, o2, f1, f2 : CabKey(o1, f1) = CabKey(o2, f2) => o1 = o2 /\ f1 = f2
  BY DEF CabKey
<1>4. \A o, f1, f2, d : CabKey(o, f1) # HallKey(f2, d)
  BY DEF CabKey, HallKey
<1> QED BY <1>1, <1>2, <1>3, <1>4 DEF Keys

(* The entry a map does not have and the empty table have their types. *)
LEMMA ZeroFacts ==
  /\ ZeroCell \in Cell
  /\ EmptyStore \in Store
  /\ \A k \in Keys : EmptyStore.reqs[k] = ZeroCell
  /\ EmptyStore.clock = 0
  BY DEF ZeroCell, ZeroVersion, Cell, Version, EmptyStore, Store, Table

(* Controller.set leaves a table and a clock. *)
LEMMA SetCellType ==
  ASSUME NEW s \in Store, NEW n \in Nat, NEW b \in Nat, NEW k \in Keys, NEW a \in BOOLEAN
  PROVE  SetCell(s, n, b, k, a) \in Store
  BY DEF SetCell, Store, Table, Cell, Version

-----------------------------------------------------------------------------
(* The cells elevator n may write, and what its handlers may turn s0 into: *)
(* every cell is s0's, or a cell of n's own stamped after s0, no two of     *)
(* those with the same stamp.                                               *)
OwnKeys(n) == HallKeys \cup {CabKey(n, f) : f \in Floors}

FreshStamp(s0, s, n, b, v) ==
  v.writerID = n /\ v.bootID = b /\ s0.clock < v.counter /\ v.counter <= s.clock

Stamped(s0, s, n, b) ==
  /\ s.clock >= s0.clock
  /\ \A k \in Keys : \/ s.reqs[k] = s0.reqs[k]
                     \/ k \in OwnKeys(n) /\ FreshStamp(s0, s, n, b, s.reqs[k].version)
  /\ \A k, l \in Keys :
       /\ s.reqs[k] # s0.reqs[k]
       /\ s.reqs[l] # s0.reqs[l]
       /\ s.reqs[k].version = s.reqs[l].version
       => k = l

(* A handler that has written nothing has stamped nothing. *)
LEMMA StampedRefl ==
  ASSUME NEW s \in Store, NEW n, NEW b PROVE Stamped(s, s, n, b)
  BY DEF Stamped, Store

(* One more write of a handler keeps its stamps apart (Controller.set). *)
LEMMA SetCellStamped ==
  ASSUME NEW s0 \in Store, NEW s \in Store, NEW n \in Nat, NEW b \in Nat,
         NEW k \in Keys, k \in OwnKeys(n), NEW a \in BOOLEAN, Stamped(s0, s, n, b)
  PROVE  SetCell(s, n, b, k, a) \in Store /\ Stamped(s0, SetCell(s, n, b, k, a), n, b)
<1>1. SetCell(s, n, b, k, a) \in Store
  BY SetCellType
<1>2. CASE s.reqs[k].active = a
  BY <1>1, <1>2 DEF SetCell
<1>3. CASE s.reqs[k].active # a
  <2> DEFINE v == [counter |-> s.clock + 1, writerID |-> n, bootID |-> b]
             r == SetCell(s, n, b, k, a)
  <2>1. /\ r.clock = s.clock + 1
        /\ r.reqs[k].version = v
        /\ \A l \in Keys : l # k => r.reqs[l] = s.reqs[l]
    BY <1>3 DEF SetCell, Store, Table
  <2>2. s.clock \in Nat /\ s0.clock \in Nat
    BY DEF Store
  <2> HIDE DEF r
  <2>3. r.clock >= s0.clock
    BY <2>1, <2>2 DEF Stamped
  <2>4. \A l \in Keys : l # k =>
          \/ r.reqs[l] = s0.reqs[l]
          \/ l \in OwnKeys(n) /\ FreshStamp(s0, s, n, b, r.reqs[l].version)
    BY <2>1 DEF Stamped
  <2>5. \A l \in Keys : s.reqs[l].version.counter \in Nat
    BY DEF Store, Table, Cell, Version
  <2>6. \A l \in Keys : l # k =>
          \/ r.reqs[l] = s0.reqs[l]
          \/ l \in OwnKeys(n) /\ FreshStamp(s0, r, n, b, r.reqs[l].version)
    BY <2>1, <2>2, <2>4, <2>5 DEF FreshStamp
  <2>7. FreshStamp(s0, r, n, b, r.reqs[k].version)
    BY <2>1, <2>2 DEF FreshStamp, Stamped
  <2>8. \A l \in Keys : l # k /\ r.reqs[l] # s0.reqs[l] => r.reqs[l].version # r.reqs[k].version
    BY <2>1, <2>2, <2>4, <2>5 DEF FreshStamp
  <2>9. \A i, j \in Keys :
          /\ r.reqs[i] # s0.reqs[i]
          /\ r.reqs[j] # s0.reqs[j]
          /\ r.reqs[i].version = r.reqs[j].version
          => i = j
    BY <2>1, <2>8 DEF Stamped
  <2>10. Stamped(s0, r, n, b)
    BY <2>3, <2>6, <2>7, <2>9 DEF Stamped
  <2> QED BY <1>1, <2>10 DEF r
<1> QED BY <1>2, <1>3

(* So does clearFloor, and so does whatever plan does. *)
LEMMA PlannedStamped ==
  ASSUME NEW n \in Elevators, bootID[n] \in Nat,
         NEW s0 \in Store, NEW s \in Store, Stamped(s0, s, n, bootID[n]),
         NEW r \in Planned(n, s)
  PROVE  r \in Store /\ Stamped(s0, r, n, bootID[n])
<1> n \in Nat
  BY ElevatorsAssumption
<1>1. CASE r = s
  BY <1>1
<1>2. ASSUME NEW f \in Floors, NEW d \in HallDirs \cup {Stop}, r = ClearFloor(s, n, bootID[n], f, d)
      PROVE  r \in Store /\ Stamped(s0, r, n, bootID[n])
  <2> DEFINE t == SetCell(s, n, bootID[n], CabKey(n, f), FALSE)
  <2>1. t \in Store /\ Stamped(s0, t, n, bootID[n])
    BY KeyFacts, SetCellStamped DEF OwnKeys
  <2>2. CASE d = Stop
    BY <1>2, <2>1, <2>2 DEF ClearFloor
  <2>3. CASE d # Stop
    <3> HIDE DEF t
    <3>1. HallKey(f, d) \in Keys /\ HallKey(f, d) \in OwnKeys(n)
      BY <2>3, KeyFacts DEF OwnKeys
    <3>2. SetCell(t, n, bootID[n], HallKey(f, d), FALSE) \in Store
          /\ Stamped(s0, SetCell(t, n, bootID[n], HallKey(f, d), FALSE), n, bootID[n])
      BY <2>1, <3>1, SetCellStamped
    <3> QED BY <1>2, <2>3, <3>2 DEF ClearFloor, t
  <2> QED BY <2>2, <2>3
<1> QED BY <1>1, <1>2 DEF Planned

-----------------------------------------------------------------------------
(* What a step does to the tables.                                          *)

(* s0 is elevator n's store after what its handler merged: its clock is past *)
(* every counter it has seen, and each cell is the old one or a newer one    *)
(* taken from a table somewhere.                                             *)
Base(n, s0) ==
  /\ s0 \in Store
  /\ s0.clock >= store[n].clock
  /\ \A k \in Keys : \/ s0.reqs[k] = store[n].reqs[k]
                     \/ \E t \in Tables : /\ s0.reqs[k] = t[k]
                                          /\ t[k].version.counter <= s0.clock
                                          /\ Newer(t[k].version, store[n].reqs[k].version)

(* A handler of n: merge, then write. *)
Write(n) ==
  \E s0, r \in Store :
    /\ Base(n, s0)
    /\ Stamped(s0, r, n, bootID[n])
    /\ store' = [store EXCEPT ![n] = r]
    /\ phase[n] # "down"
    /\ phase' \in [Elevators -> {"down", "sync", "ready"}]
    /\ \A i \in Elevators : phase'[i] = "down" <=> phase[i] = "down"
    /\ UNCHANGED <<bootID, packets>>

(* A table that is in a process or in a packet is a table. *)
LEMMA TablesType ==
  ASSUME TypeOK PROVE \A t \in Tables : t \in Table
  BY DEF TypeOK, Tables, Store, Snapshot

(* Not having merged anything is a way to start writing. *)
LEMMA BaseSelf ==
  ASSUME TypeOK, NEW n \in Elevators, NEW m \in Nat, m >= store[n].clock
  PROVE  /\ [store[n] EXCEPT !.clock = m] \in Store
         /\ Base(n, [store[n] EXCEPT !.clock = m])
  BY DEF TypeOK, Base, Store

(* MergeRequests keeps or advances every cell, and the clock covers them. *)
LEMMA BaseMerge ==
  ASSUME TypeOK, NEW n \in Elevators, NEW p \in packets, NEW m \in Nat,
         Observed(m, store[n].clock, p.requests)
  PROVE  /\ MergeRequests(store[n], p.requests, m) \in Store
         /\ Base(n, MergeRequests(store[n], p.requests, m))
<1> DEFINE s0 == MergeRequests(store[n], p.requests, m)
<1>1. store[n] \in Store /\ p.requests \in Table /\ p.requests \in Tables
  BY DEF TypeOK, Snapshot, Tables
<1>2. /\ s0.clock = m
      /\ \A k \in Keys : s0.reqs[k] = MergeCell(store[n].reqs[k], p.requests[k])
  BY DEF MergeRequests
<1>3. s0 \in Store
  BY <1>1 DEF MergeRequests, MergeCell, Store, Table
<1>4. s0.clock >= store[n].clock /\ \A k \in Keys : p.requests[k].version.counter <= m
  BY <1>1, <1>2 DEF Observed, Store, Table, Cell, Version
<1> HIDE DEF s0
<1>5. Base(n, s0)
  BY <1>1, <1>2, <1>3, <1>4 DEF Base, MergeCell
<1> QED BY <1>3, <1>5 DEF s0

(* Every handler of a running process merges and then writes. *)
LEMMA WriteSteps ==
  ASSUME TypeOK, NEW n \in Elevators
  PROVE  /\ EndSync(n) => Write(n)
         /\ Serve(n) => Write(n)
         /\ \A f \in Floors : PressCab(n, f) => Write(n)
         /\ \A f \in Floors, d \in HallDirs : PressHall(n, f, d) => Write(n)
         /\ \A p \in packets : ApplyRemote(n, p) => Write(n)
<1> n \in Nat /\ bootID[n] \in Nat /\ store[n] \in Store /\ store[n].clock \in Nat
  BY ElevatorsAssumption DEF TypeOK, Store
<1> phase \in [Elevators -> {"down", "sync", "ready"}]
  BY DEF TypeOK
<1>1. \A s0 \in Store : \A s \in Store : \A r \in Planned(n, s) :
        /\ Base(n, s0)
        /\ Stamped(s0, s, n, bootID[n])
        /\ phase[n] # "down"
        /\ Commit(n, r)
        /\ phase' \in [Elevators -> {"down", "sync", "ready"}]
        /\ \A i \in Elevators : phase'[i] = "down" <=> phase[i] = "down"
        /\ UNCHANGED <<bootID, packets>>
        => Write(n)
  BY PlannedStamped DEF Write, Commit
<1>2. \A s \in Store : s \in Planned(n, s) /\ Stamped(s, s, n, bootID[n])
  BY StampedRefl DEF Planned
<1>3. Base(n, store[n])
  BY DEF Base
<1>4. EndSync(n) => Write(n)
  <2> SUFFICES ASSUME EndSync(n) PROVE Write(n)
    OBVIOUS
  <2>1. PICK m \in 0..MaxCounter :
          /\ Observed(m, store[n].clock, store[n].reqs)
          /\ \E s \in Planned(n, [store[n] EXCEPT !.clock = m]) : Commit(n, s)
    BY DEF EndSync
  <2>2. m \in Nat /\ m >= store[n].clock
    BY <2>1, BoundsAssumption DEF Observed
  <2>3. /\ phase' \in [Elevators -> {"down", "sync", "ready"}]
        /\ \A i \in Elevators : phase'[i] = "down" <=> phase[i] = "down"
        /\ phase[n] # "down"
        /\ UNCHANGED <<bootID, packets>>
    BY DEF EndSync
  <2> QED BY <1>1, <1>2, <2>1, <2>2, <2>3, BaseSelf
<1>5. Serve(n) => Write(n)
  BY <1>1, <1>2, <1>3 DEF Serve
<1>6. \A f \in Floors : PressCab(n, f) => Write(n)
  <2> SUFFICES ASSUME NEW f \in Floors, PressCab(n, f) PROVE Write(n)
    OBVIOUS
  <2>1. LET s == SetCell(store[n], n, bootID[n], CabKey(n, f), TRUE)
        IN  s \in Store /\ Stamped(store[n], s, n, bootID[n])
    BY <1>2, KeyFacts, SetCellStamped DEF OwnKeys
  <2> QED BY <1>1, <1>3, <2>1 DEF PressCab
<1>7. \A f \in Floors, d \in HallDirs : PressHall(n, f, d) => Write(n)
  <2> SUFFICES ASSUME NEW f \in Floors, NEW d \in HallDirs, PressHall(n, f, d) PROVE Write(n)
    OBVIOUS
  <2>1. LET s == SetCell(store[n], n, bootID[n], HallKey(f, d), TRUE)
        IN  s \in Store /\ Stamped(store[n], s, n, bootID[n])
    BY <1>2, KeyFacts, SetCellStamped DEF OwnKeys
  <2> QED BY <1>1, <1>3, <2>1 DEF PressHall
<1>8. \A p \in packets : ApplyRemote(n, p) => Write(n)
  <2> SUFFICES ASSUME NEW p \in packets, ApplyRemote(n, p) PROVE Write(n)
    OBVIOUS
  <2>1. PICK m \in 0..MaxCounter :
          /\ Observed(m, store[n].clock, p.requests)
          /\ LET merged == MergeRequests(store[n], p.requests, m)
             IN  Commit(n, merged) \/ \E s \in Planned(n, merged) : Commit(n, s)
    BY DEF ApplyRemote
  <2>2. m \in Nat
    BY BoundsAssumption
  <2>3. phase[n] # "down" /\ UNCHANGED <<phase, bootID, packets>>
    BY DEF ApplyRemote
  <2> QED BY <1>1, <1>2, <2>1, <2>2, <2>3, BaseMerge
<1> QED BY <1>4, <1>5, <1>6, <1>7, <1>8

-----------------------------------------------------------------------------
(* Type correctness. *)

(* The state keeps its shape in every step, and no elevator becomes its own *)
(* peer (ApplyRemote's test of snap.Soft.ID).                               *)
LEMMA TypeStep == TypeOK /\ [Next]_vars => TypeOK'
<1> SUFFICES ASSUME TypeOK, [Next]_vars PROVE TypeOK'
  OBVIOUS
<1>1. ASSUME NEW n \in Elevators, Boot(n) PROVE TypeOK'
  BY <1>1 DEF TypeOK, Boot
<1>2. ASSUME NEW n \in Elevators, Crash(n) PROVE TypeOK'
  BY <1>2, ZeroFacts DEF TypeOK, Crash
<1>3. ASSUME NEW n \in Elevators, Write(n),
             \E S \in SUBSET Elevators : n \notin S /\ peers' = [peers EXCEPT ![n] = S]
      PROVE  TypeOK'
  <2>1. phase' \in [Elevators -> {"down", "sync", "ready"}] /\ bootID' \in [Elevators -> Nat]
        /\ store' \in [Elevators -> Store] /\ packets' \subseteq Snapshot
    BY <1>3 DEF TypeOK, Write
  <2>2. peers' \in [Elevators -> SUBSET Elevators] /\ \A i \in Elevators : i \notin peers'[i]
    BY <1>3 DEF TypeOK
  <2> QED BY <2>1, <2>2 DEF TypeOK
<1>4. ASSUME NEW n \in Elevators, EndSync(n) \/ Serve(n) PROVE TypeOK'
  <2>1. Write(n)
    BY <1>4, WriteSteps
  <2>2. \E gone \in SUBSET peers[n] : peers' = [peers EXCEPT ![n] = @ \ gone]
    BY <1>4 DEF EndSync, Serve, ExpirePeers
  <2>3. \E S \in SUBSET Elevators : n \notin S /\ peers' = [peers EXCEPT ![n] = S]
    BY <2>2 DEF TypeOK
  <2> QED BY <1>3, <2>1, <2>3
<1>5. ASSUME NEW n \in Elevators, NEW f \in Floors,
             PressCab(n, f) \/ \E d \in HallDirs : PressHall(n, f, d)
      PROVE  TypeOK'
  <2>1. Write(n)
    BY <1>5, WriteSteps
  <2>2. peers' = peers
    BY <1>5 DEF PressCab, PressHall
  <2>3. \E S \in SUBSET Elevators : n \notin S /\ peers' = [peers EXCEPT ![n] = S]
    BY <2>2 DEF TypeOK
  <2> QED BY <1>3, <2>1, <2>3
<1>6. ASSUME NEW n \in Elevators, NEW p \in packets, ApplyRemote(n, p) PROVE TypeOK'
  <2>1. Write(n)
    BY <1>6, WriteSteps
  <2>2. peers' = [peers EXCEPT ![n] = @ \cup ({p.id} \ {n})] /\ p.id \in Elevators
    BY <1>6 DEF ApplyRemote, ObservePeer, TypeOK, Snapshot
  <2>3. \E S \in SUBSET Elevators : n \notin S /\ peers' = [peers EXCEPT ![n] = S]
    BY <2>2 DEF TypeOK
  <2> QED BY <1>3, <2>1, <2>3
<1>7. ASSUME NEW n \in Elevators, Send(n) PROVE TypeOK'
  BY <1>7 DEF TypeOK, Send, Snapshot, Store
<1>8. ASSUME NEW p \in packets, Lose(p) PROVE TypeOK'
  BY <1>8 DEF TypeOK, Lose
<1>9. CASE UNCHANGED vars
  BY <1>9 DEF TypeOK, vars
<1> QED BY <1>1, <1>2, <1>4, <1>5, <1>6, <1>7, <1>8, <1>9 DEF Next

(* The initial state has its type. *)
LEMMA TypeInit == Init => TypeOK
  BY ZeroFacts DEF Init, TypeOK

(* TypeCorrect: in every reachable state the tables, clocks and packets are   *)
(* what their Go types promise and no elevator is a live peer of its own.     *)
THEOREM TypeCorrect == Spec => []TypeOK
  BY TypeInit, TypeStep, PTL DEF Spec

-----------------------------------------------------------------------------
(***************************************************************************)
(* The inductive invariant.  VersionIdentifiesWrite needs to know what the *)
(* versions of a running boot of n look like: their counters have not      *)
(* passed its clock (Stamps), so the next stamp is new; boots before the   *)
(* current one can write no more.  OwnerCabIsLatest needs the single       *)
(* writer of a cab key, and that the owner holds its latest write.         *)
(***************************************************************************)
Running(n) == phase[n] # "down"

Written(c) == c.version.counter >= 1 /\ c.version.bootID >= 1 /\ c.version.writerID \in Elevators

(* A cell nobody wrote is the zero cell; a process that runs was started. *)
CellsWritten ==
  /\ \A t \in Tables : \A k \in Keys : t[k] = ZeroCell \/ Written(t[k])
  /\ \A n \in Elevators : Running(n) => bootID[n] >= 1

(* No version is from a boot to come, and none of the running boot is past *)
(* its clock.                                                              *)
Stamps ==
  \A t \in Tables : \A k \in Keys : \A n \in Elevators :
    t[k].version.writerID = n =>
      /\ t[k].version.bootID <= bootID[n]
      /\ Running(n) /\ t[k].version.bootID = bootID[n] => t[k].version.counter <= store[n].clock

(* Every counter in a table is within the clock of the process that holds it. *)
ClockDominates ==
  \A n \in Elevators : \A k \in Keys : store[n].reqs[k].version.counter <= store[n].clock

(* Only its owner writes a cab cell. *)
CabSingleWriter ==
  \A t \in Tables : \A n \in Elevators : \A f \in Floors :
    t[CabKey(n, f)] = ZeroCell \/ t[CabKey(n, f)].version.writerID = n

(* A running owner holds the last cab cell its running boot wrote. *)
OwnerHoldsLatest ==
  \A n \in Elevators : \A f \in Floors : \A t \in Tables :
    LET copy == t[CabKey(n, f)].version
        own  == store[n].reqs[CabKey(n, f)].version
    IN  Running(n) /\ copy.writerID = n /\ copy.bootID = bootID[n] =>
          own.writerID = n /\ own.bootID = bootID[n] /\ copy.counter <= own.counter

IInv ==
  /\ TypeOK
  /\ CellsWritten
  /\ Stamps
  /\ ClockDominates
  /\ VersionIdentifiesWrite
  /\ CabSingleWriter
  /\ OwnerHoldsLatest

-----------------------------------------------------------------------------
(* A write of n: each cell afterwards is a cell from before, or one of n's   *)
(* own, stamped past n's clock.                                              *)
LEMMA WriteCells ==
  ASSUME TypeOK, ClockDominates, NEW n \in Elevators, NEW s0 \in Store, NEW r \in Store,
         Base(n, s0), Stamped(s0, r, n, bootID[n]),
         store' = [store EXCEPT ![n] = r], packets' = packets
  PROVE  /\ \A k \in Keys : \E u \in Tables : s0.reqs[k] = u[k]
         /\ \A k \in Keys : s0.reqs[k].version.counter <= s0.clock
         /\ \A t \in Tables' : \A k \in Keys :
              \/ \E u \in Tables : t[k] = u[k]
              \/ /\ t = r.reqs
                 /\ k \in OwnKeys(n)
                 /\ r.reqs[k] # s0.reqs[k]
                 /\ FreshStamp(s0, r, n, bootID[n], r.reqs[k].version)
<1>1. store[n].reqs \in Tables
  BY DEF Tables
<1>2. \A k \in Keys : \E u \in Tables : s0.reqs[k] = u[k]
  BY <1>1 DEF Base
<1>3. \A k \in Keys : s0.reqs[k].version.counter <= s0.clock
  <2> SUFFICES ASSUME NEW k \in Keys PROVE s0.reqs[k].version.counter <= s0.clock
    OBVIOUS
  <2>1. CASE s0.reqs[k] = store[n].reqs[k]
    <3>1. store[n].reqs[k].version.counter \in Nat /\ store[n].clock \in Nat /\ s0.clock \in Nat
      BY DEF TypeOK, Store, Table, Cell, Version
    <3> QED BY <2>1, <3>1 DEF Base, ClockDominates
  <2>2. CASE s0.reqs[k] # store[n].reqs[k]
    BY <2>2 DEF Base
  <2> QED BY <2>1, <2>2
<1>4. \A t \in Tables' : t \in Tables \/ t = r.reqs
  BY DEF Tables, TypeOK
<1>5. \A k \in Keys :
        \/ \E u \in Tables : r.reqs[k] = u[k]
        \/ /\ k \in OwnKeys(n)
           /\ r.reqs[k] # s0.reqs[k]
           /\ FreshStamp(s0, r, n, bootID[n], r.reqs[k].version)
  BY <1>2 DEF Stamped
<1> QED BY <1>2, <1>3, <1>4, <1>5

(* The step of the invariant for a handler that merges and writes. *)
LEMMA InvWrite ==
  ASSUME IInv, TypeOK', NEW n \in Elevators, Write(n)
  PROVE  IInv'
<1> PICK s0 \in Store, r \in Store :
      /\ Base(n, s0)
      /\ Stamped(s0, r, n, bootID[n])
      /\ store' = [store EXCEPT ![n] = r]
      /\ phase[n] # "down"
      /\ \A i \in Elevators : phase'[i] = "down" <=> phase[i] = "down"
      /\ UNCHANGED <<bootID, packets>>
  BY DEF Write
<1> USE DEF Running
<1> DEFINE b == bootID[n]
<1>0. /\ TypeOK /\ CellsWritten /\ Stamps /\ ClockDominates /\ VersionIdentifiesWrite
      /\ CabSingleWriter /\ OwnerHoldsLatest
  BY DEF IInv
<1>1. /\ \A k \in Keys : \E u \in Tables : s0.reqs[k] = u[k]
      /\ \A k \in Keys : s0.reqs[k].version.counter <= s0.clock
      /\ \A t \in Tables' : \A k \in Keys :
           \/ \E u \in Tables : t[k] = u[k]
           \/ /\ t = r.reqs
              /\ k \in OwnKeys(n)
              /\ r.reqs[k] # s0.reqs[k]
              /\ FreshStamp(s0, r, n, b, r.reqs[k].version)
  BY <1>0, WriteCells
<1>2. /\ store[n].clock \in Nat /\ s0.clock \in Nat /\ r.clock \in Nat /\ b \in Nat
      /\ store[n].clock <= s0.clock /\ s0.clock <= r.clock
      /\ b >= 1
  BY <1>0 DEF TypeOK, Store, Base, Stamped, CellsWritten
<1>3. /\ \A t \in Tables : \A k \in Keys :
           t[k].version.counter \in Nat /\ t[k].version.bootID \in Nat
      /\ \A k \in Keys : r.reqs[k].version.counter \in Nat /\ s0.reqs[k].version.counter \in Nat
  BY <1>0, TablesType DEF Store, Table, Cell, Version
<1>4. /\ store'[n] = r
      /\ \A i \in Elevators : i # n => store'[i] = store[i]
      /\ \A i \in Elevators : Running(i)' <=> Running(i)
  BY <1>0 DEF TypeOK
<1>5. CellsWritten'
  <2>1. \A t \in Tables' : \A k \in Keys : t[k] = ZeroCell \/ Written(t[k])
    BY <1>0, <1>1, <1>2, <1>3 DEF CellsWritten, Written, FreshStamp
  <2> QED BY <2>1, <1>0, <1>4 DEF CellsWritten
<1>6. Stamps'
  <2> SUFFICES ASSUME NEW t \in Tables', NEW k \in Keys, NEW i \in Elevators,
                      t[k].version.writerID = i
               PROVE  /\ t[k].version.bootID <= bootID[i]
                      /\ Running(i) /\ t[k].version.bootID = bootID[i] =>
                           t[k].version.counter <= store'[i].clock
    BY <1>4 DEF Stamps
  <2>1. CASE \E u \in Tables : t[k] = u[k]
    <3>1. /\ t[k].version.bootID <= bootID[i]
          /\ Running(i) /\ t[k].version.bootID = bootID[i] =>
               t[k].version.counter <= store[i].clock /\ t[k].version.counter \in Nat
      BY <1>0, <1>3, <2>1 DEF Stamps
    <3> QED BY <3>1, <1>2, <1>4
  <2>2. CASE FreshStamp(s0, r, n, b, r.reqs[k].version) /\ t = r.reqs
    BY <1>2, <1>4, <2>2 DEF FreshStamp
  <2> QED BY <1>1, <2>1, <2>2
<1>7. ClockDominates'
  <2>1. \A k \in Keys : r.reqs[k].version.counter <= r.clock
    BY <1>1, <1>2, <1>3 DEF Stamped, FreshStamp
  <2> QED BY <1>0, <1>4, <2>1 DEF ClockDominates
<1>8. VersionIdentifiesWrite'
  <2> SUFFICES ASSUME NEW t \in Tables', NEW u \in Tables', NEW k \in Keys, NEW l \in Keys,
                      t[k].version = u[l].version, t[k].version.counter > 0
               PROVE  k = l /\ t[k] = u[l]
    BY DEF VersionIdentifiesWrite
  <2>1. \A w \in Tables : \A j \in Keys : ~FreshStamp(s0, r, n, b, w[j].version)
    BY <1>0, <1>2, <1>3 DEF FreshStamp, Stamps
  <2>2. CASE (\E v \in Tables : t[k] = v[k]) /\ (\E w \in Tables : u[l] = w[l])
    BY <1>0, <2>2 DEF VersionIdentifiesWrite
  <2>3. CASE ~((\E v \in Tables : t[k] = v[k]) /\ (\E w \in Tables : u[l] = w[l]))
    <3>1. FreshStamp(s0, r, n, b, t[k].version)
      BY <1>1, <2>3
    <3>2. /\ t = r.reqs /\ r.reqs[k] # s0.reqs[k]
          /\ u = r.reqs /\ r.reqs[l] # s0.reqs[l]
      BY <1>1, <2>1, <3>1
    <3>3. k = l
      BY <3>2 DEF Stamped
    <3> QED BY <3>2, <3>3
  <2> QED BY <2>2, <2>3
<1>9. CabSingleWriter'
  <2> SUFFICES ASSUME NEW t \in Tables', NEW i \in Elevators, NEW f \in Floors
               PROVE  t[CabKey(i, f)] = ZeroCell \/ t[CabKey(i, f)].version.writerID = i
    BY DEF CabSingleWriter
  <2>1. CabKey(i, f) \in Keys
    BY KeyFacts
  <2>2. CabKey(i, f) \in OwnKeys(n) => i = n
    BY KeyFacts DEF OwnKeys, HallKeys
  <2>3. CASE \E u \in Tables : t[CabKey(i, f)] = u[CabKey(i, f)]
    BY <1>0, <2>3 DEF CabSingleWriter
  <2>4. CASE ~\E u \in Tables : t[CabKey(i, f)] = u[CabKey(i, f)]
    BY <1>1, <2>1, <2>2, <2>4 DEF FreshStamp
  <2> QED BY <2>3, <2>4
<1>10. OwnerHoldsLatest'
  <2> SUFFICES ASSUME NEW i \in Elevators, NEW f \in Floors, NEW t \in Tables', Running(i),
                      t[CabKey(i, f)].version.writerID = i,
                      t[CabKey(i, f)].version.bootID = bootID[i]
               PROVE  LET own == store'[i].reqs[CabKey(i, f)].version
                      IN  /\ own.writerID = i /\ own.bootID = bootID[i]
                          /\ t[CabKey(i, f)].version.counter <= own.counter
    BY <1>4 DEF OwnerHoldsLatest
  <2> DEFINE k == CabKey(i, f)
  <2>1. k \in Keys
    BY KeyFacts
  <2>2. CASE i # n
    <3>1. ~(k \in OwnKeys(n))
      BY <2>2, KeyFacts DEF OwnKeys, HallKeys
    <3>2. \E u \in Tables : t[k] = u[k]
      BY <1>1, <2>1, <3>1
    <3> QED BY <1>0, <1>4, <2>2, <3>2 DEF OwnerHoldsLatest
  <2>3. CASE i = n
    <3>1. \A u \in Tables : \A j \in Keys :
            u[j].version.writerID = n /\ u[j].version.bootID = b => u[j].version.counter <= store[n].clock
      BY <1>0 DEF Stamps
    <3>2. s0.reqs[k] = store[n].reqs[k] \/
          \E u \in Tables : s0.reqs[k] = u[k] /\ Newer(u[k].version, store[n].reqs[k].version)
      BY <2>1 DEF Base
    <3>3. \A u \in Tables : u[k].version.writerID = n /\ u[k].version.bootID = b =>
            /\ store[n].reqs[k].version.writerID = n
            /\ store[n].reqs[k].version.bootID = b
            /\ u[k].version.counter <= store[n].reqs[k].version.counter
      BY <1>0, <2>3 DEF OwnerHoldsLatest
    <3>4. \A u \in Tables : u[k].version.writerID = n /\ u[k].version.bootID = b =>
            s0.reqs[k] = store[n].reqs[k]
      <4> SUFFICES ASSUME NEW u \in Tables, u[k].version.writerID = n, u[k].version.bootID = b,
                          s0.reqs[k] # store[n].reqs[k]
                   PROVE  FALSE
        OBVIOUS
      <4>1. PICK w \in Tables : s0.reqs[k] = w[k] /\ Newer(w[k].version, store[n].reqs[k].version)
        BY <3>2
      <4>2. /\ store[n].reqs[k].version.writerID = n
            /\ store[n].reqs[k].version.bootID = b
            /\ store[n].reqs[k].version.counter \in Nat
        BY <1>0, <2>1, <3>3 DEF TypeOK, Store, Table, Cell, Version
      <4>3. w[k] = ZeroCell \/ w[k].version.writerID = n
        BY <1>0, <2>3 DEF CabSingleWriter
      <4>4. w[k] # ZeroCell
        BY <1>2, <4>1, <4>2, ElevatorsAssumption DEF ZeroCell, ZeroVersion, Newer
      <4>5. w[k].version.bootID <= b
        BY <1>0, <2>1, <4>3, <4>4 DEF Stamps
      <4>6. w[k].version.bootID = b
        BY <1>2, <1>3, <2>1, <4>1, <4>2, <4>3, <4>4, <4>5 DEF Newer
      <4>7. w[k].version.counter <= store[n].reqs[k].version.counter
        BY <3>3, <4>3, <4>4, <4>6
      <4> QED BY <1>3, <2>1, <4>1, <4>2, <4>3, <4>4, <4>6, <4>7, ElevatorsAssumption
            DEF Newer
    <3>5. CASE \E u \in Tables : t[k] = u[k]
      <4>1. /\ s0.reqs[k] = store[n].reqs[k]
            /\ s0.reqs[k].version.writerID = n
            /\ s0.reqs[k].version.bootID = b
            /\ t[k].version.counter <= s0.reqs[k].version.counter
        BY <2>3, <3>3, <3>4, <3>5
      <4>2. t[k].version.counter \in Nat /\ s0.reqs[k].version.counter \in Nat
        BY <1>3, <2>1, <3>5
      <4>3. r.reqs[k] = s0.reqs[k] \/ FreshStamp(s0, r, n, b, r.reqs[k].version)
        BY <2>1 DEF Stamped
      <4>4. s0.reqs[k].version.counter <= s0.clock
        BY <1>1, <2>1
      <4> HIDE DEF k
      <4>5. r.reqs[k].version.writerID = n /\ r.reqs[k].version.bootID = b
            /\ t[k].version.counter <= r.reqs[k].version.counter
        BY <1>2, <1>3, <2>1, <4>1, <4>2, <4>3, <4>4 DEF FreshStamp
      <4> QED BY <1>4, <2>3, <4>5 DEF k
    <3>6. CASE ~\E u \in Tables : t[k] = u[k]
      <4>1. t = r.reqs /\ FreshStamp(s0, r, n, b, r.reqs[k].version)
        BY <1>1, <2>1, <3>6
      <4> QED BY <1>3, <1>4, <2>1, <2>3, <4>1 DEF FreshStamp
    <3> QED BY <3>5, <3>6
  <2> QED BY <2>2, <2>3
<1> QED BY <1>5, <1>6, <1>7, <1>8, <1>9, <1>10 DEF IInv

(***************************************************************************)
(* The steps that write no cell: a process starts or dies, a snapshot goes *)
(* into or out of the network.                                             *)
(***************************************************************************)
LEMMA InvNoWrite ==
  ASSUME IInv, TypeOK',
         \A t \in Tables' : t \in Tables \/ t = EmptyStore.reqs,
         \A i \in Elevators :
           /\ store'[i] = store[i] \/ store'[i] = EmptyStore
           /\ bootID'[i] >= bootID[i]
           /\ Running(i)' /\ bootID'[i] = bootID[i] => Running(i) /\ store'[i] = store[i]
  PROVE  IInv'
<1>0. /\ TypeOK /\ CellsWritten /\ Stamps /\ ClockDominates /\ VersionIdentifiesWrite
      /\ CabSingleWriter /\ OwnerHoldsLatest
  BY DEF IInv
<1>1. /\ \A k \in Keys : EmptyStore.reqs[k] = ZeroCell
      /\ EmptyStore.clock = 0
      /\ ZeroCell.version.counter = 0 /\ ZeroCell.version.writerID = 0 /\ ZeroCell.version.bootID = 0
  BY ZeroFacts DEF ZeroCell, ZeroVersion
<1>2. \A i \in Elevators : bootID[i] \in Nat /\ bootID'[i] \in Nat /\ i \in Nat
  BY <1>0, ElevatorsAssumption DEF TypeOK
<1>3. \A t \in Tables : \A k \in Keys :
        t[k].version.counter \in Nat /\ t[k].version.bootID \in Nat
  BY <1>0, TablesType DEF Table, Cell, Version
<1>4. CellsWritten'
  <2>1. \A t \in Tables' : \A k \in Keys : t[k] = ZeroCell \/ Written(t[k])
    BY <1>0, <1>1 DEF CellsWritten
  <2>2. ASSUME NEW i \in Elevators, Running(i)' PROVE bootID'[i] >= 1
    BY <1>0, <1>2, <2>2 DEF CellsWritten
  <2> QED BY <2>1, <2>2 DEF CellsWritten
<1>5. Stamps'
  <2> SUFFICES ASSUME NEW t \in Tables', NEW k \in Keys, NEW i \in Elevators,
                      t[k].version.writerID = i
               PROVE  /\ t[k].version.bootID <= bootID'[i]
                      /\ Running(i)' /\ t[k].version.bootID = bootID'[i] =>
                           t[k].version.counter <= store'[i].clock
    BY DEF Stamps
  <2>1. CASE t \in Tables
    <3>1. /\ t[k].version.bootID <= bootID[i]
          /\ Running(i) /\ t[k].version.bootID = bootID[i] =>
               t[k].version.counter <= store[i].clock
      BY <1>0, <2>1 DEF Stamps
    <3>2. t[k].version.bootID \in Nat
      BY <1>3, <2>1
    <3> QED BY <1>2, <3>1, <3>2
  <2>2. CASE t = EmptyStore.reqs
    <3>1. store'[i].clock \in Nat
      BY DEF TypeOK, Store
    <3> QED BY <1>1, <1>2, <2>2, <3>1
  <2> QED BY <2>1, <2>2
<1>6. ClockDominates'
  BY <1>0, <1>1 DEF ClockDominates
<1>7. VersionIdentifiesWrite'
  <2> SUFFICES ASSUME NEW t \in Tables', NEW u \in Tables', NEW k \in Keys, NEW l \in Keys,
                      t[k].version = u[l].version, t[k].version.counter > 0
               PROVE  k = l /\ t[k] = u[l]
    BY DEF VersionIdentifiesWrite
  <2>1. t \in Tables /\ u \in Tables
    BY <1>1
  <2> QED BY <1>0, <2>1 DEF VersionIdentifiesWrite
<1>8. CabSingleWriter'
  BY <1>0, <1>1, KeyFacts DEF CabSingleWriter
<1>9. OwnerHoldsLatest'
  <2> SUFFICES ASSUME NEW i \in Elevators, NEW f \in Floors, NEW t \in Tables', Running(i)',
                      t[CabKey(i, f)].version.writerID = i,
                      t[CabKey(i, f)].version.bootID = bootID'[i]
               PROVE  LET own == store'[i].reqs[CabKey(i, f)].version
                      IN  /\ own.writerID = i /\ own.bootID = bootID'[i]
                          /\ t[CabKey(i, f)].version.counter <= own.counter
    BY DEF OwnerHoldsLatest
  <2>1. CabKey(i, f) \in Keys
    BY KeyFacts
  <2>2. bootID'[i] >= 1
    BY <1>4 DEF CellsWritten
  <2>3. t \in Tables
    BY <1>1, <2>1, <2>2
  <2>4. bootID'[i] = bootID[i]
    BY <1>0, <1>2, <2>1, <2>3 DEF Stamps
  <2> QED BY <1>0, <2>3, <2>4 DEF OwnerHoldsLatest
<1> QED BY <1>4, <1>5, <1>6, <1>7, <1>8, <1>9 DEF IInv

(* The invariant holds at first. *)
LEMMA InvInit == Init => IInv
<1> SUFFICES ASSUME Init PROVE IInv
  OBVIOUS
<1>1. TypeOK
  BY TypeInit
<1>2. \A t \in Tables : \A k \in Keys : t[k] = ZeroCell
  BY ZeroFacts DEF Init, Tables
<1>3. \A n \in Elevators : store[n] = EmptyStore /\ ~Running(n) /\ n \in Nat /\ bootID[n] = 0
  BY ElevatorsAssumption DEF Init, Running
<1>4. ZeroCell.version.counter = 0 /\ ZeroCell.version.writerID = 0 /\ ZeroCell.version.bootID = 0
  BY DEF ZeroCell, ZeroVersion
<1>5. CellsWritten /\ Stamps
  BY <1>2, <1>3, <1>4 DEF CellsWritten, Stamps
<1>6. ClockDominates
  BY <1>3, <1>4, ZeroFacts DEF ClockDominates
<1>7. VersionIdentifiesWrite
  BY <1>2, <1>4 DEF VersionIdentifiesWrite
<1>8. CabSingleWriter /\ OwnerHoldsLatest
  BY <1>2, <1>3, KeyFacts DEF CabSingleWriter, OwnerHoldsLatest
<1> QED BY <1>1, <1>5, <1>6, <1>7, <1>8 DEF IInv

(* Every step keeps it. *)
LEMMA InvStep == IInv /\ [Next]_vars => IInv'
<1> SUFFICES ASSUME IInv, [Next]_vars PROVE IInv'
  OBVIOUS
<1>0. TypeOK /\ TypeOK'
  BY TypeStep DEF IInv
<1>1. ASSUME NEW n \in Elevators, Boot(n) PROVE IInv'
  <2>1. Tables' = Tables
    BY <1>1 DEF Boot, Tables
  <2>2. \A i \in Elevators :
           /\ store'[i] = store[i] \/ store'[i] = EmptyStore
           /\ bootID'[i] >= bootID[i]
           /\ Running(i)' /\ bootID'[i] = bootID[i] => Running(i) /\ store'[i] = store[i]
    BY <1>0, <1>1 DEF Boot, TypeOK, Running
  <2> QED BY <1>0, <2>1, <2>2, InvNoWrite
<1>2. ASSUME NEW n \in Elevators, Crash(n) PROVE IInv'
  <2>1. \A t \in Tables' : t \in Tables \/ t = EmptyStore.reqs
    BY <1>0, <1>2 DEF Crash, Tables, TypeOK
  <2>2. \A i \in Elevators :
           /\ store'[i] = store[i] \/ store'[i] = EmptyStore
           /\ bootID'[i] >= bootID[i]
           /\ Running(i)' /\ bootID'[i] = bootID[i] => Running(i) /\ store'[i] = store[i]
    BY <1>0, <1>2 DEF Crash, TypeOK, Running
  <2> QED BY <1>0, <2>1, <2>2, InvNoWrite
<1>3. ASSUME NEW n \in Elevators, Write(n) PROVE IInv'
  BY <1>0, <1>3, InvWrite
<1>4. ASSUME NEW n \in Elevators,
             \/ EndSync(n)
             \/ Serve(n)
             \/ \E f \in Floors : PressCab(n, f) \/ \E d \in HallDirs : PressHall(n, f, d)
             \/ \E p \in packets : ApplyRemote(n, p)
      PROVE  IInv'
  BY <1>0, <1>3, <1>4, WriteSteps
<1>5. ASSUME UNCHANGED <<phase, bootID, store>>, \A p \in packets' : p.requests \in Tables
      PROVE  IInv'
  <2>1. \A t \in Tables' : t \in Tables
    BY <1>5 DEF Tables
  <2>2. \A i \in Elevators :
           /\ store'[i] = store[i] \/ store'[i] = EmptyStore
           /\ bootID'[i] >= bootID[i]
           /\ Running(i)' /\ bootID'[i] = bootID[i] => Running(i) /\ store'[i] = store[i]
    BY <1>0, <1>5 DEF TypeOK, Running
  <2> QED BY <1>0, <2>1, <2>2, InvNoWrite
<1>6. ASSUME NEW n \in Elevators, Send(n) PROVE IInv'
  <2>1. \A p \in packets' : p.requests \in Tables
    BY <1>6 DEF Send, Tables
  <2> QED BY <1>5, <1>6, <2>1 DEF Send
<1>7. ASSUME NEW p \in packets, Lose(p) PROVE IInv'
  <2>1. \A q \in packets' : q.requests \in Tables
    BY <1>7 DEF Lose, Tables
  <2> QED BY <1>5, <1>7, <2>1 DEF Lose
<1>8. CASE UNCHANGED vars
  <2>1. \A q \in packets' : q.requests \in Tables
    BY <1>8 DEF vars, Tables
  <2> QED BY <1>5, <1>8, <2>1 DEF vars
<1> QED BY <1>1, <1>2, <1>4, <1>6, <1>7, <1>8 DEF Next

(* The inductive invariant holds in every reachable state. *)
THEOREM Invariant == Spec => []IInv
  BY InvInit, InvStep, PTL DEF Spec

(* UniqueVersions: one version is one write, for any number of elevators,     *)
(* restarts, losses and duplicates.  It is what lets CompareVersion alone     *)
(* decide a merge.                                                            *)
THEOREM UniqueVersions == Spec => []VersionIdentifiesWrite
<1>1. IInv => VersionIdentifiesWrite
  BY DEF IInv
<1> QED BY <1>1, Invariant, PTL

-----------------------------------------------------------------------------
(* The boots of one writer order its versions, boot first.                   *)
LEMMA OwnerLatestLemma == IInv => OwnerCabIsLatest
<1> SUFFICES ASSUME IInv, NEW n \in Elevators, NEW f \in Floors, Running(n), NEW t \in Tables,
                    Newer(t[CabKey(n, f)].version, store[n].reqs[CabKey(n, f)].version)
             PROVE  /\ t[CabKey(n, f)].version.bootID < bootID[n]
                    /\ store[n].reqs[CabKey(n, f)].version.bootID < bootID[n]
  BY DEF OwnerCabIsLatest, Running
<1> DEFINE copy == t[CabKey(n, f)]
           own  == store[n].reqs[CabKey(n, f)]
<1>0. /\ TypeOK /\ CellsWritten /\ Stamps /\ CabSingleWriter /\ OwnerHoldsLatest
      /\ CabKey(n, f) \in Keys /\ n \in Nat /\ store[n].reqs \in Tables
  BY KeyFacts, ElevatorsAssumption DEF IInv, Tables
<1>1. /\ copy.version.counter \in Nat /\ own.version.counter \in Nat
      /\ copy.version.bootID \in Nat /\ own.version.bootID \in Nat
      /\ bootID[n] \in Nat /\ bootID[n] >= 1
  BY <1>0, TablesType DEF Table, Cell, Version, TypeOK, CellsWritten
<1>2. /\ copy = ZeroCell \/ copy.version.writerID = n
      /\ own = ZeroCell \/ own.version.writerID = n
  BY <1>0 DEF CabSingleWriter
<1>3. ZeroCell.version.counter = 0 /\ ZeroCell.version.writerID = 0 /\ ZeroCell.version.bootID = 0
  BY DEF ZeroCell, ZeroVersion
<1>4. /\ copy.version.writerID = n => copy.version.bootID <= bootID[n]
      /\ own.version.writerID = n => own.version.bootID <= bootID[n]
  BY <1>0 DEF Stamps
<1>5. copy.version.writerID = n /\ copy.version.bootID = bootID[n] =>
        own.version.writerID = n /\ own.version.bootID = bootID[n]
        /\ copy.version.counter <= own.version.counter
  BY <1>0 DEF OwnerHoldsLatest
<1> HIDE DEF copy, own
<1>6. Newer(copy.version, own.version)
  BY DEF copy, own
<1>7. copy.version.bootID # bootID[n]
  BY <1>0, <1>1, <1>2, <1>3, <1>5, <1>6 DEF Newer
<1>8. copy.version.bootID < bootID[n]
  BY <1>1, <1>2, <1>3, <1>4, <1>7
<1>9. own.version.bootID < bootID[n]
  <2>1. CASE own = ZeroCell
    BY <1>1, <1>3, <2>1
  <2>2. CASE own.version.writerID = n /\ copy.version.writerID = n
    BY <1>0, <1>1, <1>4, <1>6, <1>8, <2>2 DEF Newer
  <2>3. CASE own.version.writerID = n /\ copy = ZeroCell
    BY <1>0, <1>1, <1>3, <1>4, <1>6, <2>3 DEF Newer
  <2> QED BY <1>2, <2>1, <2>2, <2>3
<1> QED BY <1>8, <1>9 DEF copy, own

(* OwnerLatest: whatever copies of a cab cell are delayed, duplicated or      *)
(* echoed back, none written since the owner's last start can overrule what   *)
(* the owner has: a served cab call does not come back by gossip.             *)
THEOREM OwnerLatest == Spec => []OwnerCabIsLatest
  BY OwnerLatestLemma, Invariant, PTL

(* Between written cells of one writer, boot and then counter decide: merging *)
(* is taking the maximum, so its order does not matter.                       *)
LEMMA CabCommuteLemma == IInv => CabMergeCommutes
<1> SUFFICES ASSUME IInv, NEW n \in Elevators, NEW t \in Tables, NEW u \in Tables, NEW k \in CabKeys
             PROVE  Commute(store[n].reqs[k], t[k], u[k])
  BY DEF CabMergeCommutes
<1>0. /\ CellsWritten /\ VersionIdentifiesWrite /\ CabSingleWriter
      /\ k \in Keys /\ store[n].reqs \in Tables
  BY KeyFacts DEF IInv, Tables
<1>1. PICK o \in Elevators, f \in Floors : k = CabKey(o, f)
  BY DEF CabKeys
<1> DEFINE C == {w[k] : w \in Tables}
<1>2. \A c \in C : /\ c.version.counter \in Nat /\ c.version.bootID \in Nat
                   /\ \/ c = ZeroCell
                      \/ /\ c.version.writerID = o
                         /\ c.version.counter >= 1 /\ c.version.bootID >= 1
  <2> SUFFICES ASSUME NEW w \in Tables
               PROVE  /\ w[k].version.counter \in Nat /\ w[k].version.bootID \in Nat
                      /\ \/ w[k] = ZeroCell
                         \/ /\ w[k].version.writerID = o
                            /\ w[k].version.counter >= 1 /\ w[k].version.bootID >= 1
    OBVIOUS
  <2>1. w[k].version.counter \in Nat /\ w[k].version.bootID \in Nat
    BY <1>0, TablesType DEF IInv, Table, Cell, Version
  <2>2. w[k] = ZeroCell \/ w[k].version.writerID = o
    BY <1>0, <1>1 DEF CabSingleWriter
  <2>3. w[k] = ZeroCell \/ (w[k].version.counter >= 1 /\ w[k].version.bootID >= 1)
    BY <1>0 DEF CellsWritten, Written
  <2> QED BY <2>1, <2>2, <2>3
<1>3. \A c, d \in C : c.version = d.version /\ c.version.counter > 0 => c = d
  BY <1>0 DEF VersionIdentifiesWrite
<1>4. ZeroCell.version.counter = 0 /\ ZeroCell.version.writerID = 0 /\ ZeroCell.version.bootID = 0
      /\ o \in Nat
  BY ElevatorsAssumption DEF ZeroCell, ZeroVersion
<1>5. \A c \in C : c.version \in Version
  BY <1>0, TablesType DEF IInv, Table, Cell
<1>6. \A c, d \in C : c = d \/ Newer(c.version, d.version) \/ Newer(d.version, c.version)
  <2> SUFFICES ASSUME NEW c \in C, NEW d \in C, c # d,
                      ~Newer(c.version, d.version), ~Newer(d.version, c.version)
               PROVE  FALSE
    OBVIOUS
  <2> HIDE DEF C
  <2>1. /\ c.version.writerID = d.version.writerID
        /\ c.version.counter = d.version.counter
        /\ c.version.bootID = d.version.bootID
        /\ c.version.counter > 0
    BY <1>2, <1>4 DEF Newer
  <2>2. c.version = d.version
    BY <1>5, <2>1 DEF Version
  <2> QED BY <1>3, <2>1, <2>2
<1>7. \A c, d, e \in C : Newer(c.version, d.version) /\ Newer(d.version, e.version)
                          => Newer(c.version, e.version)
  <2> HIDE DEF C
  <2> QED BY <1>2, <1>4 DEF Newer
<1>8. \A c, d \in C : ~(Newer(c.version, d.version) /\ Newer(d.version, c.version))
  <2> HIDE DEF C
  <2> QED BY <1>2, <1>4 DEF Newer
<1>9. store[n].reqs[k] \in C /\ t[k] \in C /\ u[k] \in C
  BY <1>0
<1> HIDE DEF C
<1> QED BY <1>6, <1>7, <1>8, <1>9 DEF Commute, MergeCell

(* CabConverges: cab cells can be merged in any order, across restarts, for   *)
(* any number of elevators (hall cells cannot, see MergeCommutes).            *)
THEOREM CabConverges == Spec => []CabMergeCommutes
  BY CabCommuteLemma, Invariant, PTL

(* A handler's cells are newer than those they replace.                       *)
LEMMA AdvanceWrite ==
  ASSUME IInv, NEW n \in Elevators, Write(n), NEW i \in Elevators, NEW k \in Keys
  PROVE  \/ store'[i].reqs[k] = store[i].reqs[k]
         \/ Newer(store'[i].reqs[k].version, store[i].reqs[k].version)
<1> PICK s0 \in Store, r \in Store :
      /\ Base(n, s0)
      /\ Stamped(s0, r, n, bootID[n])
      /\ store' = [store EXCEPT ![n] = r]
      /\ phase[n] # "down"
  BY DEF Write
<1>0. TypeOK /\ Stamps /\ ClockDominates /\ store[n].reqs \in Tables
  BY DEF IInv, Tables
<1>1. CASE i # n
  BY <1>0, <1>1 DEF TypeOK
<1>2. CASE i = n
  <2>1. store'[i] = r
    BY <1>0, <1>2 DEF TypeOK
  <2>2. CASE r.reqs[k] = s0.reqs[k]
    BY <1>2, <2>1, <2>2 DEF Base
  <2>3. CASE r.reqs[k] # s0.reqs[k]
    <3>1. FreshStamp(s0, r, n, bootID[n], r.reqs[k].version)
      BY <2>3 DEF Stamped
    <3>2. /\ store[n].reqs[k].version.counter \in Nat /\ store[n].reqs[k].version.bootID \in Nat
          /\ store[n].clock \in Nat /\ s0.clock \in Nat /\ bootID[n] \in Nat
          /\ r.reqs[k].version.counter \in Nat
          /\ store[n].clock <= s0.clock
      BY <1>0 DEF TypeOK, Store, Table, Cell, Version, Base
    <3>3. store[n].reqs[k].version.counter <= store[n].clock
      BY <1>0 DEF ClockDominates
    <3>4. store[n].reqs[k].version.writerID = n => store[n].reqs[k].version.bootID <= bootID[n]
      BY <1>0 DEF Stamps
    <3> QED BY <1>2, <2>1, <3>1, <3>2, <3>3, <3>4 DEF FreshStamp, Newer
  <2> QED BY <2>2, <2>3
<1> QED BY <1>1, <1>2

(* Advance: no handler of a running process puts an older cell in the place   *)
(* of a newer one, although set writes without comparing versions.            *)
THEOREM Advance == Spec => CellsOnlyAdvance
<1> DEFINE Adv == \A n \in Elevators : phase'[n] # "down" =>
                    \A k \in Keys :
                      \/ store'[n].reqs[k] = store[n].reqs[k]
                      \/ Newer(store'[n].reqs[k].version, store[n].reqs[k].version)
<1>1. IInv /\ [Next]_vars => [Adv]_vars
  <2> SUFFICES ASSUME IInv, Next PROVE Adv
    OBVIOUS
  <2>1. ASSUME NEW n \in Elevators, Write(n) PROVE Adv
    BY <2>1, AdvanceWrite
  <2>2. ASSUME NEW n \in Elevators, Crash(n) PROVE Adv
    BY <2>2 DEF IInv, TypeOK, Crash
  <2>3. ASSUME store' = store PROVE Adv
    BY <2>3
  <2>4. ASSUME NEW n \in Elevators, EndSync(n) \/ Serve(n) PROVE Adv
    BY <2>1, <2>4, WriteSteps DEF IInv
  <2>5. ASSUME NEW n \in Elevators,
               \/ \E f \in Floors : PressCab(n, f) \/ \E d \in HallDirs : PressHall(n, f, d)
               \/ \E p \in packets : ApplyRemote(n, p)
        PROVE  Adv
    BY <2>1, <2>5, WriteSteps DEF IInv
  <2> HIDE DEF Adv
  <2> QED BY <2>2, <2>3, <2>4, <2>5 DEF Next, Boot, Send, Lose
<1> QED BY <1>1, Invariant, PTL DEF Spec, CellsOnlyAdvance

-----------------------------------------------------------------------------
(* Cells one of whose writers' versions are all of one boot are ordered by   *)
(* counter, then writer; two boots are what CompareVersion's order fails on. *)
LEMMA SameBootsLemma == IInv => SameBootsCommute
<1> SUFFICES ASSUME IInv, NEW k \in Keys, OneBootEach(k),
                    NEW n \in Elevators, NEW t \in Tables, NEW u \in Tables
             PROVE  Commute(store[n].reqs[k], t[k], u[k])
  BY DEF SameBootsCommute
<1>0. CellsWritten /\ VersionIdentifiesWrite /\ TypeOK /\ store[n].reqs \in Tables
  BY DEF IInv, Tables
<1> DEFINE S == {w[k] : w \in Tables}
<1>1. \A c \in S : /\ c.version \in Version
                   /\ c = ZeroCell \/ (c.version.bootID >= 1 /\ c.version.counter >= 1)
  <2> SUFFICES ASSUME NEW w \in Tables
               PROVE  /\ w[k].version \in Version
                      /\ w[k] = ZeroCell \/ (w[k].version.bootID >= 1 /\ w[k].version.counter >= 1)
    OBVIOUS
  <2>1. w[k].version \in Version
    BY <1>0, TablesType DEF Table, Cell
  <2>2. w[k] = ZeroCell \/ Written(w[k])
    BY <1>0 DEF CellsWritten
  <2> QED BY <2>1, <2>2 DEF Written
<1>2. \A c, d \in S : c.version = d.version /\ c.version.counter > 0 => c = d
  BY <1>0 DEF VersionIdentifiesWrite
<1>3. \A c, d \in S : /\ c.version.writerID = d.version.writerID
                      /\ c.version.counter > 0
                      /\ d.version.counter > 0
                      => c.version.bootID = d.version.bootID
  BY DEF OneBootEach
<1>4. ZeroCell.version.counter = 0 /\ ZeroCell.version.writerID = 0 /\ ZeroCell.version.bootID = 0
  BY DEF ZeroCell, ZeroVersion
<1>5. store[n].reqs[k] \in S /\ t[k] \in S /\ u[k] \in S
  BY <1>0
<1> HIDE DEF S
<1>6. \A c \in S : c.version.counter \in Nat /\ c.version.writerID \in Nat /\ c.version.bootID \in Nat
  BY <1>1 DEF Version
<1>7. \A c, d \in S : c = d \/ Newer(c.version, d.version) \/ Newer(d.version, c.version)
  <2> SUFFICES ASSUME NEW c \in S, NEW d \in S, c # d,
                      ~Newer(c.version, d.version), ~Newer(d.version, c.version)
               PROVE  FALSE
    OBVIOUS
  <2>1. /\ c.version.writerID = d.version.writerID
        /\ c.version.counter = d.version.counter
        /\ c.version.bootID = d.version.bootID
        /\ c.version.counter > 0
    BY <1>1, <1>4, <1>6 DEF Newer
  <2>2. c.version = d.version
    BY <1>1, <2>1 DEF Version
  <2> QED BY <1>2, <2>1, <2>2
<1>8. \A c, d, e \in S : Newer(c.version, d.version) /\ Newer(d.version, e.version)
                          => Newer(c.version, e.version)
  BY <1>1, <1>3, <1>4, <1>6 DEF Newer
<1>9. \A c, d \in S : ~(Newer(c.version, d.version) /\ Newer(d.version, c.version))
  BY <1>1, <1>4, <1>6 DEF Newer
<1> QED BY <1>5, <1>7, <1>8, <1>9 DEF Commute, MergeCell

(* SameBootsUnite: restarts included, the order in which packets arrive does  *)
(* not matter to a cell in which no two boots of one writer have met.         *)
THEOREM SameBootsUnite == Spec => []SameBootsCommute
BY SameBootsLemma, Invariant, PTL

(* Nobody is started more often than the bound says.                         *)
BootsBounded == \A n \in Elevators : bootID[n] <= MaxBoots

LEMMA BootsBoundedStep == IInv /\ BootsBounded /\ [Next]_vars => BootsBounded'
<1> SUFFICES ASSUME IInv, BootsBounded, [Next]_vars PROVE BootsBounded'
  OBVIOUS
<1> TypeOK
  BY DEF IInv
<1>1. ASSUME NEW n \in Elevators, Boot(n) PROVE BootsBounded'
  <2>1. bootID[n] \in Nat /\ bootID[n] + 1 <= MaxBoots
    BY <1>1, BoundsAssumption DEF TypeOK, Boot
  <2> QED BY <1>1, <2>1 DEF TypeOK, Boot, BootsBounded
<1>2. ASSUME bootID' = bootID PROVE BootsBounded'
  BY <1>2 DEF BootsBounded
<1> QED BY <1>1, <1>2 DEF Next, Crash, EndSync, Serve, Send, PressCab, PressHall, ApplyRemote,
                          Lose, vars

(* With a single boot of everybody no cell is written by two boots of one.   *)
LEMMA OneBootCommutes ==
  ASSUME MaxBoots <= 1, IInv, BootsBounded PROVE MergeCommutes
<1>1. CellsWritten /\ Stamps /\ TypeOK
  BY DEF IInv
<1>2. \A t \in Tables : \A k \in Keys : t[k].version.counter > 0 => t[k].version.bootID = 1
  <2> SUFFICES ASSUME NEW t \in Tables, NEW k \in Keys, t[k].version.counter > 0
               PROVE  t[k].version.bootID = 1
    OBVIOUS
  <2>1. t[k].version.bootID \in Nat /\ t[k].version.counter \in Nat
    BY <1>1, TablesType DEF Table, Cell, Version
  <2>2. Written(t[k])
    BY <1>1 DEF CellsWritten, ZeroCell, ZeroVersion
  <2>3. t[k].version.bootID <= 1
    BY <1>1, <2>1, <2>2, BoundsAssumption DEF Written, Stamps, BootsBounded, TypeOK
  <2> QED BY <2>1, <2>2, <2>3 DEF Written
<1>3. \A k \in Keys : OneBootEach(k)
  BY <1>2 DEF OneBootEach
<1> QED BY <1>3, SameBootsLemma DEF SameBootsCommute, MergeCommutes

(* ConvergesWithoutRestarts: as long as no process is restarted, every cell,  *)
(* the hall cells included, can be merged in any order.  The bound MaxBoots   *)
(* is the assumption: the run that restarts processes breaks MergeCommutes.   *)
THEOREM ConvergesWithoutRestarts ==
  ASSUME MaxBoots <= 1 PROVE Spec => []MergeCommutes
<1>1. Init => BootsBounded
  <2> SUFFICES ASSUME Init, NEW n \in Elevators PROVE bootID[n] <= MaxBoots
    BY DEF BootsBounded
  <2>1. bootID[n] = 0 /\ MaxBoots >= 0
    BY BoundsAssumption DEF Init
  <2> QED BY <2>1
<1>2. IInv /\ BootsBounded /\ [Next]_vars => BootsBounded'
  BY BootsBoundedStep
<1>3. IInv /\ BootsBounded => MergeCommutes
  BY OneBootCommutes
<1> QED BY <1>1, <1>2, <1>3, Invariant, PTL DEF Spec
=============================================================================
