--------------------------- MODULE CabCall_proofs ---------------------------
(***************************************************************************)
(* Gossip implements CabCall, for every elevator and floor and any bounds: *)
(* the proof of the refinement Call(n, f) of module Gossip.                *)
(***************************************************************************)
EXTENDS Gossip_proofs

(* The copies of a cab call, and the value of its owner, as Gossip has them. *)
Own(n, f)    == ValueOf(store[n].reqs[CabKey(n, f)])
Copies(n, f) == {ValueOf(c) : c \in CopiesOf(n, CabKey(n, f))}

(* Nothing is what nobody wrote. *)
LEMMA NothingIsZero == ASSUME NEW n, NEW f PROVE ValueOf(ZeroCell) = Call(n, f)!Nothing
  BY DEF ValueOf, ZeroCell, ZeroVersion, Call!Nothing

(* At the start nobody knows anything of the call. *)
LEMMA CabInit ==
  ASSUME Init, NEW n \in Elevators, NEW f \in Floors PROVE Call(n, f)!Init
<1>1. \A m \in Elevators : store[m].reqs[CabKey(n, f)] = ZeroCell
  BY KeyFacts, ZeroFacts DEF Init
<1>2. \A c \in CopiesOf(n, CabKey(n, f)) : c = ZeroCell
  BY <1>1 DEF CopiesOf, Init
<1>3. Own(n, f) = Call(n, f)!Nothing
  BY <1>1, NothingIsZero DEF Own
<1>4. Copies(n, f) \subseteq {Call(n, f)!Nothing}
  BY <1>2, NothingIsZero DEF Copies
<1>5. phase[n] = "down" /\ bootID[n] = 0
  BY DEF Init
<1> QED BY <1>3, <1>4, <1>5 DEF Call!Init, Own, Copies

(* Order of the versions of one cab cell: CompareVersion is Later there. *)
LEMMA NewerIsLater ==
  ASSUME IInv, NEW n \in Elevators, NEW f \in Floors, NEW t \in Tables, NEW u \in Tables,
         Newer(t[CabKey(n, f)].version, u[CabKey(n, f)].version)
  PROVE  Call(n, f)!Later(ValueOf(t[CabKey(n, f)]), ValueOf(u[CabKey(n, f)]))
<1> DEFINE k == CabKey(n, f)
           a == t[k].version
           b == u[k].version
<1>1. TypeOK /\ CellsWritten /\ CabSingleWriter /\ k \in Keys /\ n \in Nat
  BY KeyFacts, ElevatorsAssumption DEF IInv
<1>2. a \in Version /\ b \in Version
  BY <1>1, TablesType DEF Table, Cell
<1>3. /\ t[k] = ZeroCell \/ (a.writerID = n /\ a.bootID >= 1 /\ a.counter >= 1)
      /\ u[k] = ZeroCell \/ (b.writerID = n /\ b.bootID >= 1 /\ b.counter >= 1)
  BY <1>1 DEF CellsWritten, CabSingleWriter, Written
<1>4. ZeroCell.version.counter = 0 /\ ZeroCell.version.writerID = 0 /\ ZeroCell.version.bootID = 0
  BY DEF ZeroCell, ZeroVersion
<1>5. Newer(a, b)
  OBVIOUS
<1>6. a.bootID > b.bootID \/ (a.bootID = b.bootID /\ a.counter > b.counter)
  <2> HIDE DEF k
  <2>1. /\ a.counter \in Nat /\ a.writerID \in Nat /\ a.bootID \in Nat
        /\ b.counter \in Nat /\ b.writerID \in Nat /\ b.bootID \in Nat
    BY <1>2 DEF Version
  <2> HIDE DEF a, b
  <2>2. CASE t[k] = ZeroCell
    BY <1>1, <1>3, <1>4, <1>5, <2>1, <2>2 DEF Newer, a, b
  <2>3. CASE t[k] # ZeroCell /\ u[k] = ZeroCell
    BY <1>3, <1>4, <2>1, <2>3 DEF a, b
  <2>4. CASE t[k] # ZeroCell /\ u[k] # ZeroCell
    BY <1>3, <1>5, <2>1, <2>4 DEF Newer
  <2> QED BY <2>2, <2>3, <2>4
<1> QED BY <1>6 DEF Call!Later, ValueOf

(* The owner's handler changes the call, takes it back from a copy, or leaves it. *)
LEMMA CabOwnerWrite ==
  ASSUME IInv, NEW n \in Elevators, NEW f \in Floors, Write(n)
  PROVE  Call(n, f)!Change \/ Call(n, f)!Relearn \/ UNCHANGED Call(n, f)!vars
<1> DEFINE k == CabKey(n, f)
<1> PICK s0 \in Store, r \in Store :
      /\ Base(n, s0)
      /\ Stamped(s0, r, n, bootID[n])
      /\ store' = [store EXCEPT ![n] = r]
      /\ phase[n] # "down"
      /\ \A i \in Elevators : phase'[i] = "down" <=> phase[i] = "down"
      /\ UNCHANGED <<bootID, packets>>
  BY DEF Write
<1>0. /\ TypeOK /\ CellsWritten /\ Stamps /\ ClockDominates /\ CabSingleWriter
      /\ k \in Keys /\ n \in Nat /\ store[n].reqs \in Tables
  BY KeyFacts, ElevatorsAssumption DEF IInv, Tables
<1>1. Own(n, f)' = ValueOf(r.reqs[k])
  BY <1>0 DEF Own, TypeOK
<1>2. Copies(n, f)' = Copies(n, f)
  <2>1. \A m \in Elevators \ {n} : store'[m] = store[m]
    BY <1>0 DEF TypeOK
  <2>2. CopiesOf(n, k)' = CopiesOf(n, k)
    BY <2>1 DEF CopiesOf
  <2> QED BY <2>2 DEF Copies
<1>3. (phase[n] # "down")' = (phase[n] # "down") /\ (phase[n] # "down")
  OBVIOUS
<1>4. CASE r.reqs[k] = store[n].reqs[k]
  BY <1>1, <1>2, <1>3, <1>4 DEF Call!vars, Own, Copies
<1>5. CASE r.reqs[k] # store[n].reqs[k] /\ r.reqs[k] = s0.reqs[k]
  <2>1. PICK t \in Tables : s0.reqs[k] = t[k] /\ Newer(t[k].version, store[n].reqs[k].version)
    BY <1>0, <1>5 DEF Base
  <2>2. t[k] \in CopiesOf(n, k)
    BY <1>5, <2>1 DEF Tables, CopiesOf
  <2>3. Own(n, f)' \in Copies(n, f)
    BY <1>1, <1>5, <2>1, <2>2 DEF Copies
  <2>4. t[k].version.bootID < bootID[n] /\ store[n].reqs[k].version.bootID < bootID[n]
    BY <2>1, OwnerLatestLemma DEF OwnerCabIsLatest
  <2>5. Call(n, f)!Later(Own(n, f)', Own(n, f))
    BY <1>0, <1>1, <1>5, <2>1, NewerIsLater DEF Own
  <2>6. Own(n, f).run < bootID[n] /\ Own(n, f)'.run < bootID[n]
    BY <1>1, <1>5, <2>1, <2>4 DEF Own, ValueOf
  <2>7. Call(n, f)!Relearn
    BY <1>2, <1>3, <2>3, <2>5, <2>6 DEF Call!Relearn, Own, Copies
  <2> QED BY <2>7
<1>6. CASE r.reqs[k] # s0.reqs[k]
  <2>1. FreshStamp(s0, r, n, bootID[n], r.reqs[k].version)
    BY <1>0, <1>6 DEF Stamped
  <2>2. Own(n, f)' \in Call(n, f)!Value
    BY <1>0, <1>1 DEF Call!Value, ValueOf, Store, Table, Cell, Version
  <2>3. Own(n, f)'.run = bootID[n]
    BY <1>1, <2>1 DEF ValueOf, FreshStamp
  <2>4. ASSUME NEW t \in Tables PROVE Call(n, f)!Later(Own(n, f)', ValueOf(t[k]))
    <3> DEFINE a == t[k].version
    <3>1. /\ a.counter \in Nat /\ a.bootID \in Nat /\ bootID[n] \in Nat
          /\ store[n].clock \in Nat /\ s0.clock \in Nat /\ r.reqs[k].version.counter \in Nat
          /\ store[n].clock <= s0.clock
      BY <1>0, TablesType DEF TypeOK, Store, Table, Cell, Version, Base
    <3>2. a.bootID < bootID[n] \/ (a.bootID = bootID[n] /\ a.counter <= store[n].clock)
      <4>1. CASE t[k] = ZeroCell
        BY <1>0, <4>1 DEF CellsWritten, Running, ZeroCell, ZeroVersion, TypeOK
      <4>2. CASE t[k] # ZeroCell
        <5>1. a.writerID = n
          BY <1>0, <4>2 DEF CabSingleWriter
        <5> QED BY <1>0, <3>1, <5>1 DEF Stamps, Running
      <4> QED BY <4>1, <4>2
    <3>3. a.bootID < bootID[n] \/ (a.bootID = bootID[n] /\ a.counter < r.reqs[k].version.counter)
      BY <2>1, <3>1, <3>2 DEF FreshStamp
    <3> QED BY <1>1, <2>1, <3>1, <3>3 DEF Call!Later, ValueOf, FreshStamp
  <2>5. \A v \in Copies(n, f) \cup {Own(n, f)} : Call(n, f)!Later(Own(n, f)', v)
    <3>1. \A c \in CopiesOf(n, k) : \E t \in Tables : c = t[k]
      BY DEF CopiesOf, Tables
    <3> QED BY <1>0, <2>4, <3>1 DEF Copies, Own
  <2>6. Call(n, f)!Change
    BY <1>2, <1>3, <2>2, <2>3, <2>5 DEF Call!Change, Own, Copies
  <2> QED BY <2>6
<1> QED BY <1>4, <1>5, <1>6

(* A handler of another elevator only merges copies, over copies. *)
LEMMA CabOtherWrite ==
  ASSUME IInv, NEW n \in Elevators, NEW f \in Floors, NEW i \in Elevators, i # n, Write(i)
  PROVE  Call(n, f)!Spread
<1> DEFINE k == CabKey(n, f)
<1> PICK s0 \in Store, r \in Store :
      /\ Base(i, s0)
      /\ Stamped(s0, r, i, bootID[i])
      /\ store' = [store EXCEPT ![i] = r]
      /\ \A m \in Elevators : phase'[m] = "down" <=> phase[m] = "down"
      /\ UNCHANGED <<bootID, packets>>
  BY DEF Write
<1>0. TypeOK /\ k \in Keys
  BY KeyFacts DEF IInv
<1>1. Own(n, f)' = Own(n, f)
  BY <1>0 DEF Own, TypeOK
<1>2. r.reqs[k] = s0.reqs[k]
  BY <1>0, KeyFacts DEF Stamped, OwnKeys, HallKeys
<1>3. r.reqs[k] \in CopiesOf(n, k) \cup {store[n].reqs[k]}
  <2>1. \A t \in Tables : t[k] \in CopiesOf(n, k) \cup {store[n].reqs[k]}
    BY DEF Tables, CopiesOf
  <2>2. store[i].reqs \in Tables
    BY DEF Tables
  <2> QED BY <1>0, <1>2, <2>1, <2>2 DEF Base
<1>4. CopiesOf(n, k)' \subseteq CopiesOf(n, k) \cup {store[n].reqs[k]}
  <2>1. store'[i] = r /\ \A m \in Elevators \ {i} : store'[m] = store[m]
    BY <1>0 DEF TypeOK
  <2> QED BY <1>3, <2>1 DEF CopiesOf
<1>5. Copies(n, f)' \subseteq Copies(n, f) \cup {Own(n, f), Call(n, f)!Nothing}
  BY <1>4 DEF Copies, Own
<1>6. (phase[n] # "down")' = (phase[n] # "down")
  OBVIOUS
<1> QED BY <1>1, <1>5, <1>6 DEF Call!Spread, Own, Copies

(* Every step of Gossip is a step of CabCall, or none. *)
LEMMA CabStep ==
  ASSUME IInv, [Next]_vars, NEW n \in Elevators, NEW f \in Floors
  PROVE  [Call(n, f)!Next]_(Call(n, f)!vars)
<1> DEFINE k == CabKey(n, f)
<1>0. TypeOK /\ k \in Keys
  BY KeyFacts DEF IInv
<1>1. ASSUME NEW i \in Elevators, Write(i) PROVE [Call(n, f)!Next]_(Call(n, f)!vars)
  BY <1>1, CabOwnerWrite, CabOtherWrite DEF Call!Next
<1>2. ASSUME NEW i \in Elevators, Boot(i) PROVE [Call(n, f)!Next]_(Call(n, f)!vars)
  <2>1. Own(n, f)' = Own(n, f) /\ Copies(n, f)' = Copies(n, f)
    BY <1>2 DEF Boot, Own, Copies, CopiesOf
  <2>2. CASE i = n
    <3>1. /\ (phase[n] # "down") = FALSE /\ (phase[n] # "down")' = TRUE
          /\ bootID'[n] = bootID[n] + 1
      BY <1>0, <1>2, <2>2 DEF Boot, TypeOK
    <3>2. Call(n, f)!Start
      BY <2>1, <3>1 DEF Call!Start, Own, Copies
    <3> QED BY <3>2 DEF Call!Next
  <2>3. CASE i # n
    <3>1. (phase[n] # "down")' = (phase[n] # "down") /\ bootID'[n] = bootID[n]
      BY <1>0, <1>2, <2>3 DEF Boot, TypeOK
    <3> QED BY <2>1, <3>1 DEF Call!vars, Own, Copies
  <2> QED BY <2>2, <2>3
<1>3. ASSUME NEW i \in Elevators, Crash(i) PROVE [Call(n, f)!Next]_(Call(n, f)!vars)
  <2>1. /\ store'[i].reqs[k] = ZeroCell
        /\ \A m \in Elevators \ {i} : store'[m] = store[m]
        /\ UNCHANGED <<bootID, packets>>
    BY <1>0, <1>3, ZeroFacts DEF Crash, TypeOK
  <2>2. CASE i = n
    <3>1. (phase[n] # "down") = TRUE /\ (phase[n] # "down")' = FALSE
      BY <1>0, <1>3, <2>2 DEF Crash, TypeOK
    <3>2. Own(n, f)' = Call(n, f)!Nothing
      BY <2>1, <2>2, NothingIsZero DEF Own
    <3>3. Copies(n, f)' = Copies(n, f)
      <4>1. CopiesOf(n, k)' = CopiesOf(n, k)
        BY <2>1, <2>2 DEF CopiesOf
      <4> QED BY <4>1 DEF Copies
    <3>4. Call(n, f)!Die
      BY <2>1, <3>1, <3>2, <3>3 DEF Call!Die, Own, Copies
    <3> QED BY <3>4 DEF Call!Next
  <2>3. CASE i # n
    <3>1. (phase[n] # "down")' = (phase[n] # "down")
      BY <1>0, <1>3, <2>3 DEF Crash, TypeOK
    <3>2. Own(n, f)' = Own(n, f)
      BY <2>1, <2>3 DEF Own
    <3>3. CopiesOf(n, k)' \subseteq CopiesOf(n, k) \cup {ZeroCell}
      BY <2>1 DEF CopiesOf
    <3>4. Copies(n, f)' \subseteq Copies(n, f) \cup {Own(n, f), Call(n, f)!Nothing}
      BY <3>3, NothingIsZero DEF Copies
    <3>5. Call(n, f)!Spread
      BY <2>1, <3>1, <3>2, <3>4 DEF Call!Spread, Own, Copies
    <3> QED BY <3>5 DEF Call!Next
  <2> QED BY <2>2, <2>3
<1>4. ASSUME \E i \in Elevators : Send(i) \/ \E p \in packets : Lose(p)
      PROVE  [Call(n, f)!Next]_(Call(n, f)!vars)
  <2>1. UNCHANGED <<phase, bootID, store>>
    BY <1>4 DEF Send, Lose
  <2>2. \A p \in packets' : p \in packets \/ \E i \in Elevators : p.requests = store[i].reqs
    BY <1>4 DEF Send, Lose
  <2>3. CopiesOf(n, k)' \subseteq CopiesOf(n, k) \cup {store[n].reqs[k]}
    BY <2>1, <2>2 DEF CopiesOf
  <2>4. Copies(n, f)' \subseteq Copies(n, f) \cup {Own(n, f), Call(n, f)!Nothing}
    BY <2>3 DEF Copies, Own
  <2>5. Call(n, f)!Spread
    BY <2>1, <2>4 DEF Call!Spread, Own, Copies
  <2> QED BY <2>5 DEF Call!Next
<1>5. CASE UNCHANGED vars
  BY <1>5 DEF vars, Call!vars, CopiesOf
<1>6. ASSUME NEW i \in Elevators,
             \/ EndSync(i) \/ Serve(i)
             \/ \E g \in Floors : PressCab(i, g) \/ \E d \in HallDirs : PressHall(i, g, d)
             \/ \E p \in packets : ApplyRemote(i, p)
      PROVE  [Call(n, f)!Next]_(Call(n, f)!vars)
  BY <1>0, <1>1, <1>6, WriteSteps
<1>7. ASSUME NEW p \in packets, Lose(p) PROVE [Call(n, f)!Next]_(Call(n, f)!vars)
  BY <1>4, <1>7
<1> QED BY <1>2, <1>3, <1>4, <1>5, <1>6, <1>7 DEF Next

(* CabCallOwned: Gossip, with every loss, repetition, delay, crash and        *)
(* restart, implements the abstract cab call of each elevator and floor.      *)
THEOREM CabCallOwned == Spec => CabCallsOwned
<1> DEFINE I == \A n \in Elevators, f \in Floors : Call(n, f)!Init
           N == \A n \in Elevators, f \in Floors : [Call(n, f)!Next]_(Call(n, f)!vars)
<1>1. Init => I
  BY CabInit
<1>2. IInv /\ [Next]_vars => [N]_vars
  <2> HIDE DEF I
  <2>1. IInv /\ [Next]_vars => N
    BY CabStep
  <2> QED BY <2>1
<1> HIDE DEF I, N
<1>3. Spec => I /\ [][N]_vars
  BY <1>1, <1>2, Invariant, PTL DEF Spec
<1> QED BY <1>3 DEF I, N, CabCallsOwned
=============================================================================
