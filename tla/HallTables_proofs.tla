------------------------- MODULE HallTables_proofs -------------------------
(***************************************************************************)
(* TypeOK and ListCurrent of module HallTables, for any processes, hall    *)
(* buttons and bounds.  What is inductive is that the newest list, in the  *)
(* channel or else in the loop, is the one the receiver has.               *)
(***************************************************************************)
EXTENDS HallTables, SequenceTheorems, TLAPS

Newest(n) == IF updates[n] = <<>> THEN peerList[n] ELSE updates[n][Len(updates[n])]

IInv == TypeOK /\ \A n \in Nodes : Newest(n) = seen[n]

(* What a send to and a receive from a channel do. *)
LEMMA Sequence ==
  ASSUME NEW S, NEW s \in Seq(S)
  PROVE  /\ Len(s) \in Nat
         /\ \A x \in S : /\ Append(s, x) \in Seq(S) /\ Append(s, x) # <<>>
                         /\ Len(Append(s, x)) = Len(s) + 1
                         /\ Append(s, x)[Len(Append(s, x))] = x
         /\ s # <<>> => /\ Head(s) \in S /\ Tail(s) \in Seq(S)
                        /\ Len(Tail(s)) = Len(s) - 1 /\ Len(s) > 0
                        /\ Tail(s) = <<>> => Head(s) = s[Len(s)]
                        /\ Tail(s) # <<>> => Tail(s)[Len(Tail(s))] = s[Len(s)]
<1>1. Len(s) \in Nat
  OBVIOUS
<1>2. ASSUME NEW x \in S
      PROVE  /\ Append(s, x) \in Seq(S) /\ Append(s, x) # <<>>
             /\ Len(Append(s, x)) = Len(s) + 1
             /\ Append(s, x)[Len(Append(s, x))] = x
  OBVIOUS
<1>3. ASSUME s # <<>>
      PROVE  /\ Head(s) \in S /\ Tail(s) \in Seq(S)
             /\ Len(Tail(s)) = Len(s) - 1 /\ Len(s) > 0
             /\ Tail(s) = <<>> => Head(s) = s[Len(s)]
             /\ Tail(s) # <<>> => Tail(s)[Len(Tail(s))] = s[Len(s)]
  <2>1. Head(s) \in S /\ Tail(s) \in Seq(S) /\ Len(s) > 0 /\ Len(Tail(s)) = Len(s) - 1
    BY <1>3
  <2>2. ASSUME Tail(s) = <<>> PROVE Head(s) = s[Len(s)]
    <3>1. \A u : u = <<>> => Len(u) = 0
      OBVIOUS
    <3>2. Len(s) - 1 = 0
      BY <2>1, <2>2, <3>1, Zenon
    <3>3. Len(s) = 1
      BY <1>1, <3>2
    <3> QED BY <1>3, <3>3
  <2>3. ASSUME Tail(s) # <<>> PROVE Tail(s)[Len(Tail(s))] = s[Len(s)]
    <3>1. Len(Tail(s)) \in 1..(Len(s) - 1)
      BY <2>1, <2>3
    <3>2. \A i \in 1..(Len(s) - 1) : Tail(s)[i] = s[i + 1]
      BY <1>3
    <3> QED BY <2>1, <3>1, <3>2
  <2> QED BY <2>1, <2>2, <2>3
<1> QED BY <1>1, <1>2, <1>3

(* Broadcasting keeps messages well-formed. *)
LEMMA Broadcasts ==
  ASSUME TypeOK, NEW n \in Nodes, NEW t \in SUBSET Calls, Broadcast(n, t)
  PROVE  packets' \subseteq Message /\ \A p \in packets' : p.sender \in p.had
<1> DEFINE q == [sender |-> n, hall |-> t, had |-> {n}]
<1>1. q \in Message /\ q.sender \in q.had
  BY DEF Message
<1>2. packets' = packets \cup {q}
  BY DEF Broadcast
<1> HIDE DEF q
<1> QED BY <1>1, <1>2 DEF TypeOK

(* A step that leaves the peers alone keeps the invariant if it keeps tables and messages. *)
LEMMA TablesOnly ==
  ASSUME IInv, UNCHANGED peerVars, hall' \in [Nodes -> SUBSET Calls],
         packets' \subseteq Message, \A p \in packets' : p.sender \in p.had
  PROVE  IInv'
  BY DEF IInv, TypeOK, peerVars, Newest

(* A step of the receiver or of the loop of one process. *)
LEMMA PeersOnly ==
  ASSUME IInv, UNCHANGED <<hall, packets>>, NEW n \in Nodes,
         NEW s \in SUBSET Nodes, NEW u \in Seq(SUBSET Nodes), NEW l \in SUBSET Nodes,
         Len(u) <= MaxUpdates, (IF u = <<>> THEN l ELSE u[Len(u)]) = s,
         seen' = [seen EXCEPT ![n] = s], updates' = [updates EXCEPT ![n] = u],
         peerList' = [peerList EXCEPT ![n] = l]
  PROVE  IInv'
<1>1. TypeOK'
  BY DEF IInv, TypeOK
<1>2. ASSUME NEW m \in Nodes PROVE Newest(m)' = seen'[m]
  <2>1. CASE m = n
    BY <2>1 DEF IInv, TypeOK, Newest
  <2>2. CASE m # n
    BY <2>2 DEF IInv, TypeOK, Newest
  <2> QED BY <2>1, <2>2
<1> QED BY <1>1, <1>2 DEF IInv

(* At the start every list is empty. *)
LEMMA Start == Init => IInv
  BY UpdateAssumption DEF Init, IInv, TypeOK, Newest

(* Every step keeps the invariant. *)
LEMMA Keeps == IInv /\ [Next]_vars => IInv'
<1> SUFFICES ASSUME IInv, [Next]_vars PROVE IInv'
  OBVIOUS
<1>0. TypeOK /\ \A n \in Nodes : Newest(n) = seen[n]
  BY DEF IInv
<1>1. ASSUME NEW n \in Nodes, NEW c \in Calls, PressHall(n, c) PROVE IInv'
  <2>1. hall' \in [Nodes -> SUBSET Calls] /\ hall'[n] \in SUBSET Calls
    BY <1>0, <1>1 DEF PressHall, TypeOK
  <2> QED BY <1>0, <1>1, <2>1, Broadcasts, TablesOnly DEF PressHall
<1>2. ASSUME NEW n \in Nodes, NEW f \in Floors, StopAt(n, f) PROVE IInv'
  <2>1. hall' \in [Nodes -> SUBSET Calls] /\ hall'[n] \in SUBSET Calls
    BY <1>0, <1>2 DEF StopAt, TypeOK
  <2> QED BY <1>0, <1>2, <2>1, Broadcasts, TablesOnly DEF StopAt
<1>3. ASSUME NEW n \in Nodes, HallTick(n) PROVE IInv'
  <2>1. hall[n] \in SUBSET Calls /\ hall' = hall
    BY <1>0, <1>3 DEF HallTick, TypeOK
  <2>2. packets' \subseteq Message /\ \A p \in packets' : p.sender \in p.had
    BY <1>0, <1>3, <2>1, Broadcasts DEF HallTick
  <2> QED BY <1>0, <1>3, <2>1, <2>2, TablesOnly DEF HallTick, TypeOK
<1>4. ASSUME NEW n \in Nodes, NEW p \in packets, HallMsg(n, p) PROVE IInv'
  <2>1. p \in Message /\ p.sender \in p.had
    BY <1>0 DEF TypeOK
  <2>2. hall' \in [Nodes -> SUBSET Calls]
    BY <1>0, <1>4, <2>1 DEF HallMsg, TypeOK, Message
  <2>3. /\ [p EXCEPT !.had = @ \cup {n}] \in Message
        /\ [p EXCEPT !.had = @ \cup {n}].sender \in [p EXCEPT !.had = @ \cup {n}].had
    BY <2>1 DEF Message
  <2>4. packets' \subseteq Message /\ \A q \in packets' : q.sender \in q.had
    BY <1>0, <1>4, <2>3 DEF HallMsg, TypeOK
  <2> QED BY <1>4, <2>2, <2>4, TablesOnly DEF HallMsg
<1>5. ASSUME NEW p \in packets, Lose(p) PROVE IInv'
  BY <1>0, <1>5, TablesOnly DEF Lose, TypeOK, peerVars
<1>6. ASSUME NEW n \in Nodes, NEW m \in Nodes, Heartbeat(n, m) PROVE IInv'
  <2> DEFINE s == seen[n] \cup {m}
             u == Append(updates[n], s)
  <2>1. /\ s \in SUBSET Nodes /\ peerList[n] \in SUBSET Nodes
        /\ updates[n] \in Seq(SUBSET Nodes) /\ Len(updates[n]) < MaxUpdates
    BY <1>0, <1>6 DEF Heartbeat, TypeOK
  <2>2. /\ u \in Seq(SUBSET Nodes) /\ u # <<>> /\ u[Len(u)] = s
        /\ Len(u) <= MaxUpdates
    <3> HIDE DEF s
    <3> QED BY <2>1, Sequence, UpdateAssumption
  <2>3. /\ seen' = [seen EXCEPT ![n] = s] /\ updates' = [updates EXCEPT ![n] = u]
        /\ peerList' = [peerList EXCEPT ![n] = peerList[n]] /\ UNCHANGED <<hall, packets>>
    BY <1>0, <1>6 DEF Heartbeat, TypeOK
  <2> HIDE DEF s, u
  <2> QED BY <2>1, <2>2, <2>3, PeersOnly
<1>7. ASSUME NEW n \in Nodes, NEW lost \in SUBSET seen[n], PeerTimeout(n, lost) PROVE IInv'
  <2> DEFINE s == seen[n] \ lost
             u == Append(updates[n], s)
  <2>1. /\ s \in SUBSET Nodes /\ peerList[n] \in SUBSET Nodes
        /\ updates[n] \in Seq(SUBSET Nodes) /\ Len(updates[n]) < MaxUpdates
    BY <1>0, <1>7 DEF PeerTimeout, TypeOK
  <2>2. /\ u \in Seq(SUBSET Nodes) /\ u # <<>> /\ u[Len(u)] = s
        /\ Len(u) <= MaxUpdates
    <3> HIDE DEF s
    <3> QED BY <2>1, Sequence, UpdateAssumption
  <2>3. /\ seen' = [seen EXCEPT ![n] = s] /\ updates' = [updates EXCEPT ![n] = u]
        /\ peerList' = [peerList EXCEPT ![n] = peerList[n]] /\ UNCHANGED <<hall, packets>>
    BY <1>0, <1>7 DEF PeerTimeout, TypeOK
  <2> HIDE DEF s, u
  <2> QED BY <2>1, <2>2, <2>3, PeersOnly
<1>8. ASSUME NEW n \in Nodes, PeerUpdate(n) PROVE IInv'
  <2> DEFINE u == Tail(updates[n])
             l == Head(updates[n])
  <2>1. /\ updates[n] \in Seq(SUBSET Nodes) /\ updates[n] # <<>>
        /\ Len(updates[n]) <= MaxUpdates /\ seen[n] \in SUBSET Nodes
        /\ updates[n][Len(updates[n])] = seen[n]
    BY <1>0, <1>8 DEF PeerUpdate, TypeOK, Newest
  <2>2. /\ u \in Seq(SUBSET Nodes) /\ l \in SUBSET Nodes /\ Len(u) <= MaxUpdates
        /\ (IF u = <<>> THEN l ELSE u[Len(u)]) = seen[n]
    BY <2>1, Sequence, UpdateAssumption
  <2>3. /\ seen' = [seen EXCEPT ![n] = seen[n]] /\ updates' = [updates EXCEPT ![n] = u]
        /\ peerList' = [peerList EXCEPT ![n] = l] /\ UNCHANGED <<hall, packets>>
    BY <1>0, <1>8 DEF PeerUpdate, TypeOK
  <2> HIDE DEF u, l
  <2> QED BY <2>1, <2>2, <2>3, PeersOnly
<1>9. ASSUME NEW n \in Nodes, Restart(n) PROVE IInv'
  <2>1. /\ hall' \in [Nodes -> SUBSET Calls] /\ seen' \in [Nodes -> SUBSET Nodes]
        /\ peerList' \in [Nodes -> SUBSET Nodes] /\ packets' = packets
    BY <1>0, <1>9 DEF Restart, TypeOK
  <2>2. \A m \in Nodes : /\ updates'[m] = IF m = n THEN <<>> ELSE updates[m]
                         /\ peerList'[m] = IF m = n THEN {} ELSE peerList[m]
                         /\ seen'[m] = IF m = n THEN {} ELSE seen[m]
    BY <1>0, <1>9 DEF Restart, TypeOK
  <2>3. /\ updates' \in [Nodes -> Seq(SUBSET Nodes)]
        /\ \A m \in Nodes : Len(updates'[m]) <= MaxUpdates
    BY <1>0, <1>9, UpdateAssumption DEF Restart, TypeOK
  <2>4. TypeOK'
    BY <1>0, <2>1, <2>3 DEF TypeOK
  <2>5. \A m \in Nodes : Newest(m)' = seen'[m]
    BY <1>0, <2>2 DEF Newest
  <2> QED BY <2>4, <2>5 DEF IInv
<1>10. CASE UNCHANGED vars
  BY <1>0, <1>10, TablesOnly DEF vars, TypeOK
<1> QED
  BY <1>1, <1>2, <1>3, <1>4, <1>5, <1>6, <1>7, <1>8, <1>9, <1>10 DEF Next, Exchange

(* The newest list of live peers is the receiver's. *)
THEOREM Invariant == Spec => []IInv
<1>1. Init => IInv
  BY Start
<1>2. IInv /\ [Next]_vars => IInv'
  BY Keeps
<1> QED BY <1>1, <1>2, PTL DEF Spec

(* TypeOK: tables, messages and peer lists keep their shape, no channel overflows. *)
THEOREM TypeCorrect == Spec => []TypeOK
<1>1. IInv => TypeOK
  BY DEF IInv
<1> QED BY <1>1, Invariant, PTL

(* ListCurrent: peers.Receiver and the loop agree once the channel is empty. *)
THEOREM ListsCurrent == Spec => []ListCurrent
<1>1. IInv => ListCurrent
  BY DEF IInv, ListCurrent, Newest
<1> QED BY <1>1, Invariant, PTL
=============================================================================
