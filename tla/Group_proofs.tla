---------------------------- MODULE Group_proofs ----------------------------
(***************************************************************************)
(* Proofs about a group of elevators of new_heis (module Group), for any   *)
(* number of elevators and floors: no elevator is ever stuck and every     *)
(* motor runs exactly while its car counts as moving (Group's TypeOK),     *)
(* each takes the call to be one elevator's (OneTakesIt), the newest word  *)
(* on the call turns to cleared by an open door only, however old and in   *)
(* whatever order snapshots arrive (HallClearedByDoor); and each elevator  *)
(* is a Car (EachIsACar), whose theorems therefore hold of it.             *)
(*                                                                         *)
(* The handlers are those of Controller_proofs.  What is added here is     *)
(* that they work on what the elevators tell each other, at whatever time, *)
(* and the order of what is told: versions of processes that are never     *)
(* restarted are ordered by counter and writer, no snapshot is newer than  *)
(* what its sender has, and so nobody learns by an old one what is not     *)
(* the case any more.                                                      *)
(***************************************************************************)
EXTENDS Group, Controller_proofs

(* What elevator n may know of the others. *)
Known(n) == {p \in Soft : p.id \in Nodes \ {n}}

(* Of no elevator is there more than one soft state. *)
Apart(P) == \A a, b \in P : a.id = b.id => a = b

(* What handlers of n leave: s, and q in the channel of floor events. *)
Fine(n, s, q) ==
  /\ s \in Work(n, Known(n)) /\ Safe(s) /\ Fit(s)
  /\ ~s.car.obstruction /\ Apart(s.peers)
  /\ s.car.behavior = "moving" => s.motor # Stop
  /\ q = <<>> \/ \E g \in {s.car.floor - 1, s.car.floor + 1} : g \in Floors /\ q = <<g>>

(* The driver is at a floor, and with no event waiting at the one the controller knows. *)
Placed(n) == at[n] \in Floors /\ (floors[n] = <<>> => at[n] = car[n].floor)

(* A cell that nobody has written, or that somebody wrote in the only boot there is. *)
Stamped(c) ==
  c \in R!Cell /\ (c = R!ZeroCell \/ (c.version.counter > 0 /\ c.version.bootID = 1))

NoNewer(a, b) == ~R!Newer(a.version, b.version)

Here(n) == Fine(n, View(n, cell[n]), floors[n]) /\ Stamped(cell[n]) /\ Placed(n)

(* What an elevator may say of its car. *)
Form(q) ==
  /\ q \in CarType(q.id) /\ ~q.obstruction /\ q.behavior # "stuck"
  /\ q.doorOpen <=> q.behavior = "doorOpen"

(* A snapshot on its way is of somebody who has nothing older now. *)
LateFine(p) ==
  p.car.id \in Nodes /\ Form(p.car) /\ Stamped(p.cell) /\ NoNewer(p.cell, cell[p.car.id])

(* Every variable has an entry for every elevator. *)
Entries ==
  /\ car = [n \in Nodes |-> car[n]]
  /\ ctl = [n \in Nodes |-> ctl[n]]
  /\ peers = [n \in Nodes |-> peers[n]]
  /\ motor = [n \in Nodes |-> motor[n]]
  /\ at = [n \in Nodes |-> at[n]]
  /\ floors = [n \in Nodes |-> floors[n]]
  /\ cell = [n \in Nodes |-> cell[n]]

IInv ==
  /\ call \in HallCalls
  /\ Entries
  /\ \A n \in Nodes : Here(n)
  /\ \A p \in late : LateFine(p)

(* HallClearedByDoor of one step. *)
Cleared ==
  Lit /\ ~Lit' =>
    \E n \in Nodes :
      /\ cell'[n] # cell[n] /\ ~cell'[n].active
      /\ car'[n].doorOpen /\ ~ctl'[n].doorOver
      /\ call = <<car'[n].floor, ctl'[n].doorDir>>

Good == IInv' /\ Cleared

(* A handler of n has ended as a Car's, with t; the other elevators are as they were. *)
Ended(n, t) ==
  /\ \A set, s : Elevator(n)!Sync(set, s, t)
  /\ \A m \in Nodes \ {n} : UNCHANGED Elevator(m)!vars

(* EachIsACar of one step. *)
Cars == \A n \in Nodes : UNCHANGED Elevator(n)!vars \/ Elevator(n)!Next

(* What n works on when the snapshot p arrives. *)
Told(n, p) ==
  [View(n, R!MergeCell(cell[n], p.cell)) EXCEPT
     !.peers = {q \in peers[n] : q.id # p.car.id} \cup {p.car}]

(* The cell that a handler of n starts with: its own, one with the button pressed, or *)
(* a newer one it is told of, which is not news to everybody.                         *)
Started(n, c) ==
  /\ Stamped(c) /\ NoNewer(cell[n], c)
  /\ \/ c = cell[n]
     \/ c = Written(n, cell[n], TRUE)
     \/ R!Newer(c.version, cell[n].version) /\ \E m \in Nodes : NoNewer(c, cell[m])

-----------------------------------------------------------------------------
LEMMA IInvType == IInv => TypeOK
<1>0. ASSUME IInv, NEW p \in late
      PROVE  p.car.id \in Nodes /\ p.car.floor \in Floors /\ p.cell \in R!Cell
  BY <1>0 DEF IInv, LateFine, Form, Stamped, CarType
<1> SUFFICES ASSUME IInv, NEW n \in Nodes
             PROVE  /\ car[n] \in [id : {n}, floor : Floors, direction : Directions,
                                   behavior : Behaviors \ {"stuck"}, doorOpen : BOOLEAN,
                                   obstruction : {FALSE}]
                    /\ ctl[n] \in [ready : BOOLEAN, travelDir : Directions, doorDir : Directions,
                                   doorOver : BOOLEAN, moveOver : {FALSE}]
                    /\ \A p \in peers[n] : p.id \in Nodes \ {n} /\ p.floor \in Floors
                    /\ motor[n] \in Directions
                    /\ motor[n] # Stop <=> car[n].behavior = "moving"
                    /\ at[n] \in Floors
                    /\ floors[n] \in Seq(Floors) /\ Len(floors[n]) <= 1
                    /\ cell[n] \in R!Cell
  BY <1>0 DEF TypeOK, IInv
<1> DEFINE s == View(n, cell[n])
<1>1. s.car = car[n] /\ s.ctl = ctl[n] /\ s.peers = peers[n] /\ s.motor = motor[n]
  BY DEF View
<1>2. Fine(n, s, floors[n]) /\ cell[n] \in R!Cell /\ at[n] \in Floors
  BY DEF IInv, Here, Placed, Stamped
<1> HIDE DEF s
<1>3. s.car \in CarType(n) /\ s.ctl \in CtlType /\ s.motor \in Directions
  BY <1>2 DEF Fine, Work
<1>4. ~s.car.obstruction /\ s.car.behavior # "stuck" /\ ~s.ctl.moveOver
  BY <1>2 DEF Fine, Fit
<1>5. \A p \in s.peers : p.id \in Nodes \ {n} /\ p.floor \in Floors
  <2>1. \A p \in s.peers : p \in Soft /\ p.id \in Nodes \ {n}
    BY <1>2 DEF Fine, Work, Known
  <2> QED BY <2>1 DEF Soft, CarType
<1>6. s.motor # Stop <=> s.car.behavior = "moving"
  BY <1>2 DEF Fine, Safe
<1>7. floors[n] \in Seq(Floors) /\ Len(floors[n]) <= 1
  <2>1. floors[n] = <<>> \/ \E g \in Floors : floors[n] = <<g>>
    BY <1>2 DEF Fine
  <2>2. CASE floors[n] = <<>>
    BY <2>2
  <2>3. ASSUME NEW g \in Floors, floors[n] = <<g>>
        PROVE  floors[n] \in Seq(Floors) /\ Len(floors[n]) <= 1
    BY <2>3
  <2> QED BY <2>1, <2>2, <2>3
<1>8. s.car \in [id : {n}, floor : Floors, direction : Directions, behavior : Behaviors \ {"stuck"},
                 doorOpen : BOOLEAN, obstruction : {FALSE}]
  BY <1>3, <1>4 DEF CarType
<1>9. s.ctl \in [ready : BOOLEAN, travelDir : Directions, doorDir : Directions,
                 doorOver : BOOLEAN, moveOver : {FALSE}]
  BY <1>3, <1>4 DEF CtlType
<1> QED BY <1>1, <1>2, <1>3, <1>5, <1>6, <1>7, <1>8, <1>9

(* A step of n leaves the others as they are. *)
LEMMA OthersStay ==
  ASSUME IInv, NEW n \in Nodes, NEW m \in Nodes \ {n}, UNCHANGED call,
         car'[m] = car[m], ctl'[m] = ctl[m], peers'[m] = peers[m], motor'[m] = motor[m],
         at'[m] = at[m], floors'[m] = floors[m], cell'[m] = cell[m]
  PROVE  Here(m)'
<1>1. View(m, cell[m])' = View(m, cell[m])
  BY DEF View, ActiveIn
<1>2. Here(m)
  BY DEF IInv
<1> QED BY <1>1, <1>2 DEF Here, Placed

LEMMA Unmoved ==
  ASSUME NEW m, UNCHANGED call,
         car'[m] = car[m], ctl'[m] = ctl[m], peers'[m] = peers[m], motor'[m] = motor[m],
         at'[m] = at[m], floors'[m] = floors[m], cell'[m] = cell[m]
  PROVE  UNCHANGED Elevator(m)!vars
BY DEF Elevator!vars, ActiveIn

-----------------------------------------------------------------------------
(* Versions of one boot each are ordered by counter, then writer. *)
LEMMA NewerIs ==
  ASSUME NEW a, NEW b, Stamped(a), Stamped(b)
  PROVE  R!Newer(a.version, b.version) <=>
           \/ a.version.counter > b.version.counter
           \/ a.version.counter = b.version.counter /\ a.version.writerID > b.version.writerID
<1>1. /\ a.version.counter \in Nat /\ a.version.writerID \in Nat
      /\ b.version.counter \in Nat /\ b.version.writerID \in Nat
  BY DEF Stamped, R!Cell, R!Version
<1>2. \/ /\ a.version.counter = 0 /\ a.version.writerID = 0 /\ a.version.bootID = 0
      \/ a.version.counter > 0 /\ a.version.bootID = 1
  BY DEF Stamped, R!ZeroCell, R!ZeroVersion
<1>3. \/ /\ b.version.counter = 0 /\ b.version.writerID = 0 /\ b.version.bootID = 0
      \/ b.version.counter > 0 /\ b.version.bootID = 1
  BY DEF Stamped, R!ZeroCell, R!ZeroVersion
<1> QED BY <1>1, <1>2, <1>3 DEF R!Newer

LEMMA Ordered ==
  ASSUME NEW a, NEW b, NEW c, Stamped(a), Stamped(b), Stamped(c)
  PROVE  /\ NoNewer(a, b) /\ NoNewer(b, c) => NoNewer(a, c)
         /\ NoNewer(a, a)
         /\ ~NoNewer(a, b) => NoNewer(b, a)
         /\ NoNewer(a, b) => a.version.counter <= b.version.counter
<1>1. \A e \in {a, b, c} : e.version.counter \in Nat /\ e.version.writerID \in Nat
  BY DEF Stamped, R!Cell, R!Version
<1> QED BY <1>1, NewerIs DEF NoNewer

LEMMA WrittenStamped ==
  ASSUME NEW n \in Nodes, NEW c, Stamped(c), NEW b \in BOOLEAN
  PROVE  /\ Stamped(Written(n, c, b)) /\ Written(n, c, b).active = b
         /\ NoNewer(c, Written(n, c, b))
         /\ IF c.active = b THEN Written(n, c, b) = c
            ELSE Written(n, c, b).version.counter = c.version.counter + 1
<1>1. c.version.counter \in Nat /\ n \in Nat /\ c \in R!Cell
  BY NodesAssumption DEF Stamped, R!Cell, R!Version
<1>2. CASE c.active = b
  BY <1>2, Ordered DEF Written
<1>3. CASE c.active # b
  <2> DEFINE w == Written(n, c, b)
  <2>1. w = [active |-> b, version |-> [counter |-> c.version.counter + 1, writerID |-> n,
                                        bootID |-> 1]]
    BY <1>3 DEF Written
  <2>2. Stamped(w) /\ w.active = b /\ w.version.counter = c.version.counter + 1
    BY <1>1, <2>1 DEF Stamped, R!Cell, R!Version
  <2> HIDE DEF w
  <2>3. NoNewer(c, w)
    BY <1>1, <2>2, NewerIs DEF NoNewer
  <2> QED BY <1>3, <2>2, <2>3 DEF w
<1> QED BY <1>2, <1>3

(* Snapshots on their way stay old. *)
LEMMA LateStays ==
  ASSUME IInv, NEW n \in Nodes, UNCHANGED late, \A m \in Nodes \ {n} : cell'[m] = cell[m],
         Stamped(cell'[n]), NoNewer(cell[n], cell'[n])
  PROVE  \A p \in late' : LateFine(p)'
<1> SUFFICES ASSUME NEW p \in late PROVE NoNewer(p.cell, cell'[p.car.id])
  BY DEF IInv, LateFine
<1>1. p.car.id \in Nodes /\ Stamped(p.cell) /\ NoNewer(p.cell, cell[p.car.id]) /\ Stamped(cell[n])
  BY DEF IInv, LateFine, Here
<1> QED BY <1>1, Ordered

(* The cell that n leaves unless it clears the call for somebody: if the newest word *)
(* was that the call is lit, it still is.                                            *)
LEMMA StaysLit ==
  ASSUME IInv, NEW n \in Nodes, NEW c, Started(n, c), cell' = [cell EXCEPT ![n] = c], Lit
  PROVE  Lit'
<1>1. \A m \in Nodes : Stamped(cell[m])
  BY DEF IInv, Here
<1>2. cell'[n] = c /\ \A m \in Nodes \ {n} : cell'[m] = cell[m]
  BY DEF IInv, Entries
<1>3. PICK k \in Nodes : cell[k].active /\ \A m \in Nodes : NoNewer(cell[m], cell[k])
  BY DEF Lit, Latest, NoNewer
<1>4. Stamped(c)
  BY DEF Started
<1>5. SUFFICES \E l \in Nodes : cell'[l].active /\ \A m \in Nodes : NoNewer(cell'[m], cell'[l])
  BY DEF Lit, Latest, NoNewer
<1>6. CASE NoNewer(c, cell[k])
  <2>1. CASE k = n
    <3>1. cell[n].active = TRUE
      BY <1>1, <1>3, <2>1 DEF Stamped, R!Cell
    <3>2. c = cell[n]
      BY <1>6, <2>1, <3>1 DEF Started, Written, NoNewer
    <3> QED BY <1>2, <1>3, <2>1, <3>2
  <2>2. CASE k # n
    BY <1>2, <1>3, <1>6, <2>2
  <2> QED BY <2>1, <2>2
<1>7. CASE ~NoNewer(c, cell[k])
  <2>1. c # cell[n] /\ \A m \in Nodes : ~NoNewer(c, cell[m])
    BY <1>1, <1>3, <1>4, <1>7, Ordered
  <2>2. c = Written(n, cell[n], TRUE)
    BY <2>1 DEF Started
  <2>3. c.active
    BY <1>1, <2>2, WrittenStamped
  <2>4. \A m \in Nodes : NoNewer(cell[m], c)
    BY <1>1, <1>4, <2>1, Ordered
  <2>5. NoNewer(c, c)
    BY <1>4, Ordered
  <2> QED BY <1>2, <2>3, <2>4, <2>5
<1> QED BY <1>6, <1>7

(* A handler that is told nothing of the call starts with the cell of its elevator. *)
LEMMA OwnStarts == ASSUME IInv, NEW n \in Nodes PROVE Started(n, cell[n])
BY Ordered DEF IInv, Here, Started

LEMMA SameCells == ASSUME UNCHANGED cell PROVE Cleared
BY DEF Cleared, Lit, Latest

-----------------------------------------------------------------------------
(* A handler that leaves such a record leaves such a state. *)
LEMMA SyncHere ==
  ASSUME IInv, NEW n \in Nodes, NEW c, Started(n, c), NEW t, NEW q, Fine(n, t, q),
         t.active \subseteq ActiveIn(c),
         \A k \in ActiveIn(c) \ t.active : /\ t.car.doorOpen /\ ~t.ctl.doorOver
                                         /\ k[1] = t.car.floor /\ k[2] \in {Stop, t.ctl.doorDir},
         Sync(n, c, t), floors' = [floors EXCEPT ![n] = q]
  PROVE  Good /\ Ended(n, t)
<1>1. /\ car' = [car EXCEPT ![n] = t.car] /\ ctl' = [ctl EXCEPT ![n] = t.ctl]
      /\ peers' = [peers EXCEPT ![n] = t.peers] /\ motor' = [motor EXCEPT ![n] = t.motor]
      /\ at' = [at EXCEPT ![n] = t.car.floor]
      /\ cell' = [cell EXCEPT ![n] = Written(n, c, call \in t.active)]
      /\ call' = call /\ late' = late
  BY DEF Sync
<1>2. Entries'
  BY <1>1 DEF IInv, Entries
<1>3. /\ car'[n] = t.car /\ ctl'[n] = t.ctl /\ peers'[n] = t.peers /\ motor'[n] = t.motor
      /\ at'[n] = t.car.floor /\ floors'[n] = q /\ cell'[n] = Written(n, c, call \in t.active)
  BY <1>1 DEF IInv, Entries
<1>4. /\ Stamped(cell'[n]) /\ cell'[n].active = (call \in t.active) /\ NoNewer(cell[n], cell'[n])
      /\ IF c.active = cell'[n].active THEN cell'[n] = c
         ELSE cell'[n].version.counter = c.version.counter + 1
  <2> DEFINE b == call \in t.active
  <2>1. b \in BOOLEAN /\ cell'[n] = Written(n, c, b)
    BY <1>3
  <2> HIDE DEF b
  <2>2. Stamped(c) /\ Stamped(cell[n]) /\ NoNewer(cell[n], c)
    BY DEF Started, IInv, Here
  <2>3. /\ Stamped(cell'[n]) /\ cell'[n].active = b /\ NoNewer(c, cell'[n])
        /\ IF c.active = b THEN cell'[n] = c ELSE cell'[n].version.counter = c.version.counter + 1
    BY <2>1, <2>2, WrittenStamped
  <2>4. NoNewer(cell[n], cell'[n])
    BY <2>2, <2>3, Ordered
  <2> QED BY <2>3, <2>4 DEF b
<1>5. t.active = IF cell'[n].active THEN {call} ELSE {}
  BY <1>4 DEF ActiveIn
<1>6. t = [car |-> t.car, ctl |-> t.ctl, active |-> t.active, peers |-> t.peers, motor |-> t.motor]
  BY DEF Fine, Work
<1>7. View(n, cell[n])' = t
  BY <1>1, <1>3, <1>5, <1>6 DEF View, ActiveIn
<1>8. Here(n)'
  <2>1. t.car.floor \in Floors
    BY DEF Fine, Work, CarType
  <2> QED BY <1>3, <1>4, <1>7, <2>1 DEF Here, Placed
<1>9. ASSUME NEW m \in Nodes \ {n} PROVE Here(m)'
  <2>1. /\ car'[m] = car[m] /\ ctl'[m] = ctl[m] /\ peers'[m] = peers[m] /\ motor'[m] = motor[m]
        /\ at'[m] = at[m] /\ floors'[m] = floors[m] /\ cell'[m] = cell[m]
    BY <1>1 DEF IInv, Entries
  <2> QED BY <1>1, <2>1, OthersStay
<1>10. ASSUME NEW m \in Nodes \ {n} PROVE cell'[m] = cell[m]
  BY <1>1 DEF IInv, Entries
<1>11. IInv'
  <2>1. \A p \in late' : LateFine(p)'
    BY <1>1, <1>4, <1>10, LateStays
  <2> QED BY <1>1, <1>2, <1>8, <1>9, <2>1 DEF IInv
<1>12. ASSUME Lit, ~Lit'
       PROVE  /\ cell'[n] # cell[n] /\ ~cell'[n].active
              /\ car'[n].doorOpen /\ ~ctl'[n].doorOver
              /\ call = <<car'[n].floor, ctl'[n].doorDir>>
  <2>1. cell'[n] # c
    BY <1>1, <1>3, <1>12, StaysLit
  <2>2. c.active # (call \in t.active) /\ cell'[n].version.counter = c.version.counter + 1
    BY <1>4, <2>1
  <2>3. c.active \in BOOLEAN /\ c.version.counter \in Nat /\ cell[n].version.counter <= c.version.counter
        /\ cell[n].version.counter \in Nat
    <3>1. Stamped(c) /\ Stamped(cell[n]) /\ NoNewer(cell[n], c)
      BY DEF Started, IInv, Here
    <3>2. cell[n].version.counter <= c.version.counter
      BY <3>1, Ordered
    <3> QED BY <3>1, <3>2 DEF Stamped, R!Cell, R!Version
  <2>4. call \in ActiveIn(c) \ t.active
    BY <2>2, <2>3 DEF ActiveIn
  <2>5. cell'[n] # cell[n] /\ ~cell'[n].active
    <3>1. ~cell'[n].active
      BY <1>4, <2>4
    <3>2. cell'[n].version.counter # cell[n].version.counter
      BY <2>2, <2>3
    <3> QED BY <3>1, <3>2
  <2>6. call \in Floors \X Directions /\ call[2] # Stop
    BY DEF IInv, HallCalls, Calls
  <2>7. call[1] = t.car.floor /\ call[2] = t.ctl.doorDir
    BY <2>4, <2>6
  <2>8. call = <<t.car.floor, t.ctl.doorDir>>
    BY <2>6, <2>7
  <2> QED BY <1>3, <2>4, <2>5, <2>8
<1>13. Cleared
  BY <1>12 DEF Cleared
<1>14. ASSUME NEW set, NEW s PROVE Elevator(n)!Sync(set, s, t)
  <2>1. ActiveIn(cell[n])' = t.active
    BY <1>1, <1>5 DEF ActiveIn
  <2>2. {} = {} \ ((set \ ActiveIn(cell[n])) \cup (s.active \ t.active))
    OBVIOUS
  <2> QED BY <1>3, <2>1, <2>2 DEF Elevator!Sync
<1>15. ASSUME NEW m \in Nodes \ {n} PROVE UNCHANGED Elevator(m)!vars
  <2>1. /\ car'[m] = car[m] /\ ctl'[m] = ctl[m] /\ peers'[m] = peers[m] /\ motor'[m] = motor[m]
        /\ at'[m] = at[m] /\ floors'[m] = floors[m] /\ cell'[m] = cell[m]
    BY <1>1 DEF IInv, Entries
  <2> QED BY <1>1, <2>1, Unmoved
<1>16. Ended(n, t)
  BY <1>14, <1>15 DEF Ended
<1> QED BY <1>11, <1>13, <1>16 DEF Good

(* What n works on, with c for the call and P for its peers. *)
LEMMA ViewWork ==
  ASSUME IInv, NEW n \in Nodes, NEW c \in R!Cell, NEW P \in SUBSET Known(n)
  PROVE  LET s == [View(n, c) EXCEPT !.peers = P]
         IN  /\ s \in Work(n, Known(n)) /\ Safe(s) /\ s.active = ActiveIn(c) /\ s.peers = P
             /\ s.car = car[n] /\ s.ctl = ctl[n] /\ s.motor = motor[n]
<1> DEFINE v == View(n, cell[n])
           s == [View(n, c) EXCEPT !.peers = P]
<1>1. v \in Work(n, Known(n)) /\ Safe(v)
  BY DEF IInv, Here, Fine
<1>2. v.car = car[n] /\ v.ctl = ctl[n] /\ v.motor = motor[n]
  BY DEF View
<1>3. s = [car |-> car[n], ctl |-> ctl[n], active |-> ActiveIn(c), peers |-> P, motor |-> motor[n]]
  BY DEF View
<1> HIDE DEF v, s
<1>4. car[n] \in CarType(n) /\ ctl[n] \in CtlType /\ motor[n] \in Directions
  BY <1>1, <1>2 DEF Work
<1>5. P \in SUBSET {p \in Known(n) \cap Soft : p.id # n}
  BY DEF Known
<1>6. ActiveIn(c) \in SUBSET Calls
  BY DEF IInv, HallCalls, ActiveIn
<1>7. s \in Work(n, Known(n))
  BY <1>3, <1>4, <1>5, <1>6 DEF Work
<1>8. Safe(s)
  BY <1>1, <1>2, <1>3 DEF Safe
<1> QED BY <1>3, <1>7, <1>8 DEF s

-----------------------------------------------------------------------------
(* A handler of anything but a floor event; its record s is n's own but for *)
(* the call and the peers.                                                  *)
LEMMA HandlerHere ==
  ASSUME IInv, NEW n \in Nodes, NEW c, Started(n, c), NEW s, NEW t,
         s.car = car[n], s.motor = motor[n], s.active = ActiveIn(c), Apart(s.peers),
         t \in Work(n, Known(n)), Safe(t), Fit(t), Kept(s, t), Clears(s, t),
         Sync(n, c, t), UNCHANGED floors
  PROVE  Good /\ Ended(n, t)
<1> DEFINE v == View(n, cell[n])
<1>1. Fine(n, v, floors[n]) /\ v.car = car[n] /\ v.motor = motor[n]
  BY DEF IInv, Here, View
<1> HIDE DEF v
<1>2. t.car.floor = v.car.floor /\ t.car.obstruction = v.car.obstruction
  BY <1>1 DEF Kept, Clears
<1>3. t.car.behavior = "moving" => t.motor # Stop
  BY <1>1 DEF Kept, Fine
<1>4. Fine(n, t, floors[n])
  BY <1>1, <1>2, <1>3 DEF Fine, Clears
<1>5. floors' = [floors EXCEPT ![n] = floors[n]]
  BY DEF IInv, Entries
<1>6. /\ t.active \subseteq ActiveIn(c)
      /\ \A k \in ActiveIn(c) \ t.active : /\ t.car.doorOpen /\ ~t.ctl.doorOver
                                         /\ k[1] = t.car.floor /\ k[2] \in {Stop, t.ctl.doorDir}
  BY DEF Clears, Served
<1> QED BY <1>4, <1>5, <1>6, SyncHere

(* A handler that makes the car plan. *)
LEMMA PlanHere ==
  ASSUME IInv, NEW n \in Nodes, NEW c, Started(n, c), NEW P \in SUBSET Known(n), Apart(P),
         Sync(n, c, Plan([View(n, c) EXCEPT !.peers = P])), UNCHANGED floors
  PROVE  Good /\ Ended(n, Plan([View(n, c) EXCEPT !.peers = P]))
<1> DEFINE s == [View(n, c) EXCEPT !.peers = P]
           t == Plan(s)
<1>1. /\ s \in Work(n, Known(n)) /\ Safe(s) /\ s.active = ActiveIn(c) /\ s.peers = P
      /\ s.car = car[n] /\ s.ctl = ctl[n] /\ s.motor = motor[n]
  BY ViewWork DEF Started, Stamped
<1>2. car[n].behavior # "stuck" /\ ~ctl[n].moveOver
  BY DEF IInv, Here, Fine, Fit, View
<1>3. Sync(n, c, t)
  OBVIOUS
<1> SUFFICES Good /\ Ended(n, t)
  OBVIOUS
<1> HIDE DEF s
<1>4. t \in Work(n, Known(n)) /\ Safe(t) /\ Clears(s, t)
  BY <1>1, PlanKeeps
<1>5. Fit(t) /\ Kept(s, t)
  BY <1>1, <1>2, PlanFits
<1> HIDE DEF t
<1> QED BY <1>1, <1>3, <1>4, <1>5, HandlerHere

(* A tick, with or without peers that expire; it may be the end of the sync window. *)
LEMMA TickHere ==
  ASSUME IInv, NEW n \in Nodes, NEW gone \in SUBSET peers[n], NEW ready \in BOOLEAN,
         NEW s, s = [View(n, cell[n]) EXCEPT !.ctl.ready = ready, !.peers = @ \ gone],
         Sync(n, cell[n], TickStep(s, gone # {})), UNCHANGED floors
  PROVE  Good /\ Ended(n, TickStep(s, gone # {}))
<1> DEFINE v == View(n, cell[n])
           t == TickStep(s, gone # {})
<1>0. Started(n, cell[n]) /\ Fit(v)
      /\ v \in Work(n, Known(n)) /\ Safe(v) /\ Apart(v.peers)
  BY OwnStarts DEF IInv, Here, Fine
<1>1. v.car = car[n] /\ v.motor = motor[n] /\ v.active = ActiveIn(cell[n]) /\ v.peers = peers[n]
  BY DEF View
<1>2. Sync(n, cell[n], t) /\ (gone # {}) \in BOOLEAN
  OBVIOUS
<1>3. s = [v EXCEPT !.ctl.ready = ready, !.peers = @ \ gone]
  OBVIOUS
<1> SUFFICES Good /\ Ended(n, t)
  OBVIOUS
<1> HIDE DEF v
<1>4. /\ s \in Work(n, Known(n)) /\ s.car = v.car /\ s.motor = v.motor /\ s.active = v.active
      /\ s.peers = v.peers \ gone /\ s.ctl.moveOver = v.ctl.moveOver
  <2>1. /\ s.car = v.car /\ s.motor = v.motor /\ s.active = v.active /\ s.peers = v.peers \ gone
        /\ s.ctl = [v.ctl EXCEPT !.ready = ready]
        /\ s = [car |-> s.car, ctl |-> s.ctl, active |-> s.active, peers |-> s.peers,
                motor |-> s.motor]
    BY <1>3 DEF v, View
  <2>2. s.ctl \in CtlType /\ s.ctl.moveOver = v.ctl.moveOver
    BY <1>0, <2>1 DEF Work, CtlType
  <2>3. s \in Work(n, Known(n))
    BY <1>0, <2>1, <2>2 DEF Work
  <2> QED BY <2>1, <2>2, <2>3
<1>5. Safe(s) /\ Apart(s.peers)
  BY <1>0, <1>4 DEF Safe, Apart
<1>6. s.car.behavior # "stuck" /\ ~s.ctl.moveOver
  BY <1>0, <1>4 DEF Fit
<1>7. ~(gone # {}) => Fit(s)
  BY <1>0, <1>4 DEF Fit, Ahead, Claim
<1>8. t \in Work(n, Known(n)) /\ Safe(t) /\ Clears(s, t)
  BY <1>2, <1>4, <1>5, TickKeeps
<1>9. Fit(t) /\ Kept(s, t)
  BY <1>2, <1>4, <1>6, <1>7, TickFits
<1> HIDE DEF t
<1> QED BY <1>0, <1>1, <1>2, <1>4, <1>5, <1>8, <1>9, HandlerHere

LEMMA PeersKnown ==
  ASSUME IInv, NEW n \in Nodes
  PROVE  peers[n] \in SUBSET Known(n) /\ Apart(peers[n])
BY DEF IInv, Here, Fine, View, Work

LEMMA FloorHere ==
  ASSUME IInv, NEW n \in Nodes, HandleFloor(n)
  PROVE  Good /\ Ended(n, FloorStep(View(n, cell[n]), Head(floors[n])))
<1> DEFINE s == View(n, cell[n])
           t == FloorStep(s, Head(floors[n]))
<1>1. Fine(n, s, floors[n]) /\ Started(n, cell[n]) /\ s.active = ActiveIn(cell[n])
  BY OwnStarts DEF IInv, Here, View
<1>2. floors[n] # <<>> /\ Sync(n, cell[n], t) /\ floors' = [floors EXCEPT ![n] = Tail(floors[n])]
  BY DEF HandleFloor
<1> SUFFICES Good /\ Ended(n, t)
  OBVIOUS
<1> HIDE DEF s
<1>3. PICK g \in {s.car.floor - 1, s.car.floor + 1} : g \in Floors /\ floors[n] = <<g>>
  BY <1>1, <1>2 DEF Fine
<1>4. Head(floors[n]) = g /\ Tail(floors[n]) = <<>>
  BY <1>3
<1>5. t \in Work(n, Known(n)) /\ Safe(t) /\ Clears(s, t)
  BY <1>1, <1>3, <1>4, FloorKeeps DEF Fine
<1>6. Fit(t) /\ (t.car.behavior = "moving" => s.car.behavior = "moving" /\ t.motor = s.motor)
  BY <1>1, <1>3, <1>4, FloorFits DEF Fine
<1> HIDE DEF t
<1>7. Fine(n, t, <<>>)
  BY <1>1, <1>5, <1>6 DEF Fine, Clears
<1>8. /\ t.active \subseteq ActiveIn(cell[n])
      /\ \A k \in ActiveIn(cell[n]) \ t.active :
           /\ t.car.doorOpen /\ ~t.ctl.doorOver
           /\ k[1] = t.car.floor /\ k[2] \in {Stop, t.ctl.doorDir}
  BY <1>1, <1>5 DEF Clears, Served
<1> QED BY <1>1, <1>2, <1>4, <1>7, <1>8, SyncHere

(* The deadline changes nothing that Fine asks for. *)
LEMMA DeadlineHere ==
  ASSUME IInv, NEW n \in Nodes, DoorDeadline(n)
  PROVE  Good
<1> DEFINE v == View(n, cell[n])
           t == [v EXCEPT !.ctl = ctl'[n]]
<1>1. Fine(n, v, floors[n]) /\ Stamped(cell[n]) /\ v.ctl = ctl[n]
  BY DEF IInv, Here, View
<1>2. /\ ctl' = [ctl EXCEPT ![n].doorOver = TRUE]
      /\ UNCHANGED <<call, car, peers, motor, at, floors, cell, late>>
  BY DEF DoorDeadline
<1>3. Entries'
  BY <1>2 DEF IInv, Entries
<1>4. ctl'[n] = [ctl[n] EXCEPT !.doorOver = TRUE]
  BY <1>2 DEF IInv, Entries
<1>5. View(n, cell[n])' = t
  <2>1. ActiveIn(cell[n])' = ActiveIn(cell[n])
    BY <1>2 DEF ActiveIn
  <2>2. View(n, cell[n])' = [car |-> car[n], ctl |-> ctl'[n], active |-> ActiveIn(cell[n]),
                             peers |-> peers[n], motor |-> motor[n]]
    BY <1>2, <2>1 DEF View
  <2> QED BY <2>2 DEF View
<1> HIDE DEF v
<1>6. t \in Work(n, Known(n)) /\ t.car = v.car /\ t.motor = v.motor /\ t.active = v.active
      /\ t.peers = v.peers /\ t.ctl.moveOver = v.ctl.moveOver
  BY <1>1, <1>4 DEF Fine, Work, CtlType
<1> HIDE DEF t
<1>7. Fine(n, t, floors[n])
  BY <1>1, <1>6 DEF Fine, Safe, Fit, Ahead, Claim
<1>8. Here(n)'
  BY <1>1, <1>2, <1>5, <1>7 DEF IInv, Here, Placed
<1>9. ASSUME NEW m \in Nodes \ {n} PROVE Here(m)'
  <2>1. ctl'[m] = ctl[m]
    BY <1>2 DEF IInv, Entries
  <2> QED BY <1>2, <2>1, OthersStay
<1>10. \A p \in late' : LateFine(p)'
  BY <1>2 DEF IInv, LateFine
<1> QED BY <1>2, <1>3, <1>8, <1>9, <1>10, SameCells DEF IInv, Good

(* The driver reaches the next floor: there is one, since the car has a claim ahead. *)
LEMMA DriverHere ==
  ASSUME IInv, NEW n \in Nodes, DriverStep(n)
  PROVE  Good
<1> DEFINE v == View(n, cell[n])
           g == car[n].floor + motor[n]
<1>1. Fine(n, v, floors[n]) /\ Stamped(cell[n]) /\ v.car = car[n] /\ v.motor = motor[n]
  BY DEF IInv, Here, View
<1>2. motor[n] # Stop
  BY DEF DriverStep
<1> HIDE DEF v
<1>3. v.car.behavior = "moving" /\ motor[n] \in {Up, Down} /\ v.car.direction = motor[n] /\ Ahead(v)
  BY <1>1, <1>2 DEF Fine, Safe, Fit
<1>4. car[n].floor \in Floors /\ at[n] = car[n].floor
  BY <1>1 DEF IInv, Here, Placed, DriverStep, Fine, Work, CarType
<1>5. g \in Floors
  <2>1. PICK h \in Floors : Beyond(h, car[n].floor, motor[n])
    BY <1>1, <1>3 DEF Ahead
  <2> QED BY <1>3, <1>4, <2>1, FloorsAssumption DEF Beyond, Floors, Up, Down
<1>6. /\ floors' = [floors EXCEPT ![n] = <<g>>] /\ at' = [at EXCEPT ![n] = g]
      /\ UNCHANGED <<call, car, ctl, peers, motor, cell, late>>
  BY <1>4, <1>5 DEF DriverStep
<1>7. g \in {car[n].floor - 1, car[n].floor + 1}
  BY <1>3, <1>4, FloorsAreInts DEF Up, Down
<1> HIDE DEF g
<1>8. Entries' /\ floors'[n] = <<g>> /\ at'[n] = g
  BY <1>6 DEF IInv, Entries
<1>9. Fine(n, v, <<g>>)
  BY <1>1, <1>5, <1>7 DEF Fine
<1>10. View(n, cell[n])' = v
  BY <1>6 DEF View, ActiveIn, v
<1>11. Here(n)'
  <2>1. Stamped(cell'[n])
    BY <1>1, <1>6
  <2>2. Fine(n, View(n, cell[n])', floors'[n])
    BY <1>8, <1>9, <1>10
  <2>3. at'[n] \in Floors /\ floors'[n] # <<>>
    BY <1>5, <1>8
  <2> QED BY <2>1, <2>2, <2>3 DEF Here, Placed
<1>12. ASSUME NEW m \in Nodes \ {n} PROVE Here(m)'
  <2>1. floors'[m] = floors[m] /\ at'[m] = at[m]
    BY <1>6 DEF IInv, Entries
  <2> QED BY <1>6, <2>1, OthersStay
<1>13. \A p \in late' : LateFine(p)'
  BY <1>6 DEF IInv, LateFine
<1> QED BY <1>6, <1>8, <1>11, <1>12, <1>13, SameCells DEF IInv, Good

(* What an elevator tells of itself has the form that a Car assumes. *)
LEMMA HereForm == ASSUME IInv, NEW m \in Nodes PROVE Form(car[m]) /\ car[m].id = m
<1> DEFINE s == View(m, cell[m])
<1>1. Fine(m, s, floors[m]) /\ s.car = car[m]
  BY DEF IInv, Here, View
<1> HIDE DEF s
<1>2. car[m] \in CarType(m) /\ ~car[m].obstruction /\ car[m].behavior # "stuck"
  BY <1>1 DEF Fine, Fit, Work
<1>3. car[m].doorOpen <=> car[m].behavior = "doorOpen"
  BY <1>1 DEF Fine, Safe
<1> QED BY <1>2, <1>3 DEF CarType, Form

(* What reaches n, now or late: its sender has nothing older than it says. *)
LEMMA IncomingFine ==
  ASSUME IInv, NEW n \in Nodes, NEW p \in Incoming(n)
  PROVE  /\ p.car.id \in Nodes \ {n} /\ Form(p.car) /\ Stamped(p.cell)
         /\ NoNewer(p.cell, cell[p.car.id])
<1>1. CASE p \in late /\ p.car.id # n
  BY <1>1 DEF IInv, LateFine
<1>2. ASSUME NEW m \in Nodes \ {n}, p = Current(m) PROVE p.car.id \in Nodes \ {n} /\ LateFine(p)
  <2>1. p.car = car[m] /\ p.cell = cell[m] /\ Stamped(cell[m])
    BY <1>2 DEF Current, IInv, Here
  <2> QED BY <2>1, HereForm, Ordered DEF LateFine
<1> QED BY <1>1, <1>2 DEF Incoming, LateFine

(* A snapshot that changes nothing only drops older states of its sender. *)
LEMMA RemoteHere ==
  ASSUME IInv, NEW n \in Nodes, NEW p \in Incoming(n), ApplyRemote(n, p)
  PROVE  /\ Good
         /\ \/ Ended(n, Plan(Told(n, p)))
            \/ /\ R!MergeCell(cell[n], p.cell) = cell[n] /\ p.car \in peers[n]
               /\ Ended(n, Told(n, p))
<1> DEFINE m == p.car.id
           c == R!MergeCell(cell[n], p.cell)
           P == {q \in peers[n] : q.id # m} \cup {p.car}
           s == [View(n, c) EXCEPT !.peers = P]
<1>1. Stamped(cell[n]) /\ Stamped(p.cell) /\ m \in Nodes \ {n} /\ NoNewer(p.cell, cell[m])
  BY IncomingFine DEF IInv, Here
<1>2. c \in R!Cell /\ Started(n, c)
  <2>1. CASE R!Newer(p.cell.version, cell[n].version)
    <3>1. c = p.cell /\ NoNewer(cell[n], c)
      BY <1>1, <2>1, Ordered DEF R!MergeCell, NoNewer
    <3> QED BY <1>1, <2>1, <3>1 DEF Started, Stamped
  <2>2. CASE ~R!Newer(p.cell.version, cell[n].version)
    <3>1. c = cell[n]
      BY <2>2 DEF R!MergeCell
    <3> HIDE DEF c
    <3> QED BY <1>1, <3>1, OwnStarts DEF Stamped
  <2> QED BY <2>1, <2>2
<1>3. p.car \in CarType(m)
  BY IncomingFine DEF Form
<1>4. P \in SUBSET Known(n) /\ Apart(P)
  <2>1. m \in Nat
    BY <1>1, NodesAssumption
  <2>2. p.car \in Soft
    BY <1>3, <2>1 DEF Soft, CarType
  <2>3. p.car \in Known(n)
    BY <1>1, <2>2 DEF Known
  <2> QED BY <2>2, <2>3, PeersKnown DEF Apart
<1>5. \/ Sync(n, c, Plan(s))
      \/ c = cell[n] /\ p.car \in peers[n] /\ Sync(n, c, s)
  BY DEF ApplyRemote
<1>6. UNCHANGED floors
  BY DEF ApplyRemote
<1> SUFFICES Good /\ (Ended(n, Plan(s)) \/ (c = cell[n] /\ p.car \in peers[n] /\ Ended(n, s)))
  BY DEF Told
<1>7. CASE Sync(n, c, Plan(s))
  <2> HIDE DEF c, P
  <2> QED BY <1>2, <1>4, <1>6, <1>7, PlanHere
<1>8. CASE c = cell[n] /\ p.car \in peers[n] /\ Sync(n, c, s)
  <2> DEFINE v == View(n, cell[n])
  <2>1. P \subseteq peers[n]
    BY <1>8
  <2>2. v.peers = peers[n] /\ v.car = car[n] /\ v.ctl = ctl[n] /\ v.active = ActiveIn(c)
    BY <1>8 DEF View
  <2>3. Fit(v)
    BY DEF IInv, Here, Fine
  <2> HIDE DEF c, P, v
  <2>4. /\ s \in Work(n, Known(n)) /\ Safe(s) /\ s.active = ActiveIn(c) /\ s.peers = P
        /\ s.car = car[n] /\ s.ctl = ctl[n] /\ s.motor = motor[n]
    BY <1>2, <1>4, ViewWork
  <2>5. Sync(n, c, s)
    BY <1>8
  <2> HIDE DEF s
  <2>6. \A h : Claim(v, h) => Claim(s, h)
    BY <2>1, <2>2, <2>4 DEF Claim
  <2>7. Fit(s)
    BY <2>2, <2>3, <2>4, <2>6 DEF Fit, Ahead
  <2>8. Kept(s, s) /\ Clears(s, s)
    BY DEF Kept, Clears, Served
  <2> QED BY <1>2, <1>4, <1>6, <1>8, <2>4, <2>5, <2>7, <2>8, HandlerHere
<1> QED BY <1>5, <1>7, <1>8

-----------------------------------------------------------------------------
(* What module Car computes is what this module computes: it is the same text, *)
(* but the provers know it under another name.                                 *)
LEMMA SameSets ==
  ASSUME NEW n
  PROVE  /\ Elevator(n)!Floors = Floors /\ Elevator(n)!Calls = Calls
         /\ Elevator(n)!CabCalls = CabCalls
<1>1. Elevator(n)!Floors = Floors /\ Elevator(n)!Directions = Directions
  BY DEF Elevator!Floors, Floors, Elevator!Directions, Directions, Elevator!Up, Up,
         Elevator!Down, Down, Elevator!Stop, Stop
<1>2. Elevator(n)!Calls = Calls
  BY <1>1 DEF Elevator!Calls, Calls, Elevator!Up, Up, Elevator!Down, Down
<1>3. Elevator(n)!CabCalls = CabCalls
  BY <1>2 DEF Elevator!CabCalls, CabCalls, Elevator!Stop, Stop
<1> QED BY <1>1, <1>2, <1>3

LEMMA SameAssigner ==
  ASSUME NEW n
  PROVE  /\ \A a : Elevator(n)!Abs(a) = Abs(a)
         /\ \A a, P, f, d : Elevator(n)!Assigned(a, P, f, d) = Assigned(a, P, f, d)
<1>1. \A a : Elevator(n)!Abs(a) = Abs(a)
  BY DEF Elevator!Abs, Abs
<1>2. \A f, g : Elevator(n)!DirTo(f, g) = DirTo(f, g)
  BY DEF Elevator!DirTo, DirTo, Elevator!Up, Up, Elevator!Down, Down, Elevator!Stop, Stop
<1>3. \A a, f, d : Elevator(n)!Cost(a, f, d) = Cost(a, f, d)
  BY <1>1, <1>2 DEF Elevator!Cost, Cost, Elevator!Stop, Stop
<1>4. \A a, b, f, d : Elevator(n)!Before(a, b, f, d) = Before(a, b, f, d)
  BY <1>3 DEF Elevator!Before, Before
<1>5. \A a, P, f, d : Elevator(n)!Assigned(a, P, f, d) = Assigned(a, P, f, d)
  BY <1>4 DEF Elevator!Assigned, Assigned
<1> QED BY <1>1, <1>5

LEMMA SameCalls ==
  ASSUME NEW n, NEW s
  PROVE  /\ \A f, d : Elevator(n)!Hall(s, f, d) = Hall(s, f, d)
         /\ \A f : Elevator(n)!CanServe(s, f) = CanServe(s, f)
         /\ \A f : Elevator(n)!AnyAbove(s, f) = AnyAbove(s, f)
         /\ \A f : Elevator(n)!AnyBelow(s, f) = AnyBelow(s, f)
         /\ \A f, d : Elevator(n)!AnyBeyond(s, f, d) = AnyBeyond(s, f, d)
         /\ \A f, d : Elevator(n)!ShouldStop(s, f, d) = ShouldStop(s, f, d)
<1>1. \A f : Elevator(n)!Cab(s, f) = Cab(s, f)
  BY DEF Elevator!Cab, Cab, Elevator!CabCall, CabCall, Elevator!Stop, Stop
<1>2. \A f, d : Elevator(n)!Hall(s, f, d) = Hall(s, f, d)
  BY SameAssigner DEF Elevator!Hall, Hall
<1>3. \A f : Elevator(n)!CanServe(s, f) = CanServe(s, f)
  BY <1>1, <1>2 DEF Elevator!CanServe, CanServe, Elevator!Up, Up, Elevator!Down, Down
<1>4. \A f : Elevator(n)!AnyAbove(s, f) = AnyAbove(s, f)
  BY <1>3, SameSets DEF Elevator!AnyAbove, AnyAbove
<1>5. \A f : Elevator(n)!AnyBelow(s, f) = AnyBelow(s, f)
  BY <1>3, SameSets DEF Elevator!AnyBelow, AnyBelow
<1>6. \A f, d : Elevator(n)!AnyBeyond(s, f, d) = AnyBeyond(s, f, d)
  BY <1>4, <1>5 DEF Elevator!AnyBeyond, AnyBeyond, Elevator!Up, Up
<1>7. \A f, d : Elevator(n)!ShouldStop(s, f, d) = ShouldStop(s, f, d)
  BY <1>1, <1>2, <1>3, <1>6 DEF Elevator!ShouldStop, ShouldStop, Elevator!Stop, Stop
<1> QED BY <1>2, <1>3, <1>4, <1>5, <1>6, <1>7

LEMMA SameNextDir == ASSUME NEW n, NEW s PROVE Elevator(n)!NextDir(s) = NextDir(s)
<1> DEFINE f == s.car.floor
           t == s.ctl.travelDir
           others == {g \in Floors \ {f} : CanServe(s, g)}
           best == {g \in others : \A h \in others :
                      Abs(f - g) < Abs(f - h) \/ (Abs(f - g) = Abs(f - h) /\ g <= h)}
           others2 == {g \in Elevator(n)!Floors \ {f} : Elevator(n)!CanServe(s, g)}
           best2 == {g \in others2 : \A h \in others2 :
                       \/ Elevator(n)!Abs(f - g) < Elevator(n)!Abs(f - h)
                       \/ Elevator(n)!Abs(f - g) = Elevator(n)!Abs(f - h) /\ g <= h}
           towards(b) == CASE \E g \in b : g > f -> Up
                           [] \E g \in b : g < f -> Down
                           [] b = {}             -> Stop
<1>1. others2 = others
  BY SameSets, SameCalls
<1> HIDE DEF others, others2
<1>2. best2 = best
  BY <1>1, SameAssigner
<1>3. NextDir(s) = IF t # Stop /\ AnyBeyond(s, f, t) THEN t
                   ELSE IF t # Stop /\ AnyBeyond(s, f, -t) THEN -t
                   ELSE towards(best)
  BY DEF NextDir, best, others
<1>4. Elevator(n)!NextDir(s) =
        IF t # Stop /\ Elevator(n)!AnyBeyond(s, f, t) THEN t
        ELSE IF t # Stop /\ Elevator(n)!AnyBeyond(s, f, -t) THEN -t
        ELSE towards(best2)
  BY DEF Elevator!NextDir, best2, others2, Elevator!Up, Up, Elevator!Down, Down,
         Elevator!Stop, Stop
<1> HIDE DEF best, best2, towards
<1>5. \A d : Elevator(n)!AnyBeyond(s, f, d) = AnyBeyond(s, f, d)
  BY SameCalls
<1> HIDE DEF f, t
<1> QED BY <1>2, <1>3, <1>4, <1>5

LEMMA SameDoorDirs ==
  ASSUME NEW n, NEW s
  PROVE  /\ \A a : Elevator(n)!PickDoorDir(s, a) = PickDoorDir(s, a)
         /\ Elevator(n)!NextDoorDir(s) = NextDoorDir(s)
<1>1. \A a : Elevator(n)!PickDoorDir(s, a) = PickDoorDir(s, a)
  BY SameCalls DEF Elevator!PickDoorDir, PickDoorDir, Elevator!Up, Up, Elevator!Down, Down,
                   Elevator!Stop, Stop
<1>2. Elevator(n)!NextDoorDir(s) = NextDoorDir(s)
  BY SameCalls DEF Elevator!NextDoorDir, NextDoorDir, Elevator!Stop, Stop
<1> QED BY <1>1, <1>2

LEMMA SamePlan ==
  ASSUME NEW n
  PROVE  /\ \A s, d : Elevator(n)!ClearFloor(s, d) = ClearFloor(s, d)
         /\ \A s, a : Elevator(n)!Open(s, a) = Open(s, a)
         /\ \A s : Elevator(n)!Plan(s) = Plan(s)
<1>1. \A s, d : Elevator(n)!ClearFloor(s, d) = ClearFloor(s, d)
  BY DEF Elevator!ClearFloor, ClearFloor, Elevator!CabCall, CabCall, Elevator!Stop, Stop
<1>2. ASSUME NEW s, NEW a PROVE Elevator(n)!Open(s, a) = Open(s, a)
  <2>1. \A t, b : Elevator(n)!PickDoorDir(t, b) = PickDoorDir(t, b)
    BY SameDoorDirs
  <2> QED BY <1>1, <2>1 DEF Elevator!Open, Open, Elevator!Stop, Stop
<1>3. ASSUME NEW s PROVE Elevator(n)!Plan(s) = Plan(s)
  <2>1. Elevator(n)!NextDir(s) = NextDir(s)
    BY SameNextDir
  <2>2. \A f : Elevator(n)!CanServe(s, f) = CanServe(s, f)
    BY SameCalls
  <2> QED BY <1>2, <2>1, <2>2 DEF Elevator!Plan, Plan, Elevator!Stop, Stop
<1> QED BY <1>1, <1>2, <1>3

LEMMA SameDoorStep ==
  ASSUME NEW n, NEW s
  PROVE  /\ Elevator(n)!DoorDue(s) = DoorDue(s)
         /\ Elevator(n)!DoorStep(s) = DoorStep(s)
<1> DEFINE d == NextDoorDir(s)
<1>1. Elevator(n)!NextDoorDir(s) = d /\ Elevator(n)!Stop = Stop
  BY SameDoorDirs DEF Elevator!Stop, Stop
<1> HIDE DEF d
<1>2. Elevator(n)!DoorStep(s) = DoorStep(s)
  BY <1>1, SamePlan DEF Elevator!DoorStep, DoorStep, d
<1> QED BY <1>2 DEF Elevator!DoorDue, DoorDue

LEMMA SameHandlers ==
  ASSUME NEW n
  PROVE  /\ \A s, x : Elevator(n)!TickStep(s, x) = TickStep(s, x)
         /\ \A s, f : Elevator(n)!FloorStep(s, f) = FloorStep(s, f)
<1>1. ASSUME NEW s, NEW x PROVE Elevator(n)!TickStep(s, x) = TickStep(s, x)
  BY SamePlan, SameDoorStep DEF Elevator!TickStep, TickStep, Elevator!Stop, Stop
<1>2. ASSUME NEW s, NEW f PROVE Elevator(n)!FloorStep(s, f) = FloorStep(s, f)
  BY SamePlan, SameCalls DEF Elevator!FloorStep, FloorStep
<1> QED BY <1>1, <1>2

-----------------------------------------------------------------------------
(* What a handler of a Car starts with. *)
LEMMA SameView == ASSUME NEW n PROVE Elevator(n)!State = View(n, cell[n])
BY DEF Elevator!State, View

(* A step of n that is one of its Car. *)
LEMMA CarOf ==
  ASSUME NEW n \in Nodes, Elevator(n)!Next, \A m \in Nodes \ {n} : UNCHANGED Elevator(m)!vars
  PROVE  Cars
BY DEF Cars

LEMMA TickCar ==
  ASSUME IInv, NEW n \in Nodes, NEW gone \in SUBSET peers[n],
         HandleTick(n, gone) \/ EndSync(n, gone)
  PROVE  Good /\ Cars
<1>1. CASE HandleTick(n, gone)
  <2> DEFINE s == [View(n, cell[n]) EXCEPT !.peers = @ \ gone]
             t == TickStep(s, gone # {})
  <2>1. Sync(n, cell[n], t) /\ UNCHANGED floors /\ ctl[n].ready
    BY <1>1 DEF HandleTick
  <2>2. View(n, cell[n]) \in Work(n, Known(n)) /\ View(n, cell[n]).ctl = ctl[n]
    BY DEF IInv, Here, Fine, View
  <2>3. s = [View(n, cell[n]) EXCEPT !.ctl.ready = TRUE, !.peers = @ \ gone]
    BY <2>1, <2>2 DEF Work, CtlType
  <2>4. s = [Elevator(n)!State EXCEPT !.peers = @ \ gone]
    BY SameView
  <2> HIDE DEF s
  <2>5. Good /\ Ended(n, t)
    BY <2>1, <2>3, TickHere
  <2>6. t = Elevator(n)!TickStep(s, gone # {})
    BY SameHandlers
  <2> HIDE DEF t
  <2>7. Elevator(n)!HandleTick
    BY <2>1, <2>4, <2>5, <2>6 DEF Elevator!HandleTick, Ended
  <2> QED BY <2>5, <2>7, CarOf DEF Elevator!Next, Elevator!Own, Ended
<1>2. CASE EndSync(n, gone)
  <2> DEFINE s == [View(n, cell[n]) EXCEPT !.ctl.ready = TRUE, !.peers = @ \ gone]
             t == TickStep(s, gone # {})
  <2>1. Sync(n, cell[n], t) /\ UNCHANGED floors /\ ~ctl[n].ready
    BY <1>2 DEF EndSync
  <2>2. s = [Elevator(n)!State EXCEPT !.ctl.ready = TRUE, !.peers = @ \ gone]
    BY SameView
  <2>3. s = [View(n, cell[n]) EXCEPT !.ctl.ready = TRUE, !.peers = @ \ gone]
    OBVIOUS
  <2> HIDE DEF s
  <2>4. Good /\ Ended(n, t)
    BY <2>1, <2>3, TickHere
  <2>5. t = Elevator(n)!TickStep(s, gone # {})
    BY SameHandlers
  <2> HIDE DEF t
  <2>6. Elevator(n)!EndSync
    BY <2>1, <2>2, <2>4, <2>5 DEF Elevator!EndSync, Ended
  <2> QED BY <2>4, <2>6, CarOf DEF Elevator!Next, Elevator!Own, Ended
<1> QED BY <1>1, <1>2

LEMMA FloorCar == ASSUME IInv, NEW n \in Nodes, HandleFloor(n) PROVE Good /\ Cars
<1> DEFINE t == FloorStep(View(n, cell[n]), Head(floors[n]))
<1>1. Good /\ Ended(n, t)
  BY FloorHere
<1>2. t = Elevator(n)!FloorStep(Elevator(n)!State, Head(floors[n]))
  BY SameView, SameHandlers
<1> HIDE DEF t
<1>3. ctl[n].ready /\ floors[n] # <<>> /\ floors'[n] = Tail(floors[n])
  BY DEF HandleFloor, IInv, Entries
<1>4. Elevator(n)!HandleFloor
  BY <1>1, <1>2, <1>3 DEF Elevator!HandleFloor, Ended
<1> QED BY <1>1, <1>4, CarOf DEF Elevator!Next, Elevator!Own, Ended

LEMMA ButtonCar == ASSUME IInv, NEW n \in Nodes, HandleButton(n) PROVE Good /\ Cars
<1> DEFINE c == Written(n, cell[n], TRUE)
           s == [View(n, c) EXCEPT !.peers = peers[n]]
           t == Plan(s)
<1>1. s = View(n, c)
  <2> HIDE DEF c
  <2> QED BY DEF View
<1>2. Sync(n, c, t) /\ UNCHANGED floors /\ ctl[n].ready /\ peers[n] # {}
  BY <1>1 DEF HandleButton
<1>3. Started(n, c) /\ c.active
  <2>1. Stamped(cell[n])
    BY DEF IInv, Here
  <2> QED BY <2>1, WrittenStamped DEF Started
<1>4. s = [Elevator(n)!State EXCEPT !.active = @ \cup {call}]
  <2>1. ActiveIn(c) = ActiveIn(cell[n]) \cup {call}
    BY <1>3 DEF ActiveIn
  <2> HIDE DEF c
  <2> QED BY <2>1, <1>1 DEF View, Elevator!State
<1> HIDE DEF c
<1>5. Good /\ Ended(n, t)
  BY <1>2, <1>3, PeersKnown, PlanHere
<1> HIDE DEF s
<1>6. t = Elevator(n)!Plan(s)
  BY SamePlan
<1> HIDE DEF t
<1>7. Elevator(n)!HandleButton(call)
  BY <1>2, <1>4, <1>5, <1>6 DEF Elevator!HandleButton, Ended
<1>8. call \in Elevator(n)!Calls
  BY SameSets DEF IInv, HallCalls
<1> QED BY <1>5, <1>7, <1>8, CarOf DEF Elevator!Next, Ended

LEMMA RemoteCar ==
  ASSUME IInv, NEW n \in Nodes, NEW p \in Incoming(n), ApplyRemote(n, p)
  PROVE  Good /\ Cars
<1> DEFINE c == R!MergeCell(cell[n], p.cell)
           s == Told(n, p)
           news == IF c.active = cell[n].active THEN {} ELSE {call}
<1>1. Good /\ (\/ Ended(n, Plan(s))
               \/ c = cell[n] /\ p.car \in peers[n] /\ Ended(n, s))
  BY RemoteHere
<1>2. UNCHANGED floors
  BY DEF ApplyRemote
<1>3. p.car \in Reports(n)
  BY IncomingFine DEF Form, CarType, Reports
<1>4. View(n, c) = [Elevator(n)!State EXCEPT !.active = (@ \ news) \cup (news \ @)]
  <2>1. cell[n].active \in BOOLEAN /\ c.active \in BOOLEAN
    BY IncomingFine DEF IInv, Here, Stamped, R!MergeCell, R!Cell
  <2> HIDE DEF c
  <2>2. ActiveIn(c) = (ActiveIn(cell[n]) \ news) \cup (news \ ActiveIn(cell[n]))
    BY <2>1 DEF ActiveIn
  <2> HIDE DEF news
  <2> QED BY <2>2, SMT DEF View, Elevator!State
<1>5. s = [View(n, c) EXCEPT
             !.peers = {q \in @ : q.id \notin {h.id : h \in {p.car}}} \cup {p.car}]
  <2>1. {q \in peers[n] : q.id \notin {h.id : h \in {p.car}}} = {q \in peers[n] : q.id # p.car.id}
    OBVIOUS
  <2>2. View(n, c).peers = peers[n]
    BY DEF View
  <2> QED BY <2>1, <2>2 DEF Told
<1>6. news \in OneCall /\ news \cap Elevator(n)!CabCalls \subseteq {}
  BY SameSets DEF OneCall, IInv, HallCalls, CabCalls
<1>7. c = cell[n] => news = {}
  OBVIOUS
<1>8. Plan(s) = Elevator(n)!Plan(s)
  BY SamePlan
<1> HIDE DEF c, s, news
<1>9. ASSUME NEW from, from = {p.car}, NEW flips, flips = news
      PROVE  Elevator(n)!ApplyRemote(from, flips)
  <2>1. CASE Ended(n, Plan(s))
    <3>1. Elevator(n)!Sync({}, s, Elevator(n)!Plan(s))
      BY <2>1, <1>8 DEF Ended
    <3> QED BY <3>1, <1>2, <1>4, <1>5, <1>6, <1>9 DEF Elevator!ApplyRemote
  <2>2. CASE c = cell[n] /\ p.car \in peers[n] /\ Ended(n, s)
    <3>1. Elevator(n)!Sync({}, s, s) /\ flips = {} /\ from \subseteq peers[n]
      BY <2>2, <1>7, <1>9 DEF Ended
    <3> QED BY <3>1, <1>2, <1>4, <1>5, <1>6, <1>9 DEF Elevator!ApplyRemote
  <2> QED BY <1>1, <2>1, <2>2
<1>10. Elevator(n)!Next
  <2>1. PICK from, flips : from = {p.car} /\ flips = news
    OBVIOUS
  <2>2. from \in {{}} \cup {{h} : h \in Reports(n)} /\ flips \in OneCall
    BY <2>1, <1>3, <1>6
  <2>3. Elevator(n)!ApplyRemote(from, flips)
    BY <2>1, <1>9
  <2> QED BY <2>2, <2>3 DEF Elevator!Next
<1> QED BY <1>1, <1>10, CarOf DEF Ended

LEMMA DeadlineCar == ASSUME IInv, NEW n \in Nodes, DoorDeadline(n) PROVE Cars
<1>1. /\ car[n].behavior = "doorOpen" /\ ~ctl[n].doorOver
      /\ ctl' = [ctl EXCEPT ![n].doorOver = TRUE]
      /\ UNCHANGED <<call, car, peers, motor, at, floors, cell>>
  BY DEF DoorDeadline
<1>2. Elevator(n)!DoorDeadline
  <2>1. ctl'[n] = [ctl[n] EXCEPT !.doorOver = TRUE]
    BY <1>1 DEF IInv, Entries
  <2> QED BY <1>1, <2>1 DEF Elevator!DoorDeadline, ActiveIn
<1>3. ASSUME NEW m \in Nodes \ {n} PROVE UNCHANGED Elevator(m)!vars
  <2>1. ctl'[m] = ctl[m]
    BY <1>1 DEF IInv, Entries
  <2> QED BY <1>1, <2>1, Unmoved
<1> QED BY <1>2, <1>3, CarOf DEF Elevator!Next, Elevator!Own

LEMMA DriverCar == ASSUME IInv, NEW n \in Nodes, DriverStep(n) PROVE Cars
<1> DEFINE g == at[n] + motor[n]
<1>1. motor[n] # Stop /\ floors[n] = <<>> /\ UNCHANGED <<call, car, ctl, peers, cell>>
  BY DEF DriverStep
<1>2. \/ /\ g \in Floors /\ at'[n] = g /\ floors'[n] = <<g>> /\ UNCHANGED motor
      \/ /\ g \notin Floors /\ motor'[n] = Stop /\ UNCHANGED <<at, floors>>
  BY DEF DriverStep, IInv, Entries
<1>3. Elevator(n)!DriverStep
  <2>1. Elevator(n)!Floors = Floors /\ Elevator(n)!Stop = Stop
    BY SameSets DEF Elevator!Stop, Stop
  <2>2. Append(floors[n], g) = <<g>> /\ Len(floors[n]) < 1 /\ floors[n] = <<>>
    BY <1>1
  <2>3. UNCHANGED <<car[n], ctl[n], ActiveIn(cell[n]), peers[n]>>
    BY <1>1 DEF ActiveIn
  <2> HIDE DEF g
  <2> DEFINE on == TRUE
  <2> HIDE DEF on
  <2>4. CASE g \in Floors
    <3>1. [floor |-> at'[n], motor |-> motor'[n], onTime |-> on]
          = [[floor |-> at[n], motor |-> motor[n], onTime |-> on] EXCEPT !.floor = g]
      BY <1>2, <2>4, SMT
    <3> QED BY <1>1, <1>2, <2>1, <2>2, <2>3, <2>4, <3>1
            DEF Elevator!DriverStep, Elevator!Prompt, Elevator!Sent, g, on
  <2>5. CASE g \notin Floors
    <3>1. [floor |-> at'[n], motor |-> motor'[n], onTime |-> on]
          = [[floor |-> at[n], motor |-> motor[n], onTime |-> on] EXCEPT !.motor = Stop]
      BY <1>2, <2>5, SMT
    <3> QED BY <1>1, <1>2, <2>1, <2>2, <2>3, <2>5, <3>1 DEF Elevator!DriverStep, g, on
  <2> QED BY <2>4, <2>5
<1>4. ASSUME NEW m \in Nodes \ {n} PROVE UNCHANGED Elevator(m)!vars
  <2>1. at'[m] = at[m] /\ floors'[m] = floors[m] /\ motor'[m] = motor[m]
    BY DEF DriverStep, IInv, Entries
  <2> QED BY <1>1, <2>1, Unmoved
<1> QED BY <1>3, <1>4, CarOf DEF Elevator!Next, Elevator!Own

(* Nothing happens to an elevator while its snapshots are on their way. *)
LEMMA NetHere ==
  ASSUME IInv, (\E m \in Nodes : Delay(m)) \/ (\E p \in late : Lose(p))
  PROVE  Good /\ Cars
<1>1. UNCHANGED <<call, car, ctl, peers, motor, at, floors, cell>>
  BY DEF Delay, Lose
<1>2. Cars
  BY <1>1, Unmoved DEF Cars
<1>3. ASSUME NEW n \in Nodes PROVE Here(n)'
  <2>1. View(n, cell[n])' = View(n, cell[n])
    BY <1>1 DEF View, ActiveIn
  <2> QED BY <1>1, <2>1 DEF IInv, Here, Placed
<1>4. ASSUME NEW m \in Nodes PROVE LateFine(Current(m))
  <2>1. Stamped(cell[m])
    BY DEF IInv, Here
  <2> QED BY <2>1, HereForm, Ordered DEF LateFine, Current
<1>5. late' \subseteq late \cup {Current(m) : m \in Nodes}
  BY DEF Delay, Lose
<1>6. \A q \in late' : LateFine(q)'
  BY <1>1, <1>4, <1>5 DEF IInv, LateFine
<1> QED BY <1>1, <1>2, <1>3, <1>6, SameCells DEF IInv, Entries, Good

LEMMA StutterCar == ASSUME UNCHANGED vars PROVE Cars
BY Unmoved DEF vars, Cars

LEMMA InitCar == ASSUME Init, NEW n \in Nodes PROVE Elevator(n)!Init
<1>1. at[n] \in Floors
  BY DEF Init
<1>2. /\ car[n] = [id |-> n, floor |-> at[n], direction |-> Stop, behavior |-> "idle",
                   doorOpen |-> FALSE, obstruction |-> FALSE]
      /\ ctl[n] = [ready |-> FALSE, travelDir |-> Stop, doorDir |-> Stop,
                   doorOver |-> FALSE, moveOver |-> FALSE]
      /\ peers[n] = {} /\ motor[n] = Stop /\ floors[n] = <<>> /\ ActiveIn(cell[n]) = {}
  BY DEF Init, ActiveIn, R!ZeroCell
<1>3. Elevator(n)!Floors = Floors /\ Elevator(n)!Stop = Stop
  BY SameSets DEF Elevator!Stop, Stop
<1> QED BY <1>1, <1>2, <1>3 DEF Elevator!Init

-----------------------------------------------------------------------------
LEMMA InitHere == Init => IInv
<1> SUFFICES ASSUME Init PROVE IInv
  OBVIOUS
<1>1. /\ at \in [Nodes -> Floors]
      /\ car = [n \in Nodes |-> [id |-> n, floor |-> at[n], direction |-> Stop, behavior |-> "idle",
                               doorOpen |-> FALSE, obstruction |-> FALSE]]
  BY DEF Init
<1>2. Entries
  BY <1>1 DEF Init, Entries
<1>3. ASSUME NEW n \in Nodes PROVE Here(n)
  <2> DEFINE v == View(n, cell[n])
  <2>1. /\ v.car = [id |-> n, floor |-> at[n], direction |-> Stop, behavior |-> "idle",
                    doorOpen |-> FALSE, obstruction |-> FALSE]
        /\ v.ctl = [ready |-> FALSE, travelDir |-> Stop, doorDir |-> Stop,
                    doorOver |-> FALSE, moveOver |-> FALSE]
        /\ v.active = {} /\ v.peers = {} /\ v.motor = Stop
        /\ floors[n] = <<>> /\ cell[n] = R!ZeroCell
        /\ v = [car |-> v.car, ctl |-> v.ctl, active |-> v.active, peers |-> v.peers,
                motor |-> v.motor]
    BY <1>1 DEF Init, View, ActiveIn, R!ZeroCell
  <2> HIDE DEF v
  <2>2. Stamped(cell[n])
    BY <2>1 DEF Stamped, R!ZeroCell, R!ZeroVersion, R!Cell, R!Version
  <2>3. v.car \in CarType(n) /\ v.ctl \in CtlType
    BY <1>1, <2>1 DEF CarType, CtlType, Directions, Behaviors
  <2>4. v \in Work(n, Known(n))
    BY <2>1, <2>3 DEF Work, Directions
  <2>5. Fine(n, v, floors[n])
    BY <2>1, <2>4 DEF Fine, Safe, Fit, Apart
  <2>6. Placed(n)
    BY <1>1 DEF Placed
  <2> QED BY <2>2, <2>5, <2>6 DEF Here, v
<1> QED BY <1>2, <1>3, CalledAssumption DEF IInv, Init

LEMMA StepHere == ASSUME IInv, Next PROVE Good /\ Cars
<1>1. ASSUME NEW n \in Nodes, NEW gone \in SUBSET peers[n],
             EndSync(n, gone) \/ HandleTick(n, gone)
      PROVE  Good /\ Cars
  BY <1>1, TickCar
<1>2. ASSUME NEW n \in Nodes, HandleFloor(n) PROVE Good /\ Cars
  BY <1>2, FloorCar
<1>3. ASSUME NEW n \in Nodes, DoorDeadline(n) PROVE Good /\ Cars
  BY <1>3, DeadlineHere, DeadlineCar
<1>4. ASSUME NEW n \in Nodes, DriverStep(n) PROVE Good /\ Cars
  BY <1>4, DriverHere, DriverCar
<1>5. ASSUME NEW n \in Nodes, NEW p \in Incoming(n), ApplyRemote(n, p) PROVE Good /\ Cars
  BY <1>5, RemoteCar
<1>6. ASSUME NEW n \in Nodes, HandleButton(n) PROVE Good /\ Cars
  BY <1>6, ButtonCar
<1>7. ASSUME NEW n \in Nodes, Delay(n) PROVE Good /\ Cars
  BY <1>7, NetHere
<1>8. ASSUME NEW p \in late, Lose(p) PROVE Good /\ Cars
  BY <1>8, NetHere
<1> QED BY <1>1, <1>2, <1>3, <1>4, <1>5, <1>6, <1>7, <1>8 DEF Next, Serving

LEMMA StutterHere == ASSUME IInv, UNCHANGED vars PROVE IInv'
<1>1. ASSUME NEW n \in Nodes PROVE Here(n)'
  <2>1. View(n, cell[n])' = View(n, cell[n])
    BY DEF vars, View, ActiveIn
  <2> QED BY <2>1 DEF IInv, Here, Placed, vars
<1> QED BY <1>1 DEF IInv, Entries, LateFine, vars

LEMMA Invariant == Spec => []IInv
<1>1. IInv /\ [Next]_vars => IInv'
  BY StepHere, StutterHere DEF Good
<1> QED BY <1>1, InitHere, PTL DEF Spec

(* NobodyStuck: whatever the elevators of a group tell each other and whenever, *)
(* each stays in its shaft, never declares itself stuck, and its motor runs     *)
(* exactly while it counts as moving (controller.go:111-226).                   *)
THEOREM NobodyStuck == Spec => []TypeOK
BY Invariant, IInvType, PTL

(* HallServed: however late, often or out of order snapshots come, the newest *)
(* word on the call turns from lit to cleared only where the door opens for it *)
(* (controller.go:372-391, types.go:99-110).                                   *)
THEOREM HallServed == Spec => HallClearedByDoor
<1>1. IInv /\ [Next]_vars =>
        [Lit /\ ~Lit' =>
           \E n \in Nodes :
             /\ cell'[n] # cell[n] /\ ~cell'[n].active
             /\ car'[n].doorOpen /\ ~ctl'[n].doorOver
             /\ call = <<car'[n].floor, ctl'[n].doorDir>>]_vars
  BY StepHere DEF Good, Cleared
<1> QED BY <1>1, Invariant, PTL DEF Spec, HallClearedByDoor

(* Of the cars an elevator knows, its own among them, one is before all others. *)
LEMMA ChoiceIsOne == IInv => OneTakesIt
<1> SUFFICES ASSUME IInv, NEW n \in Nodes PROVE \E m \in Nodes : Choice(n) = {m}
  BY DEF OneTakesIt
<1> DEFINE known == peers[n] \cup {car[n]}
           mine(a) == Assigned(a, known, call[1], call[2])
<1>1. car[n] \in Soft /\ car[n].id = n
  <2>1. car[n] \in CarType(n) /\ n \in Nat
    BY NodesAssumption DEF IInv, Here, Fine, View, Work
  <2> QED BY <2>1 DEF Soft, CarType
<1>2. peers[n] \subseteq Soft /\ Apart(peers[n]) /\ \A p \in peers[n] : p.id \in Nodes \ {n}
  BY PeersKnown DEF Known
<1>3. known \in SUBSET Soft /\ known # {} /\ \A a, b \in known : a.id = b.id => a = b
  BY <1>1, <1>2 DEF Apart
<1>4. call[1] \in Floors
  BY DEF IInv, HallCalls, Calls
<1> HIDE DEF known
<1>5. PICK a \in known : mine(a) /\ \A b \in known : mine(b) => b = a
  BY <1>3, <1>4, OneAssigned
<1>6. Choice(n) = {p.id : p \in {q \in known : mine(q)}}
  BY DEF Choice, known
<1> HIDE DEF mine
<1>7. Choice(n) = {a.id}
  BY <1>5, <1>6
<1>8. a.id \in Nodes
  BY <1>1, <1>2, <1>5 DEF known
<1> QED BY <1>7, <1>8

(* OneTakes: what an elevator has heard of the others may be old and may differ *)
(* from what they have heard, but it always makes the call one elevator's       *)
(* (assigner.go:27-68).                                                         *)
THEOREM OneTakes == Spec => []OneTakesIt
BY Invariant, ChoiceIsOne, PTL

(* EachACar: an elevator among others, which answer it and answer to it, never *)
(* does what a Car would not.                                                  *)
THEOREM EachACar == Spec => EachIsACar
<1>1. Init => \A n \in Nodes : Elevator(n)!Init
  BY InitCar
<1>2. IInv /\ [Next]_vars => [\A n \in Nodes : UNCHANGED Elevator(n)!vars \/ Elevator(n)!Next]_vars
  BY StepHere DEF Cars
<1> QED BY <1>1, <1>2, Invariant, PTL DEF Spec, EachIsACar

(* What Car assumes of its constants, this module's elevators meet. *)
LEMMA CarAssumptions ==
  ASSUME NEW n \in Nodes
  PROVE  /\ n \in Nat
         /\ Reports(n) \subseteq Soft /\ \A p \in Reports(n) : p.id # n
         /\ OneCall \subseteq SUBSET Calls
<1>1. n \in Nat /\ \A p \in Reports(n) : p.id \in Nat
  BY NodesAssumption DEF Reports
<1>2. Reports(n) \subseteq Soft /\ \A p \in Reports(n) : p.id # n
  BY <1>1 DEF Reports, Soft
<1>3. OneCall \subseteq SUBSET Calls
  BY DEF OneCall, HallCalls
<1> QED BY <1>1, <1>2, <1>3

(* ImplementsCar: the same of one elevator as a whole.  It meets what Car assumes *)
(* of its constants, so the theorems of Car_proofs are theorems about every       *)
(* elevator of every group.                                                       *)
THEOREM ImplementsCar == ASSUME NEW n \in Nodes PROVE Spec => Elevator(n)!Spec
<1>1. Init => Elevator(n)!Init
  BY InitCar
<1>2. IInv /\ [Next]_vars => [Elevator(n)!Next]_(Elevator(n)!vars)
  BY StepHere, StutterCar DEF Cars
<1> QED BY <1>1, <1>2, Invariant, PTL DEF Spec, Elevator!Spec

=============================================================================
