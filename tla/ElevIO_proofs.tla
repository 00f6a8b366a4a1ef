--------------------------- MODULE ElevIO_proofs ---------------------------
(***************************************************************************)
(* OwnReply, TypeOK and LoopUpToDate of module ElevIO for any buttons,     *)
(* floors, switches and capacities.  What is inductive is that the         *)
(* connection is in step with the mutex: as long as nobody holds it        *)
(* nothing is under way, and while a reader does, just the reply to it;    *)
(* that a value that waits to be sent is news; and that without it what    *)
(* main knows and the channel end with what the poller last reported.      *)
(***************************************************************************)
EXTENDS ElevIO, SequenceTheorems, TLAPS

(* A reply to reader p. *)
Reply(p, r) == r.to = p /\ r.value \in Values(p)

(* The connection is in step with the mutex. *)
InStep ==
  /\ mtx = "nobody" \/ ~online => replies = <<>>
  /\ mtx # "nobody" /\ online => \E r : replies = <<r>> /\ Reply(mtx, r)

(* What is about to be reported is a change, and of the floor a floor. *)
News ==
  /\ pc["floor"] = "send" => got["floor"] # -1
  /\ \A p \in Told : pc[p] = "send" => got[p] # prev[p]

(* Of what main knows and the channel, the last. *)
Last(k, q) == IF q = <<>> THEN k ELSE q[Len(q)]

(* What main knows and the channel end with what the poller reported last. *)
Reported == \A p \in Told : Fresh(p) \/ Last(known[p], chan[p]) = prev[p]

(* Before the loop no report of a floor has been taken. *)
Kept == stage # "loop" => Fresh("floor") \/ chan["floor"] # <<>>

IInv == TypeOK /\ InStep /\ News /\ Reported /\ Kept

LEMMA PollerNames ==
  /\ "buttons" \in Pollers /\ "floor" \in Pollers /\ Switches \subseteq Pollers
  /\ "nobody" \notin Readers /\ "main" \in Readers /\ "main" \notin Pollers
  /\ Pollers \subseteq Readers /\ (\A p \in Readers : p = "main" \/ p \in Pollers)
  /\ Told = {"floor"} \cup Switches /\ (\A p \in Told : p \in Pollers /\ p # "buttons")
  /\ "buttons" \notin Switches /\ "floor" \notin Switches
  /\ \A p \in Pollers : p = "buttons" \/ p = "floor" \/ p \in Switches
  /\ 1 \in Buttons /\ \A b \in Buttons : (b % NumButtons) + 1 \in Buttons
  BY SwitchesAssumption, ButtonsAssumption DEF Pollers, Readers, Told, Buttons

LEMMA BlankValue == ASSUME NEW p PROVE Blank(p) \in Values(p)
  BY DEF Blank, Values

(* The values that can stand in a line. *)
LEMMA LineValues ==
  ASSUME TypeOK, NEW p \in Told
  PROVE  /\ known[p] \in Values(p) /\ got[p] \in Values(p)
         /\ chan[p] \in Seq(Values(p)) /\ Events(p) \subseteq Values(p)
<1> USE PollerNames
<1>1. Events(p) \subseteq Values(p)
  BY DEF Events, Values
<1>2. chan[p] \in Seq(Events(p)) /\ known[p] \in Values(p) /\ got[p] \in Values(p)
  BY DEF TypeOK
<1> QED BY <1>1, <1>2

(* The end of a line: behind k and the channel q comes nothing, v, or v was sent. *)
EndOf(k, q, v) ==
  /\ (<<k>> \o q \o <<>>)[Len(<<k>> \o q \o <<>>)] = Last(k, q)
  /\ <<k>> \o q \o <<v>> = Append(<<k>> \o q \o <<>>, v)
  /\ <<k>> \o Append(q, v) \o <<>> = <<k>> \o q \o <<v>>
  /\ Last(k, Append(q, v)) = v

LEMMA Ends == \A S : \A k, v \in S : \A q \in Seq(S) : EndOf(k, q, v)
<1> TAKE S
<1> TAKE k, v \in S
<1> TAKE q \in Seq(S)
<1>1. <<k>> \in Seq(S) /\ <<v>> \in Seq(S) /\ <<k>> \o q \in Seq(S)
  OBVIOUS
<1>2. <<k>> \o q \o <<>> = <<k>> \o q
  BY <1>1
<1>3. (<<k>> \o q)[Len(<<k>> \o q)] = Last(k, q)
  BY DEF Last
<1>4. <<k>> \o q \o <<v>> = Append(<<k>> \o q, v)
  BY <1>1
<1>5. <<k>> \o Append(q, v) \o <<>> = <<k>> \o q \o <<v>>
  <2>1. Append(q, v) \in Seq(S) /\ <<k>> \o Append(q, v) \in Seq(S)
    BY <1>1
  <2>2. <<k>> \o Append(q, v) = Append(<<k>> \o q, v)
    BY <1>1
  <2>3. <<k>> \o Append(q, v) \o <<>> = <<k>> \o Append(q, v)
    BY <2>1
  <2> QED BY <1>4, <2>2, <2>3
<1>6. Last(k, Append(q, v)) = v
  <2>1. /\ Append(q, v) # <<>> /\ Len(Append(q, v)) = Len(q) + 1
        /\ Append(q, v)[Len(q) + 1] = v
    OBVIOUS
  <2> QED BY <2>1 DEF Last
<1> QED BY <1>2, <1>3, <1>4, <1>5, <1>6 DEF EndOf

(* The front of a line: k gives way to v, or to the head of the channel q. *)
FrontOf(k, q, z, v) ==
  /\ <<v>> \o q \o z = <<v>> \o Tail(<<k>> \o q \o z)
  /\ q # <<>> => /\ Len(<<k>> \o q \o z) > 1
                 /\ <<Head(q)>> \o Tail(q) \o z = Tail(<<k>> \o q \o z)
                 /\ Last(Head(q), Tail(q)) = Last(k, q)

LEMMA Fronts == \A S : \A k, v \in S : \A q, z \in Seq(S) : FrontOf(k, q, z, v)
<1> TAKE S
<1> TAKE k, v \in S
<1> TAKE q, z \in Seq(S)
<1>1. <<v>> \o q \o z = <<v>> \o Tail(<<k>> \o q \o z)
  <2>1. Tail(<<k>> \o q \o z) = q \o z
    OBVIOUS
  <2>2. <<v>> \o q \o z = <<v>> \o (q \o z)
    OBVIOUS
  <2> QED BY <2>1, <2>2
<1>2. ASSUME q # <<>>
      PROVE  /\ Len(<<k>> \o q \o z) > 1
             /\ <<Head(q)>> \o Tail(q) \o z = Tail(<<k>> \o q \o z)
  <2>1. Len(q) \in Nat \ {0} /\ Len(z) \in Nat
    BY <1>2
  <2>2. Len(<<k>> \o q \o z) = 1 + Len(q) + Len(z)
    BY <2>1
  <2>3. <<Head(q)>> \o Tail(q) = q
    BY <1>2
  <2>4. Tail(<<k>> \o q \o z) = q \o z
    BY <2>1
  <2> QED BY <2>1, <2>2, <2>3, <2>4
<1>3. ASSUME q # <<>> PROVE Last(Head(q), Tail(q)) = Last(k, q)
  <2>1. Len(q) \in Nat \ {0} /\ Len(Tail(q)) = Len(q) - 1 /\ Head(q) = q[1]
        /\ \A i \in 1..Len(Tail(q)) : Tail(q)[i] = q[i + 1]
    BY <1>3
  <2>2. Tail(q) = <<>> <=> Len(q) = 1
    BY <1>3, <2>1
  <2> QED BY <1>3, <2>1, <2>2 DEF Last
<1> QED BY <1>1, <1>2, <1>3 DEF FrontOf

(* How a line may move in a step. *)
Moves(p) == UNCHANGED Line(p) \/ Sees(p) \/ Hears(p) \/ LooksUp(p)

(* A step that reports nothing and takes no event. *)
LEMMA NothingTold ==
  ASSUME IInv, UNCHANGED <<got, prev, chan, known>>,
         \A p \in Pollers : pc'[p] = "send" <=> pc[p] = "send"
  PROVE  News' /\ Reported' /\ \A p \in Told : Moves(p)
<1> USE PollerNames
<1>1. News'
  BY DEF IInv, News
<1>2. Reported'
  BY DEF IInv, Reported, Fresh
<1>3. \A p \in Told : Line(p)' = Line(p)
  BY DEF Line
<1> QED BY <1>1, <1>2, <1>3 DEF Moves

(* At the start nothing is under way. *)
LEMMA Start == Init => IInv
<1> SUFFICES ASSUME Init PROVE IInv
  OBVIOUS
<1> USE PollerNames
<1>1. \A p \in Pollers : chan[p] \in Seq(Events(p)) /\ Len(chan[p]) <= Cap[p]
  <2> SUFFICES ASSUME NEW p \in Pollers PROVE chan[p] \in Seq(Events(p)) /\ Len(chan[p]) <= Cap[p]
    OBVIOUS
  <2>1. chan[p] = <<>> /\ Len(<<>>) = 0 /\ <<>> \in Seq(Events(p))
    BY DEF Init
  <2>2. Cap[p] \in Nat
    BY CapAssumption DEF Pollers
  <2> QED BY <2>1, <2>2
<1>2. TypeOK
  BY <1>1, BlankValue, FloorsAssumption DEF Init, TypeOK
<1>3. InStep /\ News
  BY DEF Init, InStep, News
<1>4. Reported /\ Kept
  BY DEF Init, Reported, Kept, Fresh, Last, Blank
<1> QED BY <1>2, <1>3, <1>4 DEF IInv

(* What Proceed and Take do to the state of a poller. *)
LEMMA Proceeds ==
  ASSUME IInv, NEW p \in Pollers, NEW v \in Values(p), Proceed(p, v)
  PROVE  /\ pc' \in [Readers -> {"ask", "read", "send"}]
         /\ pc'[p] = "ask" /\ \A q \in Readers \ {p} : pc'[q] = pc[q]
         /\ next' \in Buttons
         /\ DOMAIN got' = Pollers /\ \A q \in Pollers : got'[q] \in Values(q)
         /\ \A q \in Pollers \ {p} : got'[q] = got[q]
         /\ DOMAIN prev' = Pollers /\ prev'["buttons"] \in [Buttons -> BOOLEAN]
         /\ prev'["floor"] \in Floors \cup {-2} /\ \A w \in Switches : prev'[w] \in BOOLEAN
         /\ \A q \in Pollers : prev'[q] = IF q = p THEN Noted(p, v) ELSE prev[q]
<1> USE PollerNames
<1>1. TypeOK
  BY DEF IInv
<1>2. /\ pc' \in [Readers -> {"ask", "read", "send"}]
      /\ pc'[p] = "ask" /\ \A q \in Readers \ {p} : pc'[q] = pc[q]
  BY <1>1 DEF TypeOK, Proceed
<1>3. next' \in Buttons
  BY <1>1 DEF TypeOK, Proceed
<1>4. /\ DOMAIN got' = Pollers /\ \A q \in Pollers : got'[q] \in Values(q)
      /\ \A q \in Pollers \ {p} : got'[q] = got[q]
  BY <1>1, BlankValue DEF TypeOK, Proceed
<1>5. DOMAIN prev' = Pollers /\ \A q \in Pollers : prev'[q] = IF q = p THEN Noted(p, v) ELSE prev[q]
  BY <1>1 DEF TypeOK, Proceed
<1>6. p = "buttons" => Noted(p, v) \in [Buttons -> BOOLEAN]
  BY <1>1 DEF TypeOK, Noted, Values
<1>7. p = "floor" => Noted(p, v) \in Floors \cup {-2}
  BY <1>1 DEF TypeOK, Noted, Values
<1>8. p \in Switches => Noted(p, v) \in BOOLEAN
  BY DEF Noted, Values
<1>9. /\ prev'["buttons"] \in [Buttons -> BOOLEAN]
      /\ prev'["floor"] \in Floors \cup {-2} /\ \A w \in Switches : prev'[w] \in BOOLEAN
  BY <1>1, <1>5, <1>6, <1>7, <1>8 DEF TypeOK
<1> QED BY <1>2, <1>3, <1>4, <1>5, <1>9

LEMMA Takes ==
  ASSUME IInv, NEW p \in Pollers, pc[p] = "read", NEW v \in Values(p), Take(p, v),
         UNCHANGED <<inputs, online, chan, main>>
  PROVE  TypeOK' /\ News' /\ Reported' /\ Kept' /\ mtx' = "nobody" /\ \A q \in Told : Moves(q)
<1> USE PollerNames
<1>1. TypeOK /\ News /\ Reported /\ Kept
  BY DEF IInv
<1>2. UNCHANGED <<known, stage, todo>>
  BY DEF main
<1>3. \A q \in Readers : q # p => pc[q] # "read"
  BY <1>1 DEF TypeOK
<1>4. CASE IsEvent(p, v)
  <2>1. /\ pc' = [pc EXCEPT ![p] = "send"] /\ got' = [got EXCEPT ![p] = v]
        /\ next' = next /\ prev' = prev /\ mtx' = "nobody"
    BY <1>4 DEF Take
  <2>2. p # "buttons" => v # prev[p] /\ (p = "floor" => v # -1)
    BY <1>4 DEF IsEvent
  <2>3. /\ \A q \in Pollers \ {p} : pc'[q] = pc[q] /\ got'[q] = got[q]
        /\ pc'[p] = "send" /\ got'[p] = v
    BY <1>1, <2>1 DEF TypeOK
  <2>4. News'
    BY <1>1, <2>1, <2>2, <2>3 DEF News
  <2>5. Reported' /\ Kept'
    BY <1>1, <1>2, <2>1 DEF Reported, Kept, Fresh
  <2>6. TypeOK'
    BY <1>1, <1>2, <1>3, <2>1 DEF TypeOK, inputs
  <2>7. ASSUME NEW q \in Told, q # p PROVE Moves(q)
    <3>1. pc'[q] = pc[q] /\ got'[q] = got[q] /\ chan'[q] = chan[q] /\ known'[q] = known[q]
      BY <1>2, <2>3, <2>7
    <3> QED BY <3>1 DEF Moves, Line
  <2>8. ASSUME p \in Told PROVE Moves(p)
    <3>1. /\ known[p] \in Values(p) /\ chan[p] \in Seq(Values(p))
      BY <1>1, <2>8, LineValues
    <3>2. /\ Line(p) = <<known[p]>> \o chan[p] \o <<>>
          /\ Line(p)' = <<known[p]>> \o chan[p] \o <<v>>
      BY <1>2, <2>3 DEF Line
    <3>0. EndOf(known[p], chan[p], v)
      BY <3>1, Ends
    <3>3. Line(p)' = Append(Line(p), v) /\ LineEnd(p) = Last(known[p], chan[p])
      BY <3>0, <3>2 DEF LineEnd, EndOf
    <3>4. v # LineEnd(p) \/ Fresh(p)
      BY <1>1, <2>2, <2>8, <3>3 DEF Reported
    <3>5. v \in Events(p)
      BY <2>2, <2>8 DEF Values, Events
    <3> QED BY <3>3, <3>4, <3>5 DEF Moves, Sees
  <2>9. \A q \in Told : Moves(q)
    BY <2>7, <2>8
  <2> QED BY <2>1, <2>4, <2>5, <2>6, <2>9
<1>5. CASE ~IsEvent(p, v)
  <2>1. Proceed(p, v) /\ mtx' = "nobody"
    BY <1>5 DEF Take
  <2>2. p # "buttons" => Noted(p, v) = prev[p]
    BY <1>5 DEF IsEvent, Noted
  <2>3. \A q \in Told : prev'[q] = prev[q]
    BY <2>1, <2>2, Proceeds
  <2>4. /\ \A q \in Pollers \ {p} : pc'[q] = pc[q] /\ got'[q] = got[q]
        /\ pc'[p] = "ask"
    BY <2>1, Proceeds
  <2>5. News'
    BY <1>1, <2>3, <2>4 DEF News
  <2>6. Reported' /\ Kept'
    BY <1>1, <1>2, <2>3 DEF Reported, Kept, Fresh
  <2>7. TypeOK'
    BY <1>1, <1>2, <1>3, <2>1, Proceeds DEF TypeOK, inputs
  <2>8. \A q \in Told : Line(q)' = Line(q)
    BY <1>2, <2>4 DEF Line
  <2> QED BY <2>1, <2>5, <2>6, <2>7, <2>8 DEF Moves
<1> QED BY <1>4, <1>5

(* Main reads the floor at its start. *)
LEMMA Starts ==
  ASSUME IInv, pc["main"] = "read", NEW v \in Values("main"), StartsAt(v),
         UNCHANGED <<inputs, online, chan>>
  PROVE  TypeOK' /\ News' /\ Reported' /\ Kept' /\ mtx' = "nobody" /\ \A q \in Told : Moves(q)
<1> USE PollerNames
<1>1. TypeOK /\ News /\ Reported /\ Kept
  BY DEF IInv
<1>2. /\ mtx' = "nobody" /\ pc' = [pc EXCEPT !["main"] = "ask"]
      /\ UNCHANGED <<next, got, prev>>
  BY DEF StartsAt
<1>3. stage' \in {"first", "wait", "second", "loop"} /\ todo' \in {0, 1}
  BY <1>1 DEF StartsAt, TypeOK
<1>4. /\ pc' \in [Readers -> {"ask", "read", "send"}] /\ pc'["main"] = "ask"
      /\ \A q \in Pollers : pc'[q] = pc[q]
  BY <1>1, <1>2 DEF TypeOK
<1>5. \A q \in Readers : q # "main" => pc[q] # "read"
  BY <1>1 DEF TypeOK
<1>6. known' = known \/ (stage = "second" /\ known' = [known EXCEPT !["floor"] = v])
  BY DEF StartsAt
<1>7. v \in Values("floor")
  BY DEF Values
<1>8. DOMAIN known' = Told /\ \A q \in Told : known'[q] \in Values(q)
  BY <1>1, <1>6, <1>7 DEF TypeOK
<1>9. TypeOK'
  BY <1>1, <1>2, <1>3, <1>4, <1>5, <1>8 DEF TypeOK, inputs
<1>10. News'
  BY <1>1, <1>2, <1>4 DEF News
<1>11. Kept'
  BY <1>1, <1>2 DEF StartsAt, Kept, Fresh
<1>12. ASSUME NEW q \in Told, known'[q] = known[q]
       PROVE  (Fresh(q) \/ Last(known[q], chan[q]) = prev[q])' /\ Moves(q)
  <2>1. Line(q)' = Line(q)
    BY <1>2, <1>4, <1>12 DEF Line
  <2> QED BY <1>1, <1>2, <1>12, <2>1 DEF Reported, Fresh, Moves
<1>13. ASSUME NEW q \in Told, known'[q] # known[q]
       PROVE  (Fresh(q) \/ Last(known[q], chan[q]) = prev[q])' /\ Moves(q)
  <2>1. q = "floor" /\ stage = "second" /\ known'[q] = v
    BY <1>1, <1>6, <1>13 DEF TypeOK
  <2>2. Fresh(q) \/ (chan[q] # <<>> /\ Last(known[q], chan[q]) = prev[q])
    BY <1>1, <2>1 DEF Kept, Reported
  <2>3. (Fresh(q) \/ Last(known[q], chan[q]) = prev[q])'
    BY <1>2, <2>2 DEF Fresh, Last
  <2> DEFINE z == IF pc[q] = "send" THEN <<got[q]>> ELSE <<>>
  <2>4. known[q] \in Values(q) /\ chan[q] \in Seq(Values(q)) /\ z \in Seq(Values(q))
    BY <1>1, LineValues
  <2>5. Line(q) = <<known[q]>> \o chan[q] \o z /\ Line(q)' = <<v>> \o chan[q] \o z
    BY <1>2, <1>4, <2>1 DEF Line
  <2>6. v \in Values(q)
    BY <1>7, <2>1
  <2>7. Line(q)' = <<v>> \o Tail(Line(q))
    <3> HIDE DEF z
    <3>1. FrontOf(known[q], chan[q], z, v)
      BY <2>4, <2>6, Fronts
    <3> QED BY <2>5, <3>1 DEF FrontOf
  <2> QED BY <2>1, <2>3, <2>6, <2>7 DEF Moves, LooksUp
<1>14. Reported' /\ \A q \in Told : Moves(q)
  BY <1>12, <1>13 DEF Reported
<1> QED BY <1>2, <1>9, <1>10, <1>11, <1>14

(* Every step keeps the invariant, and moves a line as LoopUpToDate says. *)
LEMMA Keeps == IInv /\ [Next]_vars => IInv' /\ \A q \in Told : Moves(q)
<1> DEFINE Goal == IInv' /\ \A q \in Told : Moves(q)
<1> SUFFICES ASSUME IInv, [Next]_vars PROVE Goal
  OBVIOUS
<1> USE PollerNames
<1>0. TypeOK /\ InStep /\ News /\ Reported /\ Kept
  BY DEF IInv
<1>1. ASSUME NEW p \in Readers, Ask(p) PROVE Goal
  <2>1. mtx = "nobody" /\ replies = <<>> /\ pc[p] = "ask"
    BY <1>0, <1>1 DEF Ask, MayAsk, InStep
  <2> DEFINE r == [to |-> p, value |-> Input(p)]
  <2>2. Append(<<>>, r) = <<r>>
    OBVIOUS
  <2>3. Input(p) \in Values(p)
    <3>1. CASE p \in {"floor", "main"}
      BY <1>0, <3>1 DEF Input, Values, TypeOK
    <3>2. CASE p \notin {"floor", "main"}
      <4>1. (next \in pressed) \in BOOLEAN /\ (p \in on) \in BOOLEAN
        OBVIOUS
      <4> QED BY <3>2, <4>1 DEF Input, Values
    <3> QED BY <3>1, <3>2
  <2>4. Reply(p, r)
    BY <2>3 DEF Reply
  <2>5. InStep'
    <3>1. mtx' = p /\ online' = online
      BY <1>1 DEF Ask
    <3>2. replies' = IF online THEN <<r>> ELSE <<>>
      BY <1>1, <2>1, <2>2 DEF Ask
    <3> HIDE DEF r
    <3> QED BY <2>4, <3>1, <3>2 DEF InStep
  <2>6. TypeOK'
    <3>1. stage \notin {"wait", "loop"} \/ p # "main"
      BY <1>1 DEF Ask, MayAsk
    <3> QED BY <1>0, <1>1, <2>1, <3>1 DEF Ask, TypeOK, inputs, main
  <2>7. News' /\ Reported' /\ \A q \in Told : Moves(q)
    BY <1>0, <1>1, <2>1, NothingTold DEF Ask, TypeOK, main
  <2>8. Kept'
    BY <1>0, <1>1 DEF Ask, Kept, Fresh, main
  <2> QED BY <2>5, <2>6, <2>7, <2>8 DEF IInv
<1>2. ASSUME NEW p \in Readers, pc[p] = "read", NEW v \in Values(p), Returns(p, v),
             UNCHANGED <<inputs, online, chan>>, replies' = <<>>
      PROVE  Goal
  <2>1. CASE p = "main"
    BY <1>2, <2>1, Starts DEF Returns, IInv, InStep
  <2>2. CASE p # "main"
    BY <1>2, <2>2, Takes DEF Returns, IInv, InStep
  <2> QED BY <2>1, <2>2
<1>3. ASSUME NEW p \in Readers, Read(p) PROVE Goal
  <2>1. mtx = p /\ replies # <<>>
    BY <1>0, <1>3 DEF Read, TypeOK
  <2>2. \E r : replies = <<r>> /\ Reply(p, r)
    BY <1>0, <2>1 DEF InStep
  <2>3. Head(replies).value \in Values(p) /\ Tail(replies) = <<>>
    BY <2>2 DEF Reply
  <2> QED BY <1>2, <1>3, <2>3 DEF Read
<1>4. ASSUME NEW p \in Readers, ReadFails(p) PROVE Goal
  <2>1. replies' = <<>>
    BY <1>0, <1>4 DEF ReadFails, InStep
  <2> QED BY <1>2, <1>4, <2>1, BlankValue DEF ReadFails
<1>5. ASSUME NEW p \in Pollers, SendEvent(p) PROVE Goal
  <2> DEFINE event == IF p = "buttons" THEN next ELSE got[p]
  <2>1. Proceed(p, got[p]) /\ got[p] \in Values(p) /\ mtx # p
    BY <1>0, <1>5 DEF SendEvent, TypeOK
  <2>2. event \in Events(p)
    BY <1>0, <1>5 DEF SendEvent, TypeOK, News, Values, Events
  <2>3. /\ DOMAIN chan' = Pollers
        /\ \A q \in Pollers : chan'[q] = IF q = p THEN Append(chan[p], event) ELSE chan[q]
    BY <1>0, <1>5 DEF SendEvent, TypeOK
  <2>4. chan[p] \in Seq(Events(p)) /\ Len(chan[p]) < Cap[p] /\ Len(chan[p]) \in Nat
    BY <1>0, <1>5 DEF SendEvent, TypeOK
  <2>5. Append(chan[p], event) \in Seq(Events(p)) /\ Len(Append(chan[p], event)) <= Cap[p]
    <3>1. Cap[p] \in Nat
      BY CapAssumption DEF Pollers
    <3> HIDE DEF event
    <3> QED BY <2>2, <2>4, <3>1
  <2>6. \A q \in Pollers : chan'[q] \in Seq(Events(q)) /\ Len(chan'[q]) <= Cap[q]
    <3> HIDE DEF event
    <3> QED BY <1>0, <2>3, <2>5 DEF TypeOK
  <2>7. UNCHANGED <<mtx, online, replies, stage, todo, known>>
    BY <1>5 DEF SendEvent, wire, main
  <2>8. \A q \in Readers : pc'[q] = "read" <=> mtx' = q
    BY <1>0, <2>1, <2>7, Proceeds DEF TypeOK
  <2>9. TypeOK'
    <3>1. stage \in {"wait", "loop"} => pc'["main"] = "ask"
      BY <1>0, <2>1, Proceeds DEF TypeOK
    <3> QED BY <1>0, <1>5, <2>1, <2>3, <2>6, <2>7, <2>8, <3>1, Proceeds DEF SendEvent, TypeOK, inputs
  <2>10. /\ \A q \in Pollers \ {p} : pc'[q] = pc[q] /\ got'[q] = got[q] /\ prev'[q] = prev[q]
         /\ pc'[p] = "ask"
    BY <2>1, Proceeds
  <2>11. News'
    BY <1>0, <2>10 DEF News
  <2>12. ASSUME NEW q \in Told, q # p PROVE (Fresh(q) \/ Last(known[q], chan[q]) = prev[q])' /\ Moves(q)
    <3>1. chan'[q] = chan[q] /\ known'[q] = known[q]
      BY <2>3, <2>7, <2>12
    <3>2. Line(q)' = Line(q)
      BY <2>10, <2>12, <3>1 DEF Line
    <3> QED BY <1>0, <2>10, <2>12, <3>1, <3>2 DEF Reported, Fresh, Moves
  <2>13. ASSUME p \in Told PROVE (Fresh(p) \/ Last(known[p], chan[p]) = prev[p])' /\ Moves(p)
    <3>0. p # "buttons" /\ p \in Pollers
      BY <2>13
    <3>1. event = got[p] /\ (p = "floor" => got[p] # -1) /\ pc[p] = "send"
      BY <1>0, <1>5, <3>0 DEF SendEvent, News
    <3>2. prev'[p] = got[p]
      <4>1. prev'[p] = Noted(p, got[p])
        BY <2>1, <3>0, Proceeds
      <4>2. Noted(p, got[p]) = got[p]
        BY <3>0, <3>1 DEF Noted
      <4> QED BY <4>1, <4>2
    <3>3. chan'[p] = Append(chan[p], got[p])
      BY <2>3, <3>1
    <3>4. known[p] \in Values(p) /\ chan[p] \in Seq(Values(p)) /\ got[p] \in Values(p)
      BY <1>0, <2>13, LineValues
    <3>5. EndOf(known[p], chan[p], got[p])
      BY <3>4, Ends
    <3>6. Line(p) = <<known[p]>> \o chan[p] \o <<got[p]>>
      BY <3>1 DEF Line
    <3>7. Line(p)' = <<known[p]>> \o Append(chan[p], got[p]) \o <<>>
      BY <2>7, <2>10, <3>3 DEF Line
    <3>8. Line(p)' = Line(p)
      BY <3>5, <3>6, <3>7 DEF EndOf
    <3> QED BY <2>7, <3>2, <3>3, <3>5, <3>8 DEF Moves, EndOf
  <2>14. Reported' /\ \A q \in Told : Moves(q)
    BY <2>12, <2>13 DEF Reported
  <2>15. Kept'
    <3>1. CASE p = "floor"
      <4>1. Append(chan[p], event) # <<>>
        <5> HIDE DEF event
        <5> QED BY <2>2, <2>4
      <4> QED BY <2>3, <3>1, <4>1 DEF Kept
    <3>2. CASE p # "floor"
      BY <1>0, <2>3, <2>7, <2>10, <3>2 DEF Kept, Fresh
    <3> QED BY <3>1, <3>2
  <2>16. InStep'
    BY <1>0, <2>7 DEF InStep
  <2> QED BY <2>9, <2>11, <2>14, <2>15, <2>16 DEF IInv
<1>6. ASSUME NEW p \in Pollers, TakeEvent(p) PROVE Goal
  <2>1. chan[p] \in Seq(Events(p)) /\ chan[p] # <<>> /\ Len(chan[p]) <= Cap[p] /\ Cap[p] \in Nat
    BY <1>0, <1>6, CapAssumption DEF TakeEvent, TypeOK, Pollers
  <2>2. /\ Head(chan[p]) \in Events(p) /\ Tail(chan[p]) \in Seq(Events(p))
        /\ Len(Tail(chan[p])) <= Cap[p]
    <3>1. Len(chan[p]) \in Nat /\ Len(Tail(chan[p])) = Len(chan[p]) - 1
      BY <2>1
    <3>2. Head(chan[p]) \in Events(p) /\ Tail(chan[p]) \in Seq(Events(p))
      BY <2>1
    <3> QED BY <2>1, <3>1, <3>2
  <2>3. \A q \in Pollers : chan'[q] = IF q = p THEN Tail(chan[p]) ELSE chan[q]
    BY <1>0, <1>6 DEF TakeEvent, TypeOK
  <2>4. \A q \in Pollers : chan'[q] \in Seq(Events(q)) /\ Len(chan'[q]) <= Cap[q]
    BY <1>0, <2>2, <2>3 DEF TypeOK
  <2>5. DOMAIN chan' = Pollers
    BY <1>0, <1>6 DEF TakeEvent, TypeOK
  <2>6. p # "buttons" => Head(chan[p]) \in Values(p)
    BY <2>2 DEF Events, Values
  <2>7. DOMAIN known' = Told /\ \A q \in Told : known'[q] \in Values(q)
    BY <1>0, <1>6, <2>6 DEF TakeEvent, TypeOK
  <2>8. UNCHANGED <<inputs, online, replies, mtx, pc, next, got, prev>> /\ stage' = "loop" /\ todo' \in {0, 1}
    BY <1>6 DEF TakeEvent, wire, polling
  <2>9. TypeOK'
    <3>1. pc["main"] = "ask"
      BY <1>0, <1>6 DEF TakeEvent, TypeOK
    <3> QED BY <1>0, <2>4, <2>5, <2>7, <2>8, <3>1 DEF TypeOK, inputs
  <2>10. InStep' /\ News' /\ Kept'
    BY <1>0, <2>8 DEF InStep, News, Kept
  <2>11. ASSUME NEW q \in Told PROVE (Fresh(q) \/ Last(known[q], chan[q]) = prev[q])' /\ Moves(q)
    <3>1. CASE q = p
      <4>1. known'[q] = Head(chan[q]) /\ chan'[q] = Tail(chan[q]) /\ chan[q] # <<>>
        BY <1>0, <1>6, <2>1, <2>3, <3>1 DEF TakeEvent, TypeOK
      <4> DEFINE z == IF pc[q] = "send" THEN <<got[q]>> ELSE <<>>
      <4>2. known[q] \in Values(q) /\ chan[q] \in Seq(Values(q)) /\ z \in Seq(Values(q))
        BY <1>0, LineValues
      <4>3. Line(q) = <<known[q]>> \o chan[q] \o z /\ Line(q)' = <<Head(chan[q])>> \o Tail(chan[q]) \o z
        BY <2>8, <4>1 DEF Line
      <4>4. Hears(q) /\ Last(Head(chan[q]), Tail(chan[q])) = Last(known[q], chan[q])
        <5> HIDE DEF z
        <5>1. FrontOf(known[q], chan[q], z, known[q])
          BY <4>2, Fronts
        <5> QED BY <4>1, <4>3, <5>1 DEF Hears, FrontOf
      <4> QED BY <1>0, <2>8, <4>1, <4>4 DEF Reported, Fresh, Moves
    <3>2. CASE q # p
      <4>1. known'[q] = known[q] /\ chan'[q] = chan[q]
        BY <1>0, <1>6, <2>3, <3>2 DEF TakeEvent, TypeOK
      <4>2. Line(q)' = Line(q)
        BY <2>8, <4>1 DEF Line
      <4> QED BY <1>0, <2>8, <4>1, <4>2 DEF Reported, Fresh, Moves
    <3> QED BY <3>1, <3>2
  <2>12. Reported' /\ \A q \in Told : Moves(q)
    BY <2>11 DEF Reported
  <2> QED BY <2>9, <2>10, <2>12 DEF IInv
<1>7. ASSUME UNCHANGED <<mtx, polling, chan, stage, known>>, todo' \in {0, 1},
             pressed' \subseteq Buttons, sensor' \in Floors \cup {-1}, on' \subseteq Switches,
             online' \in BOOLEAN, replies' = IF online' THEN replies ELSE <<>>,
             online' => online
      PROVE  Goal
  <2>1. TypeOK'
    BY <1>0, <1>7 DEF TypeOK, polling
  <2>2. News' /\ Reported' /\ \A q \in Told : Moves(q)
    BY <1>7, NothingTold DEF polling
  <2>3. InStep' /\ Kept'
    BY <1>0, <1>7 DEF InStep, Kept, Fresh, polling
  <2> QED BY <2>1, <2>2, <2>3 DEF IInv
<1>8. online \/ replies = <<>>
  BY <1>0 DEF InStep
<1>9. CASE WriteCommand
  BY <1>0, <1>7, <1>8, <1>9 DEF WriteCommand, TypeOK, inputs, wire
<1>10. CASE Disconnect
  BY <1>0, <1>7, <1>10 DEF Disconnect, TypeOK, inputs, main
<1>11. ASSUME NEW b \in Buttons, Press(b) \/ Release(b) PROVE Goal
  BY <1>0, <1>7, <1>8, <1>11 DEF Press, Release, TypeOK, wire, main
<1>12. CASE CarMoves
  BY <1>0, <1>7, <1>8, <1>12 DEF CarMoves, TypeOK, wire, main
<1>13. ASSUME NEW w \in Switches, Flip(w) PROVE Goal
  BY <1>0, <1>7, <1>8, <1>13 DEF Flip, TypeOK, wire, main
<1>14. CASE UNCHANGED vars
  BY <1>0, <1>7, <1>8, <1>14 DEF vars, TypeOK, inputs, wire, main
<1> QED
  BY <1>1, <1>3, <1>4, <1>5, <1>6, <1>9, <1>10, <1>11, <1>12, <1>13, <1>14 DEF Next, Program

(* The connection is always in step with the mutex, and lines move as they should. *)
THEOREM Invariant == Spec => []IInv /\ [][\A q \in Told : Moves(q)]_vars
<1>1. Init => IInv
  BY Start
<1>2. IInv /\ [Next]_vars => IInv' /\ [\A q \in Told : Moves(q)]_vars
  BY Keeps
<1> QED BY <1>1, <1>2, PTL DEF Spec

(* TypeOK: channels never overflow, and each event is in its range. *)
THEOREM TypeCorrect == Spec => []TypeOK
<1>1. IInv => TypeOK
  BY DEF IInv
<1> QED BY <1>1, Invariant, PTL

(* UpToDate: main hears the changes each poller saw in their order, once each, *)
(* and lacks none but those in the channel and the one that waits for room     *)
(* (elevio.go:183-219).                                                        *)
THEOREM UpToDate == Spec => LoopUpToDate
<1> DEFINE Ended == \A p \in Told : pc[p] # "send" /\ ~Fresh(p) => LineEnd(p) = prev[p]
<1>1. IInv => Ended
  <2> SUFFICES ASSUME IInv, NEW p \in Told, pc[p] # "send", ~Fresh(p)
               PROVE  LineEnd(p) = prev[p]
    OBVIOUS
  <2>1. known[p] \in Values(p) /\ chan[p] \in Seq(Values(p))
    BY LineValues DEF IInv
  <2>2. EndOf(known[p], chan[p], known[p])
    BY <2>1, Ends
  <2>3. LineEnd(p) = Last(known[p], chan[p])
    BY <2>2 DEF LineEnd, Line, EndOf
  <2> QED BY <2>3 DEF IInv, Reported
<1>2. (\A q \in Told : Moves(q)) => \A p \in Told : UNCHANGED Line(p) \/ Sees(p) \/ Hears(p) \/ LooksUp(p)
  BY DEF Moves
<1> QED BY <1>1, <1>2, Invariant, PTL DEF LoopUpToDate

(* OwnReply: each reader reads the reply to its own command (writeRead). *)
THEOREM RepliesOwned == Spec => []OwnReply
<1>1. IInv => OwnReply
  <2> SUFFICES ASSUME IInv, NEW p \in Readers, pc[p] = "read", replies # <<>>
               PROVE  Len(replies) = 1 /\ Head(replies).to = p
    BY DEF OwnReply
  <2>1. mtx = p /\ p # "nobody"
    BY PollerNames DEF IInv, TypeOK
  <2>2. PICK r : replies = <<r>> /\ Reply(p, r)
    BY <2>1 DEF IInv, InStep
  <2> QED BY <2>2 DEF Reply
<1> QED BY <1>1, Invariant, PTL
=============================================================================
