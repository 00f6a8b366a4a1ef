------------------------------- MODULE ElevIO -------------------------------
(***************************************************************************)
(* The hardware interface of Heis_test (elevio/elevio.go): the goroutines  *)
(* that poll the inputs of the elevator, the one connection to the         *)
(* elevator server they share with main under a mutex, and the channels    *)
(* over which main gets their events.  Main (main.go:104-119) first reads  *)
(* the floor itself, beside the pollers, and then runs the event loop.     *)
(*                                                                         *)
(* The server (external) answers the read commands in the order they were  *)
(* written, and looks at the input when the command is written: inputs     *)
(* change at any time, so a later look is the same as a later command.     *)
(* What the loop does with an event is in module HeisNode; here it takes   *)
(* the event and writes commands.                                          *)
(***************************************************************************)
EXTENDS Integers, Sequences

CONSTANTS
  NumButtons,  \* the buttons are the numbers 1..NumButtons, in the order they are polled
  Floors,      \* the floors the sensor can report
  Switches,    \* the inputs that are reported on every change
  Cap          \* the capacity of each poller's channel (in main.go 32 for the buttons, else 8)

ASSUME ButtonsAssumption  == NumButtons \in Nat \ {0}
ASSUME FloorsAssumption   == Floors \subseteq Nat
ASSUME SwitchesAssumption == Switches \subseteq {"obstruction", "stop"}
ASSUME CapAssumption      == \A p \in {"buttons", "floor"} \cup Switches : Cap[p] \in Nat \ {0}

VARIABLES
  pressed,   \* the buttons held down
  sensor,    \* the floor sensor: a floor, or -1
  on,        \* the switches that are on
  online,    \* is the connection up?
  replies,   \* replies on their way
  mtx,       \* _mtx: the reader that holds it, or "nobody"
  pc,        \* of each reader: "ask", "read" or "send"
  next,      \* the button PollButtons asks about
  got,       \* of each poller: the value it has read
  prev,      \* of each poller: its variable prev
  chan,      \* chButtons, chFloor, chObstruction, chStop
  stage,     \* main: "first" and "second" floor read, "wait" for a floor, "loop"
  todo,      \* commands main has still to write; one stands for all of a handler's
  known      \* what main was last told of the floor and of each switch

inputs  == <<pressed, sensor, on>>
wire    == <<online, replies, mtx>>
polling == <<pc, next, got, prev>>
main    == <<stage, todo, known>>
vars    == <<inputs, wire, polling, chan, main>>

Buttons == 1..NumButtons
Pollers == {"buttons", "floor"} \cup Switches
Readers == Pollers \cup {"main"}
Told    == Pollers \ {"buttons"}  \* the pollers of a value that main remembers

(* What is read, and what a poller reports. *)
Values(p) == IF p \in {"floor", "main"} THEN Floors \cup {-1} ELSE BOOLEAN
Events(p) == IF p = "buttons" THEN Buttons ELSE IF p = "floor" THEN Floors ELSE BOOLEAN

(* TypeOK: the shape of the state; a reader waits for a reply only while it *)
(* holds the mutex, each event is one the loop can index its tables with,   *)
(* and no channel holds more than its capacity.                             *)
TypeOK ==
  /\ pressed \subseteq Buttons /\ sensor \in Floors \cup {-1} /\ on \subseteq Switches
  /\ online \in BOOLEAN
  /\ mtx \in Readers \cup {"nobody"}
  /\ pc \in [Readers -> {"ask", "read", "send"}]
  /\ \A p \in Readers : pc[p] = "read" <=> mtx = p
  /\ stage \in {"first", "wait", "second", "loop"}
  /\ stage \in {"wait", "loop"} => pc["main"] = "ask"
  /\ next \in Buttons
  /\ DOMAIN got = Pollers /\ \A p \in Pollers : got[p] \in Values(p)
  /\ DOMAIN prev = Pollers /\ prev["buttons"] \in [Buttons -> BOOLEAN]
  /\ prev["floor"] \in Floors \cup {-2} /\ \A w \in Switches : prev[w] \in BOOLEAN
  /\ DOMAIN chan = Pollers
  /\ \A p \in Pollers : chan[p] \in Seq(Events(p)) /\ Len(chan[p]) <= Cap[p]
  /\ todo \in {0, 1}
  /\ DOMAIN known = Told /\ \A p \in Told : known[p] \in Values(p)

(* What the server answers a read command. *)
Input(p) ==
  CASE p = "buttons" -> next \in pressed
    [] p \in {"floor", "main"} -> sensor
    [] OTHER -> p \in on

(* What the code makes of the buffer when nothing could be read into it. *)
Blank(p) == IF p \in {"floor", "main"} THEN -1 ELSE FALSE

Init ==
  /\ pressed = {} /\ sensor \in Floors \cup {-1} /\ on = {}
  /\ online = TRUE /\ replies = <<>> /\ mtx = "nobody"
  /\ pc = [p \in Readers |-> "ask"]
  /\ next = 1
  /\ got = [p \in Pollers |-> Blank(p)]
  /\ prev = [p \in Pollers |-> IF p = "buttons" THEN [b \in Buttons |-> FALSE]
                               ELSE IF p = "floor" THEN -2 ELSE FALSE]
  /\ chan = [p \in Pollers |-> <<>>]
  /\ stage = "first" /\ todo = 0
  /\ known = [p \in Told |-> Blank(p)]

-----------------------------------------------------------------------------
(* The readers.  A poll is: writeRead under the mutex, and, if the value is  *)
(* an event, a send on the channel, with the mutex released.                 *)

(* Main reads the floor only at its start, once the commands so far are written. *)
MayAsk(p) == pc[p] = "ask" /\ (p = "main" => stage \in {"first", "second"} /\ todo = 0)

(* Mutant of Ask: the mutex is given back before the reply is read. *)
AskUnlocked(p) ==
  /\ MayAsk(p)
  /\ mtx = "nobody"
  /\ pc' = [pc EXCEPT ![p] = "read"]
  /\ replies' = IF online THEN Append(replies, [to |-> p, value |-> Input(p)]) ELSE replies
  /\ UNCHANGED <<inputs, online, mtx, next, got, prev, chan, main>>

(* The reader takes the mutex and writes its read command. *)
Ask(p) ==
  /\ MayAsk(p)
  /\ mtx = "nobody"
  /\ mtx' = p
  /\ pc' = [pc EXCEPT ![p] = "read"]
  /\ replies' = IF online THEN Append(replies, [to |-> p, value |-> Input(p)]) ELSE replies
  /\ UNCHANGED <<inputs, online, next, got, prev, chan, main>>

(* Mutant of IsEvent: a switch is reported like a button, only when it is turned on. *)
IsEventOn(p, v) ==
  CASE p = "buttons" -> v /\ ~prev[p][next]
    [] p = "floor"   -> v # prev[p] /\ v # -1
    [] OTHER         -> v /\ ~prev[p]

(* Is the value v that p has read reported to the loop? *)
IsEvent(p, v) ==
  CASE p = "buttons" -> v /\ ~prev[p][next]
    [] p = "floor"   -> v # prev[p] /\ v # -1
    [] OTHER         -> v # prev[p]

(* prev once the value v has been reported, or was none to report. *)
Noted(p, v) ==
  CASE p = "buttons" -> [prev[p] EXCEPT ![next] = v]
    [] p = "floor"   -> IF v = -1 THEN prev[p] ELSE v
    [] OTHER         -> v

(* PollButtons goes on to the next button, the others ask again. *)
Proceed(p, v) ==
  /\ pc' = [pc EXCEPT ![p] = "ask"]
  /\ prev' = [prev EXCEPT ![p] = Noted(p, v)]
  /\ next' = IF p = "buttons" THEN (next % NumButtons) + 1 ELSE next
  /\ got' = [got EXCEPT ![p] = Blank(p)]

(* The value v has been read: the mutex is free, and an event waits to be sent. *)
Take(p, v) ==
  /\ mtx' = "nobody"
  /\ IF IsEvent(p, v)
     THEN /\ pc' = [pc EXCEPT ![p] = "send"]
          /\ got' = [got EXCEPT ![p] = v]
          /\ UNCHANGED <<next, prev>>
     ELSE Proceed(p, v)

(***************************************************************************)
(* Main has read the floor v.  Between floors it sends the car down and    *)
(* waits for a floor; else it reads once more and goes by that.            *)
(***************************************************************************)
StartsAt(v) ==
  /\ \/ /\ stage = "first" /\ v = -1
        /\ stage' = "wait" /\ todo' = 1 /\ UNCHANGED known
     \/ /\ stage = "first" /\ v # -1
        /\ stage' = "second" /\ UNCHANGED <<todo, known>>
     \/ /\ stage = "second"
        /\ stage' = "loop" /\ todo' = 1 /\ known' = [known EXCEPT !["floor"] = v]
  /\ mtx' = "nobody"
  /\ pc' = [pc EXCEPT !["main"] = "ask"]
  /\ UNCHANGED <<next, got, prev>>

(* writeRead returns v to the reader p. *)
Returns(p, v) ==
  \/ p = "main" /\ StartsAt(v)
  \/ p # "main" /\ Take(p, v) /\ UNCHANGED main

(* The reply is there: writeRead returns.  Whose reply it is the code cannot tell. *)
Read(p) ==
  /\ pc[p] = "read"
  /\ replies # <<>>
  /\ Returns(p, Head(replies).value)
  /\ replies' = Tail(replies)
  /\ UNCHANGED <<inputs, online, chan>>

(* Mutant of ReadFails: an error returns without giving the mutex back. *)
ReadFailsLocked(p) ==
  /\ pc[p] = "read"
  /\ ~online
  /\ pc' = [pc EXCEPT ![p] = "ask"]
  /\ UNCHANGED <<inputs, wire, next, got, prev, chan, main>>

(* Read error: the connection is gone, and the buffer is still zero. *)
ReadFails(p) ==
  /\ pc[p] = "read"
  /\ ~online
  /\ Returns(p, Blank(p))
  /\ UNCHANGED <<inputs, online, replies, chan>>

(* Mutant of SendEvent: an event that finds the channel full is dropped. *)
SendOrDrop(p) ==
  /\ pc[p] = "send"
  /\ chan' = IF Len(chan[p]) < Cap[p]
             THEN [chan EXCEPT ![p] = Append(@, IF p = "buttons" THEN next ELSE got[p])]
             ELSE chan
  /\ Proceed(p, got[p])
  /\ UNCHANGED <<inputs, wire, main>>

(* The event goes into the channel, once there is room. *)
SendEvent(p) ==
  /\ pc[p] = "send"
  /\ Len(chan[p]) < Cap[p]
  /\ chan' = [chan EXCEPT ![p] = Append(@, IF p = "buttons" THEN next ELSE got[p])]
  /\ Proceed(p, got[p])
  /\ UNCHANGED <<inputs, wire, main>>

-----------------------------------------------------------------------------
(* The event loop. *)

(* Main takes an event and will write these commands.  Before the loop it *)
(* takes the floor it waits for, and nothing else.                        *)
TakeEvent(p) ==
  /\ todo = 0
  /\ stage = "loop" \/ (stage = "wait" /\ p = "floor")
  /\ chan[p] # <<>>
  /\ chan' = [chan EXCEPT ![p] = Tail(@)]
  /\ stage' = "loop"
  /\ todo' = IF p \in {"buttons", "floor"} THEN 1 ELSE 0
  /\ known' = IF p = "buttons" THEN known ELSE [known EXCEPT ![p] = Head(chan[p])]
  /\ UNCHANGED <<inputs, wire, polling>>

(* write: take the mutex, write, and give the mutex back.  What the server   *)
(* does with a command that is not a read has no reply.                      *)
WriteCommand ==
  /\ todo > 0
  /\ mtx = "nobody"
  /\ todo' = todo - 1
  /\ UNCHANGED <<inputs, wire, polling, chan, stage, known>>

-----------------------------------------------------------------------------
(* The server, the passengers and the car. *)

(* The connection breaks; what is under way is lost, and nobody connects again. *)
Disconnect ==
  /\ online
  /\ online' = FALSE
  /\ replies' = <<>>
  /\ UNCHANGED <<inputs, mtx, polling, chan, main>>

Press(b) ==
  /\ b \notin pressed
  /\ pressed' = pressed \cup {b}
  /\ UNCHANGED <<sensor, on, wire, polling, chan, main>>

Release(b) ==
  /\ b \in pressed
  /\ pressed' = pressed \ {b}
  /\ UNCHANGED <<sensor, on, wire, polling, chan, main>>

(* The car reaches or leaves a floor sensor. *)
CarMoves ==
  /\ sensor' \in IF sensor = -1 THEN Floors ELSE {-1}
  /\ UNCHANGED <<pressed, on, wire, polling, chan, main>>

Flip(w) ==
  /\ on' = IF w \in on THEN on \ {w} ELSE on \cup {w}
  /\ UNCHANGED <<pressed, sensor, wire, polling, chan, main>>

(* What goes on without passengers, moves and failures. *)
Program ==
  \/ \E p \in Readers : Ask(p) \/ Read(p) \/ ReadFails(p)
  \/ \E p \in Pollers : SendEvent(p) \/ TakeEvent(p)
  \/ WriteCommand

Next ==
  \/ Program
  \/ Disconnect
  \/ \E b \in Buttons : Press(b) \/ Release(b)
  \/ CarMoves
  \/ \E w \in Switches : Flip(w)

Spec == Init /\ [][Next]_vars

-----------------------------------------------------------------------------
(***************************************************************************)
(* OwnReply: "preventing concurrent polling goroutines from interleaving   *)
(* their request/response pairs" (elevio.go:76): the reply a poller, or    *)
(* main at its start, reads next is the one to its own command, although   *)
(* replies do not say what they answer.                                    *)
(***************************************************************************)
OwnReply ==
  \A p \in Readers : pc[p] = "read" /\ replies # <<>> =>
    Len(replies) = 1 /\ Head(replies).to = p

(* What main knows, and behind it the changes that p has seen, the oldest first: *)
(* those in the channel, and the one that waits for room in it.                  *)
Line(p) == <<known[p]>> \o chan[p] \o (IF pc[p] = "send" THEN <<got[p]>> ELSE <<>>)

LineEnd(p) == Line(p)[Len(Line(p))]

(* p has not yet reported anything (prev is -2). *)
Fresh(p) == p = "floor" /\ prev[p] = -2

(* One more change was seen, main took the oldest, or main read the floor itself. *)
Sees(p)    == \E v \in Events(p) : (v # LineEnd(p) \/ Fresh(p)) /\ Line(p)' = Append(Line(p), v)
Hears(p)   == Len(Line(p)) > 1 /\ Line(p)' = Tail(Line(p))
LooksUp(p) == p = "floor" /\ stage = "second" /\ \E v \in Values(p) : Line(p)' = <<v>> \o Tail(Line(p))

(***************************************************************************)
(* LoopUpToDate: main hears of the floor and of each switch the changes    *)
(* its poller saw, each once and in their order, not when the channel is   *)
(* full and not when the connection breaks (elevio.go:183-219): the line   *)
(* of them ends with what the poller saw last, grows only at that end, by  *)
(* a change, and is heard from the front.  Only main's own read of the     *)
(* floor at its start passes by the line.                                  *)
(***************************************************************************)
LoopUpToDate ==
  /\ [](\A p \in Told : pc[p] # "send" /\ ~Fresh(p) => LineEnd(p) = prev[p])
  /\ [][\A p \in Told : UNCHANGED Line(p) \/ Sees(p) \/ Hears(p) \/ LooksUp(p)]_vars

-----------------------------------------------------------------------------
(***************************************************************************)
(* Fairness.  The server answers and a reader that can go on does so.  The *)
(* mutex is fair to each goroutine: Go hands it to whoever has waited for  *)
(* more than a millisecond.  Main takes an event if it can.  That select   *)
(* chooses among the channels at random is not needed here.  A car that    *)
(* was sent down to find a floor comes to one.                             *)
(***************************************************************************)
ComesToFloor == online /\ stage = "wait" /\ todo = 0 /\ sensor = -1 /\ CarMoves

Fairness ==
  /\ WF_vars(\E p \in Readers : Read(p) \/ ReadFails(p)) /\ WF_vars(ComesToFloor)
  /\ SF_vars(WriteCommand \/ Ask("main"))
  /\ \A p \in Pollers : SF_vars(Ask(p))
  /\ WF_vars(\E p \in Pollers : SendEvent(p)) /\ WF_vars(\E p \in Pollers : TakeEvent(p))

FairSpec == Spec /\ Fairness

(***************************************************************************)
(* LoopReturns: main always gets to the end of a handler: no poller keeps  *)
(* it from the connection, not even one that waits for the loop to make    *)
(* room in a channel.                                                      *)
(***************************************************************************)
LoopReturns == []<>(todo = 0)

(* From some time on the inputs rest, and the connection holds. *)
Rest == <>[][UNCHANGED inputs]_vars /\ [](online)

(***************************************************************************)
(* InputsArrive: once the inputs rest, main comes to know the floor the    *)
(* car stands at and every switch, and the buttons that are held have      *)
(* been reported, whatever was polled and queued while they changed, also  *)
(* before the loop ran and while main read the floor itself.               *)
(***************************************************************************)
InputsArrive ==
  Rest => <>[](/\ sensor # -1 => known["floor"] = sensor
               /\ \A w \in Switches : known[w] <=> w \in on
               /\ \A b \in Buttons : prev["buttons"][b] <=> b \in pressed)
=============================================================================
