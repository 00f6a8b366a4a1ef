------------------------------ MODULE CabCall ------------------------------
(***************************************************************************)
(* What new_heis promises about the cab call of one elevator at one floor  *)
(* (README.md of new_heis, "Fault Tolerance Model", lines 30-52):          *)
(* the elevator owns it.  Only the owner's process changes it; what the    *)
(* others and the network hold are copies, which may be spread, delayed    *)
(* and lost, and never overrule the owner; a restarted owner may take a    *)
(* copy from an earlier run back, until it has changed the call itself.    *)
(*                                                                         *)
(* There are no writers and no clocks here: a value is known by the run of *)
(* the owner that wrote it and by its place among the writes of that run.  *)
(***************************************************************************)
EXTENDS Integers

VARIABLES
  up,      \* is the owner's process running?
  run,     \* how often it has been started
  own,     \* the value of the call the owner has
  copies   \* the values others have, in their tables or under way

vars == <<up, run, own, copies>>

(* active: does the call wait to be served?  run and seq: when it was written. *)
Value   == [active : BOOLEAN, run : Nat, seq : Nat]
Nothing == [active |-> FALSE, run |-> 0, seq |-> 0]

Later(a, b) == a.run > b.run \/ (a.run = b.run /\ a.seq > b.seq)

Init ==
  /\ up = FALSE
  /\ run = 0
  /\ own = Nothing
  /\ copies \subseteq {Nothing}

(* The owner is started, and knows nothing of what it may have known before. *)
Start ==
  /\ ~up
  /\ up' = TRUE
  /\ run' = run + 1
  /\ UNCHANGED <<own, copies>>

(* The owner dies; the copies are what is left of the call. *)
Die ==
  /\ up
  /\ up' = FALSE
  /\ own' = Nothing
  /\ UNCHANGED <<run, copies>>

(* The passenger presses or is served: a value that is later than any other. *)
Change ==
  /\ up
  /\ own' \in Value
  /\ own'.run = run
  /\ \A v \in copies \cup {own} : Later(own', v)
  /\ UNCHANGED <<up, run, copies>>

(* The owner takes back a value that an earlier run wrote. *)
Relearn ==
  /\ up
  /\ own.run < run
  /\ own' \in copies
  /\ Later(own', own)
  /\ own'.run < run
  /\ UNCHANGED <<up, run, copies>>

(* Copies of the owner's value and of copies spread, and copies are lost. *)
Spread ==
  /\ copies' \subseteq copies \cup {own, Nothing}
  /\ UNCHANGED <<up, run, own>>

Next == Start \/ Die \/ Change \/ Relearn \/ Spread

Spec == Init /\ [][Next]_vars
=============================================================================
