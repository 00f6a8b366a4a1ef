------------------------------ MODULE Assigner ------------------------------
(***************************************************************************)
(* The hall-call assignment of new_heis (internal/assigner/assigner.go):   *)
(* every elevator computes, from its own table and the soft states it      *)
(* knows, who serves each hall call.                                       *)
(***************************************************************************)
EXTENDS Integers

Up   == 1
Stop == 0
Down == -1

Behaviors == {"idle", "moving", "doorOpen", "stuck"}

Abs(n) == IF n < 0 THEN -n ELSE n

DirTo(from, to) == IF to > from THEN Up ELSE IF to < from THEN Down ELSE Stop

(* What it would cost the elevator in that state to serve hall call (f, d). *)
Cost(state, f, d) ==
  LET n == 4 * Abs(state.floor - f)
      turn == IF DirTo(state.floor, f) \notin {Stop, state.direction} THEN 3 ELSE 0
      against == IF d # state.direction THEN 1 ELSE 0
  IN  CASE state.behavior = "doorOpen" -> IF state.floor = f THEN n - 1 ELSE n + 2
        [] state.behavior = "moving"   -> n + turn + against
        [] state.behavior = "stuck"    -> n + 10000
        [] OTHER                       -> n

(* Mutant of Before: equal costs are left to the others. *)
BeforeCheaper(a, b, f, d) == Cost(a, f, d) < Cost(b, f, d)

(* a goes before b for the call: cheaper, or as cheap and with the lower ID. *)
Before(a, b, f, d) ==
  \/ Cost(a, f, d) < Cost(b, f, d)
  \/ Cost(a, f, d) = Cost(b, f, d) /\ a.id < b.id

(* Assign: the elevator no other in states goes before. *)
Assigned(a, states, f, d) == \A b \in states : b.id # a.id => Before(a, b, f, d)
=============================================================================
