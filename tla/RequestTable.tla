---------------------------- MODULE RequestTable ----------------------------
(***************************************************************************)
(* The replicated request table of new_heis: request keys, Lamport-style   *)
(* versions and their order, cells, and the cell-wise merge of a snapshot. *)
(* Sources: internal/model/types.go, internal/cluster/merge.go and the two *)
(* writers of internal/controller/controller.go (set, clearFloor).         *)
(*                                                                         *)
(* A Go map has no entry for a key nobody wrote; reading it yields the     *)
(* zero cell.  A table is therefore a total function on Keys, ZeroCell     *)
(* standing for "no entry": merging a ZeroCell changes nothing.            *)
(***************************************************************************)
EXTENDS Integers

CONSTANTS
  Elevators,   \* elevator IDs (the --id flag, which main.go requires to be >= 0)
  Floors,      \* the floors whose buttons the model presses
  HallDirs     \* the hall buttons on those floors: a subset of {Up, Down}

Up   == 1
Stop == 0
Down == -1

ASSUME ElevatorsAssumption == Elevators \subseteq Nat
ASSUME FloorsAssumption    == Floors \subseteq Nat
ASSUME HallDirsAssumption  == HallDirs \subseteq {Up, Down}

HallKey(f, d)   == [kind |-> "hall", floor |-> f, direction |-> d, ownerID |-> 0]
CabKey(o, f)    == [kind |-> "cab", floor |-> f, direction |-> Stop, ownerID |-> o]

HallKeys == {HallKey(f, d) : f \in Floors, d \in HallDirs}
CabKeys  == {CabKey(o, f) : o \in Elevators, f \in Floors}
Keys     == HallKeys \cup CabKeys

(***************************************************************************)
(* bootID is the process start time, printed so that string order is time  *)
(* order; only versions of one writer are ever compared by it, so a        *)
(* per-elevator boot number has the same order.  0 is the empty string.    *)
(***************************************************************************)
Version == [counter : Nat, writerID : Nat, bootID : Nat]
Cell    == [active : BOOLEAN, version : Version]
Table   == [Keys -> Cell]
Store   == [reqs : Table, clock : Nat]

ZeroVersion == [counter |-> 0, writerID |-> 0, bootID |-> 0]
ZeroCell    == [active |-> FALSE, version |-> ZeroVersion]
EmptyStore  == [reqs |-> [k \in Keys |-> ZeroCell], clock |-> 0]

(* Mutants of Newer: versions ordered by counter alone, and boots ignored. *)
NewerByCounter(a, b) == a.counter > b.counter

NewerIgnoringBoots(a, b) ==
  a.counter > b.counter \/ (a.counter = b.counter /\ a.writerID > b.writerID)

(***************************************************************************)
(* CompareVersion(a, b) > 0.  Two boots of one writer are ordered by boot  *)
(* alone; everything else by counter, then writer.                         *)
(***************************************************************************)
Newer(a, b) ==
  \/ /\ a.writerID = b.writerID
     /\ a.bootID # b.bootID
     /\ a.bootID > b.bootID
  \/ /\ ~(a.writerID = b.writerID /\ a.bootID # b.bootID)
     /\ \/ a.counter > b.counter
        \/ a.counter = b.counter /\ a.writerID > b.writerID

(* Mutant of MergeCell: the cell that arrived last wins. *)
MergeCellArrived(own, in) == IF in.version.counter > 0 THEN in ELSE own

(* What merging the cell `in' into a table that holds `own' leaves there. *)
MergeCell(own, in) == IF Newer(in.version, own.version) THEN in ELSE own

(***************************************************************************)
(* m is what a Lamport clock at c shows once it has observed every version *)
(* in reqs (Clock.Observe in MergeRequests, Clock.Seed(MaxCounter()) at    *)
(* the end of the startup window): the highest of them all.                *)
(***************************************************************************)
Observed(m, c, reqs) ==
  /\ m \in {c} \cup {reqs[k].version.counter : k \in Keys}
  /\ m >= c
  /\ \A k \in Keys : m >= reqs[k].version.counter

(* Mutant of MergeRequests: the clock does not observe what it merges. *)
MergeUnobserved(s, in, m) ==
  [reqs |-> [k \in Keys |-> MergeCell(s.reqs[k], in[k])], clock |-> s.clock]

(* MergeRequests: each entry on its own, the clock up to m. *)
MergeRequests(s, in, m) ==
  [reqs |-> [k \in Keys |-> MergeCell(s.reqs[k], in[k])], clock |-> m]

(***************************************************************************)
(* Controller.set by boot b of elevator n: nothing if the key already has  *)
(* that state, otherwise a cell stamped with the next counter.             *)
(***************************************************************************)
SetCell(s, n, b, k, active) ==
  IF s.reqs[k].active = active
  THEN s
  ELSE LET v == [counter |-> s.clock + 1, writerID |-> n, bootID |-> b]
       IN  [reqs  |-> [s.reqs EXCEPT ![k] = [active |-> active, version |-> v]],
            clock |-> s.clock + 1]

(* Controller.clearFloor: the cab call of the floor, then one hall direction. *)
ClearFloor(s, n, b, f, d) ==
  LET t == SetCell(s, n, b, CabKey(n, f), FALSE)
  IN  IF d = Stop THEN t ELSE SetCell(t, n, b, HallKey(f, d), FALSE)
=============================================================================
