------------------------------ MODULE MCTasks ------------------------------
(***************************************************************************)
(* Tasks for TLC: the properties of Tasks, and Tasks as an implementation  *)
(* of Programs.                                                            *)
(***************************************************************************)
EXTENDS Tasks

Unused == -3

(* The topmost program of a terminal: the live one no live program lies on. *)
IsTop(t, p) ==
  /\ Live(p) /\ pcb_tid[p] = t
  /\ \A q \in Pid : Live(q) => pcb_parent[q] # p

TopOf(t) == IF active[t] THEN CHOOSE p \in Pid : IsTop(t, p) ELSE NoPid

UnderOf(p) == IF Live(p) THEN pcb_parent[p] ELSE Unused

P == INSTANCE Programs WITH
       top <- [t \in Term |-> TopOf(t)],
       under <- [p \in Pid |-> UnderOf(p)]

(* syscalls.h:109-116: whatever ticks interleave, execute and halt start,  *)
(* stack and end programs as Programs says; the losses that a tick inside  *)
(* halt can cause are of contexts, never of the table's bookkeeping.       *)
ImplementsPrograms == P!Spec
=============================================================================
