------------------------------ MODULE Programs ------------------------------
(***************************************************************************)
(* What execute and halt promise (syscalls.h:109-116), without stacks,     *)
(* pages or interrupts: every terminal runs a pile of programs, a shell at *)
(* the bottom; execute puts a program on the pile, halt takes the topmost  *)
(* off and gives the terminal back to the one under it, and the shell      *)
(* stays.  A pid names one program of one pile.                            *)
(***************************************************************************)
EXTENDS Integers

CONSTANTS Term, Pid, NoPid, Unused

VARIABLES top,    \* the program each terminal is running, NoPid when off
          under   \* the program each program lies on: NoPid for a shell

Init == top = [t \in Term |-> NoPid] /\ under = [p \in Pid |-> Unused]

(* A terminal's shell is started.                                          *)
Start(t, p) ==
  /\ top[t] = NoPid /\ under[p] = Unused
  /\ top' = [top EXCEPT ![t] = p]
  /\ under' = [under EXCEPT ![p] = NoPid]

(* The program of a terminal executes another.                             *)
Spawn(t, p) ==
  /\ top[t] # NoPid /\ under[p] = Unused
  /\ top' = [top EXCEPT ![t] = p]
  /\ under' = [under EXCEPT ![p] = top[t]]

(* The program of a terminal, not its shell, halts.                        *)
Exit(t) ==
  /\ top[t] # NoPid /\ under[top[t]] # NoPid
  /\ top' = [top EXCEPT ![t] = under[top[t]]]
  /\ under' = [under EXCEPT ![top[t]] = Unused]

Next == \E t \in Term : Exit(t) \/ \E p \in Pid : Start(t, p) \/ Spawn(t, p)

Spec == Init /\ [][Next]_<<top, under>>
=============================================================================
