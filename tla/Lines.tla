------------------------------- MODULE Lines -------------------------------
(***************************************************************************)
(* What a terminal's user and its program expect of line input: characters *)
(* are appended to the line, backspace takes the last off, Enter ends the  *)
(* line, and a read delivers the line with its end, once.                  *)
(***************************************************************************)
EXTENDS Integers, Sequences

CONSTANTS Cap,     \* the longest line
          Reads    \* how much a read may ask for

VARIABLES line, entered, given

Init == line = <<>> /\ entered = FALSE /\ given = <<>>

Type ==
  /\ ~ entered /\ Len(line) < Cap
  /\ line' = Append(line, "a")
  /\ UNCHANGED <<entered, given>>

Erase ==
  /\ ~ entered /\ line # <<>>
  /\ line' = SubSeq(line, 1, Len(line) - 1)
  /\ UNCHANGED <<entered, given>>

Enter ==
  /\ ~ entered
  /\ entered' = TRUE
  /\ UNCHANGED <<line, given>>

Read ==
  /\ entered
  /\ \E n \in Reads :
       given' = IF n > Len(line) THEN Append(line, "eol") ELSE SubSeq(line, 1, n)
  /\ line' = <<>>
  /\ entered' = FALSE

Next == Type \/ Erase \/ Enter \/ Read

Spec == Init /\ [][Next]_<<line, entered, given>>
=============================================================================
