---------------------------- MODULE MCLineInput ----------------------------
(***************************************************************************)
(* LineInput for TLC, and LineInput as an implementation of Lines while    *)
(* the user stays at one terminal.                                         *)
(***************************************************************************)
EXTENDS LineInput

(* The typed line of the displayed terminal, without its end.               *)
TypedLength ==
  IF Top > 0 /\ Cell(Top - 1) \in Eol THEN Top - 1 ELSE Top

L == INSTANCE Lines WITH
       Cap <- BufSize - 1,
       line <- [i \in 1 .. TypedLength |-> Cell(i - 1)],
       entered <- (enter_flag = 1),
       given <- [i \in 1 .. Len(user_buf) |->
                  IF user_buf[i] \in Eol THEN "eol"
                  ELSE user_buf[i]]

(* terminal.c:49-57, keyboard.c:249-300: with no swap of terminals and no   *)
(* Ctrl-L, line input is Lines, whatever keys come while an Enter is        *)
(* pending and wherever the tick cuts the read.                             *)
ImplementsLines == L!Spec
=============================================================================
