----------------------------- MODULE MCScreens -----------------------------
(* Texts for Screens: a letter, a newline, a row and the start of the next. *)
EXTENDS Screens

SomeTexts == {<<"a">>, <<"nl">>, <<"a", "a", "a">>}
=============================================================================
