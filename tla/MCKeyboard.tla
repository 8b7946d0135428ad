---------------------------- MODULE MCKeyboard ----------------------------
(* The modifier keys, some of the other keys, numbers and lines to paste.   *)
EXTENDS Keyboard

Modifier(code, ext) == [code |-> code, ext |-> ext]
MCModifiers == {Modifier(SHIL_P, FALSE), Modifier(SHIR_P, FALSE),
                Modifier(CTRL_P, FALSE), Modifier(ALT_P, FALSE), Modifier(ALT_P, TRUE)}

(* The keys of the 101-key layout but SysRq; and those past the table.      *)
MCKeys == ((1 .. 83) \cup {87, 88}) \ ModifierCodes
PastTable == {2, Key_W, 59, 84, 86}

MCNumbers == [conv : Conversions, value : 0 .. WordSize - 1]
MCTexts == {<<>>, <<"c">>, <<"nl">>, <<"c", "c", "nl">>, <<"nl", "c", "nl">>}
=============================================================================
