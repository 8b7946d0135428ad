----------------------------- MODULE MCCommands -----------------------------
(* A directory for Commands, with one name the start of another and one     *)
(* that fills its field, and the texts of up to two characters and some     *)
(* longer.                                                                  *)
EXTENDS Commands

LOCAL INSTANCE SequencesExt

Entry(name, type, inode) == [name |-> name, type |-> type, inode |-> inode]

MCDentries == <<Entry(<<"a", "b">>, 2, 1), Entry(<<"a">>, 2, 2),
                Entry(<<"b">>, 2, 3), Entry(<<"b", "b">>, 0, 0)>>
MCExecutable == {2, 3}
MCTexts == SeqOf(Char, 2) \cup
  {<<"a", "a", "b">>, <<"a", "b", "nl">>, <<"b", "nl", "sp">>, <<"a", "sp", "sp">>,
   <<"b", "sp", "a">>, <<"b", "sp", "nl">>, <<"a", "sp", "a", "b", "nl">>,
   <<"a", "sp", "sp", "b">>, <<"b", "sp", "a", "nl", "a">>, <<"a", "a", "b", "sp", "a">>}
MCNames == SeqOf({"a", "b"}, 3) \cup {<<"sp", "a">>, <<"a", "sp">>}

(* A program whose name fills its field; a text longer than pcb_t.args.     *)
LongExecutable == {1, 2, 3}
LongTexts == {<<"a", "b", "sp", "a">>, <<"a", "sp", "a", "b", "a", "b">>}
=============================================================================
