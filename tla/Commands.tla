------------------------------ MODULE Commands ------------------------------
(***************************************************************************)
(* Commands: from the text of a command to a program with its arguments.   *)
(* execute's parsing (syscalls.c), the search of the directory             *)
(* (filesystem.c), getargs, and the string functions of lib.c they use.    *)
(*                                                                         *)
(* A string is the sequence of its characters before the '\0'.  All of     *)
(* execute runs under cli(), so its globals (i, size_of_args, command_buf, *)
(* opened_file) are local to one step.  A process is here from execute to  *)
(* halt; the steps of halt and the ticks are in module Tasks.              *)
(***************************************************************************)
EXTENDS Integers, Sequences, FiniteSets

CONSTANTS MaxProcessNum,   \* MAX_PROCESS_NUM: 6
          NumTerminals,    \* NUM_TERMINALS: 3
          FILENAME_SIZE,   \* 32
          BUF_SIZE,        \* 128, the size of pcb_t.args
          Dentries,        \* the boot block: [name, type, inode]
          Executable,      \* the inodes that start with the magic bytes
          CommandTexts,    \* the texts passed to execute
          Names,           \* the names passed to open
          BufferSizes      \* the values of nbytes passed to getargs

ASSUME NumbersAssumption == /\ MaxProcessNum \in Nat \ {0}
                            /\ NumTerminals \in Nat \ {0}
                            /\ FILENAME_SIZE \in Nat \ {0}
                            /\ BUF_SIZE \in Nat \ {0}
                            /\ BufferSizes \subseteq Int

Char == {"a", "b", "sp", "nl"}   \* "sp" is a space, "nl" is '\n' or '\r'
Filetypes == 0 .. 2             \* rtc, directory, file

ASSUME TextsAssumption == CommandTexts \subseteq Seq(Char) /\ Names \subseteq Seq(Char)

(* The names are distinct, none is empty.  Inode 0 is empty, as it is on    *)
(* the image in use: what is not found leads there.                         *)
ASSUME DentriesAssumption ==
  /\ Dentries \in Seq([name : Seq(Char), type : Filetypes, inode : Nat])
  /\ \A k \in 1 .. Len(Dentries) : Len(Dentries[k].name) \in 1 .. FILENAME_SIZE
  /\ \A k, l \in 1 .. Len(Dentries) : Dentries[k].name = Dentries[l].name => k = l
ASSUME ExecutableAssumption == Executable \subseteq Nat \ {0}

Pid == 0 .. MaxProcessNum - 1
NoPid == -1

VARIABLES
  pid_bits,     \* the pids taken
  parent,       \* pcb_t.parent
  args,         \* pcb_t.args, up to its '\0'
  args_size,    \* pcb_t.args_size
  program,      \* the inode loaded into each process's page
  command,      \* history: the text each process was started with
  ret           \* the last call that came back, and with what

pcbVars == <<parent, args, args_size, program, command>>
vars == <<pid_bits, pcbVars, ret>>

-----------------------------------------------------------------------------
(* strlen of a name in the boot block runs on into the type when the name   *)
(* fills its 32 bytes; the search takes no more than those.                 *)
Strlen(d) ==
  Len(d.name) + (IF Len(d.name) = FILENAME_SIZE /\ d.type # 0 THEN 1 ELSE 0)

(* Mutants are plausible slips, put in place of the definition after them.  *)
TargetLenUncapped(d) == Strlen(d)
TargetLen(d) == IF Strlen(d) > FILENAME_SIZE THEN FILENAME_SIZE ELSE Strlen(d)

(* strncmp(s, t, n) = 0.                                                    *)
At(s, i) == IF i <= Len(s) THEN s[i] ELSE "nul"
SameFirst(s, t, n) ==
  \A i \in 1 .. n : At(s, i) = At(t, i) \/ \E j \in 1 .. i - 1 : At(s, j) = "nul"

MatchesPrefix(fname, d) == SameFirst(fname, d.name, TargetLen(d))
Matches(fname, d) ==
  SameFirst(fname, d.name, TargetLen(d)) /\ TargetLen(d) = Len(fname)

(* read_dentry_by_name clears the entry before it searches.                 *)
Cleared == [name |-> <<>>, type |-> 0, inode |-> 0]
Found(fname) == {k \in 1 .. Len(Dentries) : Matches(fname, Dentries[k])}
First(S) == CHOOSE k \in S : \A l \in S : k <= l
ReadDentryByName(fname) ==
  IF Found(fname) = {} THEN Cleared ELSE Dentries[First(Found(fname))]

-----------------------------------------------------------------------------
(* execute_setup's loops over the text.                                     *)
Ends == {"sp", "nl"}
NameLen(text) ==
  First({i \in 0 .. Len(text) : i = Len(text) \/ text[i + 1] \in Ends})
Fname(text) == SubSeq(text, 1, NameLen(text))

HasArgs(text) == NameLen(text) < Len(text) /\ text[NameLen(text) + 1] = "sp"
ArgsEnd(text) ==
  First({i \in NameLen(text) + 1 .. Len(text) : i = Len(text) \/ text[i + 1] = "nl"})
Args(text) ==
  IF HasArgs(text) THEN SubSeq(text, NameLen(text) + 2, ArgsEnd(text)) ELSE <<>>

RefusedTooSoon(text) ==
  \/ text = <<>> \/ text[1] = "sp"
  \/ HasArgs(text) /\ NameLen(text) >= FILENAME_SIZE - 1

(* A text that is no command, or a name that is too long for arguments.     *)
Refused(text) ==
  \/ text = <<>> \/ text[1] = "sp"
  \/ HasArgs(text) /\ NameLen(text) >= FILENAME_SIZE

(* file_open's result is not looked at: the inode of a cleared entry is     *)
(* read instead.                                                            *)
Inode(text) == ReadDentryByName(Fname(text)).inode
CanExecute(text) == ~Refused(text) /\ Inode(text) \in Executable

(* strcpy into pcb_t.args, and then args_size: a text that fills args runs  *)
(* on into args_size, whose low byte then stands in its place.              *)
Stored(text) ==
  IF Len(text) < BUF_SIZE THEN text ELSE SubSeq(text, 1, BUF_SIZE) \o <<"size">>

-----------------------------------------------------------------------------
Init ==
  /\ pid_bits = {}
  /\ parent = [p \in Pid |-> NoPid]
  /\ args = [p \in Pid |-> <<>>]
  /\ args_size = [p \in Pid |-> 0]
  /\ program = [p \in Pid |-> 0]
  /\ command = [p \in Pid |-> <<>>]
  /\ ret = [call |-> "none"]

NewPid == First(Pid \ pid_bits)

SetArgsIfAny(text) ==
  IF HasArgs(text)
  THEN /\ args' = [args EXCEPT ![NewPid] = Stored(Args(text))]
       /\ args_size' = [args_size EXCEPT ![NewPid] = Len(Args(text))]
  ELSE UNCHANGED <<args, args_size>>
SetArgs(text) ==
  /\ args' = [args EXCEPT ![NewPid] = Stored(Args(text))]
  /\ args_size' = [args_size EXCEPT ![NewPid] = Len(Args(text))]

Launch(text, caller) ==
  /\ CanExecute(text) /\ pid_bits # Pid
  /\ pid_bits' = pid_bits \cup {NewPid}
  /\ parent' = [parent EXCEPT ![NewPid] = caller]
  /\ SetArgs(text)
  /\ program' = [program EXCEPT ![NewPid] = Inode(text)]
  /\ command' = [command EXCEPT ![NewPid] = text]

(* A terminal's first shell, from entry() or from the PIT's handler.        *)
ShellText == <<"b", "nl">>
StartShell ==
  /\ Cardinality({p \in pid_bits : parent[p] = NoPid}) < NumTerminals
  /\ Launch(ShellText, NoPid)
  /\ UNCHANGED ret

(* The processes that run are those whose child, if any, has halted.        *)
Runs(p) == p \in pid_bits /\ \A q \in pid_bits : parent[q] # p

Execute(p, text) ==
  /\ Runs(p)
  /\ Launch(text, p)
  /\ ret' = [call |-> "none"]

ExecuteFails(p, text) ==
  /\ Runs(p)
  /\ ~CanExecute(text) \/ pid_bits = Pid
  /\ ret' = [call |-> "execute", text |-> text, all |-> pid_bits = Pid]
  /\ UNCHANGED <<pid_bits, pcbVars>>

(* halt leaves the PCB as it is.  A root shell starts again with its own.   *)
Halt(p) ==
  /\ Runs(p) /\ parent[p] # NoPid
  /\ pid_bits' = pid_bits \ {p}
  /\ ret' = [call |-> "none"]
  /\ UNCHANGED pcbVars

(* getargs: strncpy fills what is left of the buffer with '\0'.             *)
HasNoTextForgets(p, nbytes) == args_size[p] > nbytes
CannotGive(p, nbytes) == args_size[p] = 0 \/ args_size[p] > nbytes
Strncpy(s, n) == [i \in 1 .. n |-> At(s, i)]
Getargs(p, nbytes) ==
  /\ Runs(p)
  /\ ret' = IF CannotGive(p, nbytes)
            THEN [call |-> "noargs", pid |-> p, nbytes |-> nbytes]
            ELSE [call |-> "getargs", pid |-> p, buf |-> Strncpy(args[p], nbytes)]
  /\ UNCHANGED <<pid_bits, pcbVars>>

(* open: its own comparison of a file's name, after the directory's.        *)
SameName(d, name) ==
  d.type = 2 => Len(d.name) = Len(name) /\ SameFirst(d.name, name, Len(name))
Open(p, name) ==
  /\ Runs(p)
  /\ LET d == ReadDentryByName(name)
         ok == name # <<>> /\ name[1] # "sp" /\ Found(name) # {} /\ SameName(d, name)
     IN ret' = [call |-> "open", name |-> name,
                opened |-> IF ok THEN {d.inode} ELSE {}]
  /\ UNCHANGED <<pid_bits, pcbVars>>

Next ==
  \/ StartShell
  \/ \E p \in Pid :
       \/ \E text \in CommandTexts : Execute(p, text) \/ ExecuteFails(p, text)
       \/ \E nbytes \in BufferSizes : Getargs(p, nbytes)
       \/ \E name \in Names : Open(p, name)
       \/ Halt(p)

Spec == Init /\ [][Next]_vars

-----------------------------------------------------------------------------
(* What a command means.  Its name is what stands before the first space or *)
(* end of line; its arguments are what stands after that space, up to the   *)
(* end of the line.                                                         *)
IsName(name, text) ==
  /\ Len(name) <= Len(text)
  /\ \A i \in 1 .. Len(name) : text[i] = name[i] /\ name[i] \notin Ends
  /\ Len(name) = Len(text) \/ text[Len(name) + 1] \in Ends

IsArgs(a, text) ==
  \E i \in 1 .. Len(text) :
    /\ text[i] = "sp" /\ \A j \in 1 .. i - 1 : text[j] \notin Ends
    /\ i + Len(a) <= Len(text)
    /\ \A j \in 1 .. Len(a) : text[i + j] = a[j] /\ a[j] # "nl"
    /\ i + Len(a) = Len(text) \/ text[i + Len(a) + 1] = "nl"
NoArgs(text) == \A i \in 1 .. Len(text) : text[i] = "sp" =>
                  \E j \in 1 .. i - 1 : text[j] \in Ends

(* A process runs the program that its command names, and its PCB has the   *)
(* arguments of its own command and of no other: not those of the last      *)
(* owner of its pid, of its parent, or of a child that has halted.          *)
RunsItsCommand ==
  \A p \in pid_bits :
    \E k \in 1 .. Len(Dentries) :
      IsName(Dentries[k].name, command[p]) /\ program[p] = Dentries[k].inode
ArgsItsOwn ==
  \A p \in pid_bits :
    /\ args_size[p] = Len(args[p])
    /\ IsArgs(args[p], command[p]) \/ (args[p] = <<>> /\ NoArgs(command[p]))

(* execute fails only if the command names no program or all pids are       *)
(* taken: no way of writing a command is lost to the parser.                *)
FailsRightly ==
  ret.call = "execute" =>
    \/ ret.all
    \/ \A k \in 1 .. Len(Dentries) :
         IsName(Dentries[k].name, ret.text) => Dentries[k].inode \notin Executable

(* getargs gives a program the arguments it was started with, followed by   *)
(* nothing else, or says that there are none or that there is no room.      *)
GetargsDelivers ==
  /\ ret.call = "getargs" =>
       \E n \in 0 .. Len(ret.buf) :
         /\ IsArgs(SubSeq(ret.buf, 1, n), command[ret.pid])
         /\ \A i \in n + 1 .. Len(ret.buf) : ret.buf[i] = "nul"
  /\ ret.call = "noargs" =>
       ~\E n \in 1 .. ret.nbytes :
          \E i \in 1 .. Len(command[ret.pid]) - n + 1 :
            IsArgs(SubSeq(command[ret.pid], i, i + n - 1), command[ret.pid])

(* open finds the file of that name and no other, also when its name fills  *)
(* all of its field or another's name starts with it.                       *)
OpenFinds ==
  ret.call = "open" =>
    ret.opened = {Dentries[k].inode : k \in {l \in 1 .. Len(Dentries) :
                                               Dentries[l].name = ret.name}}

-----------------------------------------------------------------------------
(* What the comments say and the code does not do.                          *)

(* syscalls.h:104 "the rest of the command-stripped of leading spaces".     *)
ArgsStripped == \A p \in pid_bits : args[p] # <<>> => args[p][1] # "sp"

(* syscalls.h:143 "if the arguments and a terminal NULL (0-byte) do not fit *)
(* in the buffer, simply return -1".                                        *)
Terminated == ret.call = "getargs" => \E i \in 1 .. Len(ret.buf) : ret.buf[i] = "nul"
=============================================================================
