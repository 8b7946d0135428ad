------------------------------- MODULE Tasks -------------------------------
(***************************************************************************)
(* Processes and the terminal scheduler of the kernel: execute and halt    *)
(* (syscalls.c), the entry and exit of a system call (isr_wrapper.S), the  *)
(* exception handlers (interrupt_handler.c), the PIT tick that hands the   *)
(* processor to the next terminal (pit.c), and the end of entry()          *)
(* (kernel.c).  One processor; what interleaves is the PIT interrupt with  *)
(* whatever code runs with the interrupt flag set.                         *)
(*                                                                         *)
(* A process is named by its pid, and so are its PCB, its kernel stack and *)
(* its 4 MB user page: the three addresses are functions of the pid.       *)
(* A saved ebp or esp0 is abstracted to the kernel stack it points into.   *)
(***************************************************************************)
EXTENDS Integers, FiniteSets

CONSTANTS NumTerminals,   \* NUM_TERMINALS: 3 in the code
          MaxProcessNum   \* MAX_PROCESS_NUM: 6 in the code

ASSUME TerminalsAssumption == NumTerminals \in Nat \ {0}
ASSUME ProcessesAssumption == MaxProcessNum \in Nat \ {0}

Term == 0 .. NumTerminals - 1
Pid  == 0 .. MaxProcessNum - 1

NoPid == -1   \* a NULL pcb pointer, or a page directory entry not present
Lost  == -2   \* a saved ebp whose stack another process has since taken

VARIABLES
  pid_bits,         \* pid_bits[p]: 1 when the pid is taken
  pcb_parent,       \* pcb_t.parent
  pcb_tid,          \* pcb_t.tid
  pcb_esp0,         \* pcb_t.esp0: the stack the TSS named before this process
  pc,               \* where each process (or the boot code) is
  eflags,           \* the bits of interest of each process's user EFLAGS
  active,           \* terminal_t.active
  most_recent_pcb,  \* terminal_t.most_recent_pcb
  term_ebp,         \* terminal_t.ebp
  term_esp0,        \* terminal_t.esp0
  terminal_num,     \* the terminal the scheduler is serving
  page,             \* the process page directory entry 32 maps
  tss_esp0,         \* tss.esp0
  curr,             \* the process running: get_curr_pcb() in the kernel
  fault,            \* the first thing to stop the kernel
  torn              \* history: resumed between lines 101 and 103 of halt

procVars == <<pid_bits, pcb_parent, pcb_tid, pcb_esp0>>
termVars == <<active, most_recent_pcb, term_ebp, term_esp0, terminal_num>>
vars == <<procVars, termVars, pc, eflags, page, tss_esp0, curr, fault, torn>>

(***************************************************************************)
(* Program counters.  execute runs under cli() and is one step; halt runs  *)
(* with interrupts on and is cut wherever a tick can tell the difference.  *)
(*   "sys"        in a system call, or about to leave one                  *)
(*   "exec"       waiting inside execute for the child to halt             *)
(*   "sysret"     execute has returned, the user's flags not yet restored  *)
(*   "halt"       at halt, line 59       "restart"   at line 65            *)
(*   "clear_bit"  at line 99             "unmap"     at line 100           *)
(*   "map"        at line 101            "recent"    at line 103           *)
(*   "leave"      at line 105                                              *)
(***************************************************************************)
Freed == {"unmap", "map", "recent", "leave"}
Exiting == {"clear_bit"} \cup Freed
KernelPc == {"boot", "sys", "sysret", "halt", "restart"} \cup Exiting
PcValues == {"free", "exec", "user"} \cup KernelPc

IF_BIT == 9           \* the interrupt flag of EFLAGS
EFLAGS_IF_MASK == 5   \* the bit that the mask 0x20 sets

-----------------------------------------------------------------------------
(* State just after sti() in entry(), the PIT running: the boot code is on  *)
(* the stack that will be pid 0's.                                          *)
Init ==
  /\ pid_bits = [p \in Pid |-> 0]
  /\ pcb_parent = [p \in Pid |-> NoPid]
  /\ pcb_tid = [p \in Pid |-> 0]
  /\ pcb_esp0 = [p \in Pid |-> 0]
  /\ pc = [p \in Pid |-> IF p = 0 THEN "boot" ELSE "free"]
  /\ eflags = [p \in Pid |-> {}]
  /\ active = [t \in Term |-> FALSE]
  /\ most_recent_pcb = [t \in Term |-> NoPid]
  /\ term_ebp = [t \in Term |-> 0]
  /\ term_esp0 = [t \in Term |-> 0]
  /\ terminal_num = 0
  /\ page = NoPid
  /\ tss_esp0 = 0
  /\ curr = 0
  /\ fault = "none"
  /\ torn = FALSE

Running == fault = "none"

Goto(p, label) == pc' = [pc EXCEPT ![p] = label]

(* Mutant: the scan of pid_bits takes its last entry without testing it.    *)
FirstFreeLastUntested(p) == \A q \in Pid : q < p => pid_bits[q] = 1

FirstFree(p) == pid_bits[p] = 0 /\ \A q \in Pid : q < p => pid_bits[q] = 1

NoneFree == \A p \in Pid : pid_bits[p] = 1

(* A saved ebp that points into the stack of p is worth nothing once p is   *)
(* given to a new process.                                                  *)
Overwrite(ebp, p) == [t \in Term |-> IF ebp[t] = p THEN Lost ELSE ebp[t]]

(* Steps 1 to 3 of execute: the lowest free pid is taken and its page       *)
(* mapped.                                                                  *)
ExecuteSetup(p) ==
  /\ FirstFree(p)
  /\ pid_bits' = [pid_bits EXCEPT ![p] = 1]
  /\ page' = p
  /\ torn' = FALSE

(* The first program of a terminal is its root shell; any other is a child  *)
(* of the process that called.                                              *)
ExecuteFillPcb(t, p) ==
  /\ pcb_parent' = [pcb_parent EXCEPT ![p] = IF active[t] THEN curr ELSE NoPid]
  /\ pcb_tid' = [pcb_tid EXCEPT ![p] = IF active[t] THEN pcb_tid[curr] ELSE t]
  /\ pcb_esp0' = [pcb_esp0 EXCEPT ![p] = tss_esp0]

(* The iret into the new program: cli() has cleared the interrupt flag, and *)
(* the mask adds another bit.                                               *)
ExecuteCswitch(p) ==
  /\ eflags' = [eflags EXCEPT ![p] = {EFLAGS_IF_MASK}]
  /\ curr' = p

(* execute on terminal t, with the terminals' saved ebp being ebp: from     *)
(* cli() to the iret into the new program.                                  *)
Execute(t, ebp) ==
  \E p \in Pid :
    /\ ExecuteSetup(p)
    /\ ExecuteFillPcb(t, p)
    /\ active' = [active EXCEPT ![t] = TRUE]
    /\ most_recent_pcb' = [most_recent_pcb EXCEPT ![t] = p]
    /\ term_ebp' = Overwrite(ebp, p)
    /\ pc' = IF active[t] THEN [pc EXCEPT ![curr] = "exec", ![p] = "user"]
                          ELSE [pc EXCEPT ![p] = "user"]
    /\ tss_esp0' = p
    /\ ExecuteCswitch(p)
    /\ UNCHANGED fault

-----------------------------------------------------------------------------
(* entry() starts the first shell.                                          *)
BootExecute ==
  /\ Running /\ pc[curr] = "boot"
  /\ Execute(terminal_num, term_ebp)
  /\ UNCHANGED <<terminal_num, term_esp0>>

(* int 0x80: the processor takes its stack from the TSS.                    *)
SystemCall ==
  /\ Running /\ pc[curr] = "user"
  /\ Goto(tss_esp0, "sys")
  /\ curr' = tss_esp0
  /\ UNCHANGED <<procVars, termVars, eflags, page, tss_esp0, fault, torn>>

(* Every system call that returns to its caller, a failed execute included. *)
SysReturn ==
  /\ Running /\ pc[curr] \in {"sys", "sysret"}
  /\ Goto(curr, "user")
  /\ UNCHANGED <<procVars, termVars, eflags, page, tss_esp0, curr, fault, torn>>

SysExecute ==
  /\ Running /\ pc[curr] = "sys"
  /\ Execute(terminal_num, term_ebp)
  /\ UNCHANGED <<terminal_num, term_esp0>>

SysHalt ==
  /\ Running /\ pc[curr] = "sys"
  /\ Goto(curr, "halt")
  /\ UNCHANGED <<procVars, termVars, eflags, page, tss_esp0, curr, fault, torn>>

(* The exception handlers print a message, which ends with sti(), and halt. *)
Exception ==
  /\ Running /\ pc[curr] \in {"user", "sys"}
  /\ LET s == IF pc[curr] = "user" THEN tss_esp0 ELSE curr
     IN  Goto(s, "halt") /\ curr' = s
  /\ UNCHANGED <<procVars, termVars, eflags, page, tss_esp0, fault, torn>>

(* Mutant: halt without the test for a root shell.                          *)
HaltEsp0NoRootTest ==
  /\ Running /\ pc[curr] = "halt"
  /\ tss_esp0' = pcb_esp0[curr]
  /\ Goto(curr, "clear_bit")
  /\ UNCHANGED <<procVars, termVars, eflags, page, curr, fault, torn>>

(* Mutant: the pid is given back at the start of halt.                      *)
HaltEsp0FreesFirst ==
  /\ Running /\ pc[curr] = "halt"
  /\ tss_esp0' = pcb_esp0[curr]
  /\ Goto(curr, IF pcb_parent[curr] = NoPid THEN "restart" ELSE "clear_bit")
  /\ pid_bits' = [pid_bits EXCEPT ![curr] = 0]
  /\ UNCHANGED <<pcb_parent, pcb_tid, pcb_esp0, termVars, eflags, page, curr,
                 fault, torn>>

(* The steps of halt.                                                       *)
HaltEsp0 ==
  /\ Running /\ pc[curr] = "halt"
  /\ tss_esp0' = pcb_esp0[curr]
  /\ Goto(curr, IF pcb_parent[curr] = NoPid THEN "restart" ELSE "clear_bit")
  /\ UNCHANGED <<procVars, termVars, eflags, page, curr, fault, torn>>

(* A root shell starts over, this time with the EFLAGS halt runs with.      *)
HaltRestart ==
  /\ Running /\ pc[curr] = "restart"
  /\ tss_esp0' = curr
  /\ eflags' = [eflags EXCEPT ![curr] = {IF_BIT, EFLAGS_IF_MASK}]
  /\ Goto(curr, "user")
  /\ UNCHANGED <<procVars, termVars, page, curr, fault, torn>>

(* Mutant: the pid is never given back.                                     *)
HaltClearBitForgets ==
  /\ Running /\ pc[curr] = "clear_bit"
  /\ Goto(curr, "unmap")
  /\ UNCHANGED <<procVars, termVars, eflags, page, tss_esp0, curr, fault, torn>>

HaltClearBit ==
  /\ Running /\ pc[curr] = "clear_bit"
  /\ pid_bits' = [pid_bits EXCEPT ![curr] = 0]
  /\ Goto(curr, "unmap")
  /\ UNCHANGED <<pcb_parent, pcb_tid, pcb_esp0, termVars, eflags, page,
                 tss_esp0, curr, fault, torn>>

HaltUnmap ==
  /\ Running /\ pc[curr] = "unmap"
  /\ page' = NoPid
  /\ Goto(curr, "map")
  /\ UNCHANGED <<procVars, termVars, eflags, tss_esp0, curr, fault, torn>>

HaltMap ==
  /\ Running /\ pc[curr] = "map"
  /\ page' = pcb_parent[curr]
  /\ torn' = FALSE
  /\ Goto(curr, "recent")
  /\ UNCHANGED <<procVars, termVars, eflags, tss_esp0, curr, fault>>

(* Mutant: halt goes round its last steps again.                            *)
HaltRecentLoops ==
  /\ Running /\ pc[curr] = "recent"
  /\ Goto(curr, "map")
  /\ UNCHANGED <<procVars, termVars, eflags, page, tss_esp0, curr, fault, torn>>

HaltRecent ==
  /\ Running /\ pc[curr] = "recent"
  /\ most_recent_pcb' = [most_recent_pcb EXCEPT ![terminal_num] = pcb_parent[curr]]
  /\ Goto(curr, "leave")
  /\ UNCHANGED <<procVars, active, term_ebp, term_esp0, terminal_num, eflags,
                 page, tss_esp0, curr, fault, torn>>

(* leave; ret into the parent's call of execute.                            *)
HaltLeave ==
  /\ Running /\ pc[curr] = "leave"
  /\ pc' = [pc EXCEPT ![curr] = "free", ![pcb_parent[curr]] = "sysret"]
  /\ curr' = pcb_parent[curr]
  /\ UNCHANGED <<procVars, termVars, eflags, page, tss_esp0, fault, torn>>

-----------------------------------------------------------------------------
(* The PIT interrupt.                                                       *)
InterruptsOn ==
  \/ pc[curr] \in KernelPc
  \/ pc[curr] = "user" /\ IF_BIT \in eflags[curr]

(* Mutant: the modulus is taken before the increment is.                    *)
NextTerminalStays == terminal_num % NumTerminals

NextTerminal == (terminal_num + 1) % NumTerminals

(* The stack the interrupted context is saved on.                           *)
Interrupted == IF pc[curr] = "user" THEN tss_esp0 ELSE curr

SavedEbp == [term_ebp EXCEPT ![terminal_num] = Interrupted]

SaveTerminal ==
  /\ Running /\ InterruptsOn
  /\ terminal_num' = NextTerminal
  /\ term_esp0' = [term_esp0 EXCEPT ![terminal_num] = tss_esp0]

(* The next terminal is off: its root shell is started, on this stack.      *)
TickTurnOn ==
  /\ SaveTerminal
  /\ ~ active[NextTerminal]
  /\ Execute(NextTerminal, SavedEbp)

(* The next terminal is off and no pid is free: execute returns -1 to a     *)
(* pit_handler that does not look, and the NULL most_recent_pcb is used.    *)
TickNullPcb ==
  /\ SaveTerminal
  /\ ~ active[NextTerminal] /\ NoneFree
  /\ term_ebp' = SavedEbp
  /\ fault' = "null_pcb"
  /\ UNCHANGED <<procVars, active, most_recent_pcb, pc, eflags, page, tss_esp0,
                 curr, torn>>

(* Mutant: tss.esp0 is left as the terminal before had it.                  *)
TickResumeKeepsEsp0 ==
  /\ SaveTerminal
  /\ active[NextTerminal]
  /\ SavedEbp[NextTerminal] # Lost
  /\ term_ebp' = SavedEbp
  /\ page' = most_recent_pcb[NextTerminal]
  /\ curr' = SavedEbp[NextTerminal]
  /\ torn' = (pc[SavedEbp[NextTerminal]] = "recent")
  /\ UNCHANGED <<procVars, active, most_recent_pcb, pc, eflags, tss_esp0, fault>>

TickResume ==
  /\ SaveTerminal
  /\ active[NextTerminal]
  /\ SavedEbp[NextTerminal] # Lost
  /\ term_ebp' = SavedEbp
  /\ page' = most_recent_pcb[NextTerminal]
  /\ tss_esp0' = term_esp0'[NextTerminal]
  /\ curr' = SavedEbp[NextTerminal]
  /\ torn' = (pc[SavedEbp[NextTerminal]] = "recent")
  /\ UNCHANGED <<procVars, active, most_recent_pcb, pc, eflags, fault>>

(* leave; ret on a stack that now belongs to another process.               *)
TickLostStack ==
  /\ SaveTerminal
  /\ active[NextTerminal]
  /\ SavedEbp[NextTerminal] = Lost
  /\ term_ebp' = SavedEbp
  /\ page' = most_recent_pcb[NextTerminal]
  /\ tss_esp0' = term_esp0'[NextTerminal]
  /\ fault' = "lost_stack"
  /\ UNCHANGED <<procVars, active, most_recent_pcb, pc, eflags, curr, torn>>

PitTick == TickTurnOn \/ TickNullPcb \/ TickResume \/ TickLostStack

-----------------------------------------------------------------------------
Halt == \/ HaltEsp0 \/ HaltRestart \/ HaltClearBit \/ HaltUnmap
        \/ HaltMap \/ HaltRecent \/ HaltLeave

Next ==
  \/ BootExecute \/ SystemCall \/ SysReturn \/ SysExecute \/ SysHalt
  \/ Exception \/ Halt \/ PitTick

Spec == Init /\ [][Next]_vars

(* The boot code goes on and a program makes its next system call.  The     *)
(* interrupt controller latches IRQ 0, so a tick that finds the interrupt   *)
(* flag clear is taken when it is next set.  A time slice is 20 ms: halt    *)
(* gets on each time its terminal is served.                                *)
Fairness ==
  /\ WF_vars(BootExecute)
  /\ WF_vars(SystemCall \/ Exception)
  /\ SF_vars(PitTick)
  /\ \A t \in Term : SF_vars(Halt /\ terminal_num = t)

FairSpec == Spec /\ Fairness

-----------------------------------------------------------------------------
(* Types of the variables: what the kernel's tables hold.                   *)
TypeOK ==
  /\ pid_bits \in [Pid -> {0, 1}]
  /\ pcb_parent \in [Pid -> Pid \cup {NoPid}]
  /\ pcb_tid \in [Pid -> Term]
  /\ pcb_esp0 \in [Pid -> Pid]
  /\ pc \in [Pid -> PcValues]
  /\ eflags \in [Pid -> SUBSET {IF_BIT, EFLAGS_IF_MASK}]
  /\ active \in [Term -> BOOLEAN]
  /\ most_recent_pcb \in [Term -> Pid \cup {NoPid}]
  /\ term_ebp \in [Term -> Pid \cup {Lost}]
  /\ term_esp0 \in [Term -> Pid]
  /\ terminal_num \in Term
  /\ page \in Pid \cup {NoPid}
  /\ tss_esp0 \in Pid
  /\ curr \in Pid
  /\ fault \in {"none", "null_pcb", "lost_stack"}
  /\ torn \in BOOLEAN

(***************************************************************************)
(* The inductive invariant, by parts.                                      *)
(***************************************************************************)
LivePc == {"user", "sys", "exec", "sysret", "halt", "restart", "clear_bit"}
Contexts == KernelPc \cup {"user"}

(* Where terminal t goes on when it is next served: a stack, or Lost.       *)
Context(t) == IF t = terminal_num THEN curr ELSE term_ebp[t]

Live(p) == pid_bits[p] = 1

(* A pcb that is in use: its process is live, or halt is still reading it.  *)
InUse(p) == Live(p) \/ pc[p] \in Freed

(* The pid table (syscalls.c:477-483, 99) agrees with what the processes    *)
(* are doing: a pid is taken from execute's claim to halt's line 99, so a   *)
(* running program never has its pid, page or stack up for reuse.           *)
PidTable ==
  Running => \A p \in Pid : Live(p) <=> pc[p] \in LivePc

(* Every terminal that is on has one context and it is its own: the process *)
(* found by get_curr_pcb() belongs to terminal_num, a suspended terminal's  *)
(* saved ebp leads back to a process of that terminal (or was lost), and no *)
(* process runs that is not the context of its terminal.                    *)
OneContext ==
  Running =>
    /\ pc[curr] # "boot" => active[terminal_num] /\ Context(terminal_num) # Lost
    /\ \A t \in Term : active[t] /\ Context(t) # Lost =>
         pc[Context(t)] \in Contexts \ {"boot"} /\ pcb_tid[Context(t)] = t
    /\ \A p \in Pid : pc[p] \in Contexts \ {"boot"} =>
         active[pcb_tid[p]] /\ Context(pcb_tid[p]) = p

(* The process tree: the parent of a process in use waits in execute on the *)
(* same terminal, on the stack halt's line 61 will restore, and waits for   *)
(* this child alone.                                                        *)
Family ==
  Running => \A p \in Pid : InUse(p) /\ pcb_parent[p] # NoPid =>
    LET q == pcb_parent[p] IN
    /\ pc[q] = "exec"
    /\ pcb_tid[q] = pcb_tid[p]
    /\ pcb_esp0[p] = q
    /\ \A r \in Pid : InUse(r) /\ pcb_parent[r] = q => r = p

(* Root shells: a terminal that is on has exactly one, whatever halts and   *)
(* exceptions have done, and a process that gives its pid back has a parent.*)
Roots ==
  Running =>
    /\ \A t \in Term : active[t] <=>
         \E p \in Pid : Live(p) /\ pcb_tid[p] = t /\ pcb_parent[p] = NoPid
    /\ \A p, q \in Pid : Live(p) /\ Live(q) /\ pcb_tid[p] = pcb_tid[q]
         /\ pcb_parent[p] = NoPid /\ pcb_parent[q] = NoPid => p = q
    /\ \A p \in Pid : pc[p] \in Exiting => pcb_parent[p] # NoPid
    /\ \A p \in Pid : pc[p] = "restart" => pcb_parent[p] = NoPid
    /\ \A p \in Pid : Live(p) => active[pcb_tid[p]]

(* Every context has a live process: only the last step of halt may find    *)
(* its own pid already free.                                                *)
StackFor(p, esp0) ==
  /\ pc[p] \in {"boot", "user", "sys", "sysret", "halt"} => esp0 = p
  /\ pc[p] \in Exiting => esp0 = pcb_parent[p]

(* tss.esp0 is the kernel stack of the program about to run, at every step  *)
(* of halt and across every tick.                                           *)
KernelStacks ==
  Running =>
    /\ StackFor(curr, tss_esp0)
    /\ \A t \in Term : active[t] /\ t # terminal_num /\ term_ebp[t] # Lost =>
         StackFor(term_ebp[t], term_esp0[t])

(* most_recent_pcb is the program to map when the terminal is resumed, from *)
(* line 175 of execute to line 103 of halt.                                 *)
MostRecent ==
  Running => \A t \in Term : active[t] =>
    /\ most_recent_pcb[t] # NoPid
    /\ Context(t) # Lost => most_recent_pcb[t] =
         (IF pc[Context(t)] = "leave" THEN pcb_parent[Context(t)] ELSE Context(t))

(* The page mapped at 128 MB is that of the program being served, unless a  *)
(* tick cut its child's halt between lines 101 and 103.                     *)
PageOfCurrent ==
  Running =>
    /\ pc[curr] \in {"user", "sys", "sysret", "halt", "restart", "clear_bit",
                      "unmap"} /\ ~ torn => page = curr
    /\ pc[curr] = "map" => page \in {curr, NoPid}
    /\ pc[curr] \in {"recent", "leave"} /\ ~ torn => page = pcb_parent[curr]

(* The boot code runs only before the first program: a tick that comes      *)
(* before entry() calls execute abandons it for good.                       *)
Boot ==
  pc[curr] = "boot" => curr = 0 /\ terminal_num = 0 /\ \A t \in Term : ~ active[t]

Inv ==
  /\ TypeOK /\ Boot /\ PidTable /\ OneContext /\ Family /\ Roots
  /\ KernelStacks /\ MostRecent /\ PageOfCurrent

-----------------------------------------------------------------------------
(* What a program relies on when it runs: the kernel stack of its next      *)
(* interrupt is its own, terminal_num is its terminal, no child of it is    *)
(* left behind, and, but for the torn halt, its own page is mapped.         *)
ProgramUndisturbed ==
  Running /\ pc[curr] = "user" =>
    /\ tss_esp0 = curr
    /\ pcb_tid[curr] = terminal_num
    /\ \A p \in Pid : InUse(p) => pcb_parent[p] # curr
    /\ ~ torn => page = curr

(* A suspended computation is lost only if the tick cut it inside halt with *)
(* its pid already given back (lines 100 to 114): every other context of a  *)
(* terminal survives any number of ticks, executes and halts elsewhere.     *)
LostOnlyInHalt ==
  [][\A t \in Term : active[t] /\ Context(t) # Lost /\ Context(t)' = Lost
                       => pc[Context(t)] \in Freed]_vars

(* A root shell is never taken down, moved or given a parent: the terminal  *)
(* it serves stays on (syscalls.c:63 "start a new shell").                  *)
RootsStay ==
  [][\A p \in Pid : Live(p) /\ pcb_parent[p] = NoPid =>
       (Live(p) /\ pcb_parent[p] = NoPid)' /\ pcb_tid'[p] = pcb_tid[p]]_vars

(* pit.c:30 "switch the process to that of next terminal; in a roundrobin   *)
(* manner": unless the kernel stops, every terminal is served for ever.     *)
RoundRobin == \A t \in Term : []<>(terminal_num = t \/ ~ Running)

(* A halt that was begun comes to its end, in the parent's execute or in a  *)
(* new run of the root shell, whatever the other terminals do.              *)
HaltCompletes ==
  \A p \in Pid : pc[p] = "halt" ~> (pc[p] \in {"free", "user"} \/ ~ Running)

-----------------------------------------------------------------------------
(* What the comments say and the code does not do.                          *)

(* syscalls.c:529 "retrieve eflags and set IF = 1", syscalls.h:41 "mask to  *)
(* set EFLAG's IF to 1 for STI": a program can be interrupted.              *)
UserInterruptible == pc[curr] = "user" => IF_BIT \in eflags[curr]

(* syscalls.h:109 "The halt system call terminates a process, returning the *)
(* specified value to its parent process": the return is never lost.        *)
HaltReturns == fault # "lost_stack"

(* syscalls.c:97 "step 2: restore parent paging": a program runs on its own *)
(* page once its child has halted.                                          *)
ParentPaging == Running /\ pc[curr] = "user" => page = curr

(* pit.c:49 "next terminal should always be on; if not, turn it on": the    *)
(* tick never goes on with a terminal that is off.                          *)
NextTerminalOn == fault # "null_pcb"
=============================================================================
