---------------------------- MODULE Tasks_proofs ----------------------------
(***************************************************************************)
(* Proofs about Tasks, for any number of terminals and of pids.            *)
(*                                                                         *)
(* Inv is inductive: one lemma for each action of Next shows that the step *)
(* preserves it, one step of the proof for each part of Inv.  The types,   *)
(* and what a program relies on, follow from it.  The refinement of        *)
(* Programs needs an invariant of its own, OneTop.  Two theorems say what  *)
(* is enough to make true what the code gets wrong: that halt always       *)
(* returns, and that every terminal gets its shell.                        *)
(***************************************************************************)
EXTENDS MCTasks, FiniteSetTheorems, TLAPS

(* The sentinels are no pids and differ from each other.                    *)
LEMMA Sentinels == NoPid \notin Pid /\ Lost \notin Pid /\ NoPid # Lost
  BY DEF NoPid, Lost, Pid

(* The round robin of pit.c:39 stays among the terminals.                   *)
LEMMA NextInTerm == ASSUME terminal_num \in Term PROVE NextTerminal \in Term
  BY TerminalsAssumption DEF NextTerminal, Term

(* The state entry() leaves when the interrupts are turned on satisfies Inv. *)
LEMMA InitInv == Init => Inv
<1> SUFFICES ASSUME Init PROVE Inv
  OBVIOUS
<1>1. 0 \in Term /\ 0 \in Pid
  BY TerminalsAssumption, ProcessesAssumption DEF Term, Pid
<1>2. TypeOK
  BY <1>1 DEF Init, TypeOK, PcValues, KernelPc
<1>3. /\ Boot /\ PidTable /\ OneContext /\ Family /\ Roots
      /\ KernelStacks /\ MostRecent /\ PageOfCurrent
  BY <1>1, SMTT(30) DEF Init, Boot, PidTable, OneContext, Family, Roots,
     KernelStacks, MostRecent, PageOfCurrent, LivePc, Contexts, KernelPc,
     Exiting, Freed, InUse, Live, StackFor
<1>4. QED
  BY <1>2, <1>3 DEF Inv

(* Entering the kernel from a program: the TSS names the program's own stack,*)
(* so the context stays the one of its terminal.                            *)
LEMMA SystemCallStep == ASSUME Inv, SystemCall PROVE Inv'
<1> USE Sentinels DEF SystemCall, Running, Goto, procVars, termVars
<1>a. pc[curr] = "user" => tss_esp0 = curr
  BY DEF Inv, KernelStacks, StackFor
<1>1. TypeOK'
  BY <1>a, SMTT(30) DEF Inv, TypeOK, PcValues, KernelPc, Exiting, Freed
<1>2. Boot'
  BY <1>a, SMTT(30) DEF Inv, TypeOK, Boot
<1>3. PidTable'
  BY <1>a, SMTT(30) DEF Inv, TypeOK, PidTable, Live, LivePc
<1>4. OneContext'
  BY <1>a, SMTT(30) DEF Inv, TypeOK, OneContext, Context, Contexts, KernelPc,
      Exiting, Freed
<1>5. Family'
  BY <1>a, SMTT(30) DEF Inv, TypeOK, Family, InUse, Live, Freed
<1>6. Roots'
  BY <1>a, SMTT(30) DEF Inv, TypeOK, Roots, Live, Exiting, Freed
<1>7. KernelStacks'
  BY <1>a, SMTT(30) DEF Inv, TypeOK, KernelStacks, StackFor, Exiting, Freed
<1>8. MostRecent'
  BY <1>a, SMTT(30) DEF Inv, TypeOK, MostRecent, Context
<1>9. PageOfCurrent'
  BY <1>a, SMTT(30) DEF Inv, TypeOK, PageOfCurrent
<1>10. QED
  BY <1>1, <1>2, <1>3, <1>4, <1>5, <1>6, <1>7, <1>8, <1>9 DEF Inv

(* Returning to the program: a context in the kernel and one in user mode are*)
(* bound by the same parts of Inv.                                          *)
LEMMA SysReturnStep == ASSUME Inv, SysReturn PROVE Inv'
<1> USE Sentinels DEF SysReturn, Running, Goto, procVars, termVars
<1>1. TypeOK'
  BY SMTT(30) DEF Inv, TypeOK, PcValues, KernelPc, Exiting, Freed
<1>2. Boot'
  BY SMTT(30) DEF Inv, TypeOK, Boot
<1>3. PidTable'
  BY SMTT(30) DEF Inv, TypeOK, PidTable, Live, LivePc
<1>4. OneContext'
  BY SMTT(30) DEF Inv, TypeOK, OneContext, Context, Contexts, KernelPc,
      Exiting, Freed
<1>5. Family'
  BY SMTT(30) DEF Inv, TypeOK, Family, InUse, Live, Freed
<1>6. Roots'
  BY SMTT(30) DEF Inv, TypeOK, Roots, Live, Exiting, Freed
<1>7. KernelStacks'
  BY SMTT(30) DEF Inv, TypeOK, KernelStacks, StackFor, Exiting, Freed
<1>8. MostRecent'
  BY SMTT(30) DEF Inv, TypeOK, MostRecent, Context
<1>9. PageOfCurrent'
  BY SMTT(30) DEF Inv, TypeOK, PageOfCurrent
<1>10. QED
  BY <1>1, <1>2, <1>3, <1>4, <1>5, <1>6, <1>7, <1>8, <1>9 DEF Inv

(* Calling halt changes only where the process is.                          *)
LEMMA SysHaltStep == ASSUME Inv, SysHalt PROVE Inv'
<1> USE Sentinels DEF SysHalt, Running, Goto, procVars, termVars
<1>1. TypeOK'
  BY SMTT(30) DEF Inv, TypeOK, PcValues, KernelPc, Exiting, Freed
<1>2. Boot'
  BY SMTT(30) DEF Inv, TypeOK, Boot
<1>3. PidTable'
  BY SMTT(30) DEF Inv, TypeOK, PidTable, Live, LivePc
<1>4. OneContext'
  BY SMTT(30) DEF Inv, TypeOK, OneContext, Context, Contexts, KernelPc,
      Exiting, Freed
<1>5. Family'
  BY SMTT(30) DEF Inv, TypeOK, Family, InUse, Live, Freed
<1>6. Roots'
  BY SMTT(30) DEF Inv, TypeOK, Roots, Live, Exiting, Freed
<1>7. KernelStacks'
  BY SMTT(30) DEF Inv, TypeOK, KernelStacks, StackFor, Exiting, Freed
<1>8. MostRecent'
  BY SMTT(30) DEF Inv, TypeOK, MostRecent, Context
<1>9. PageOfCurrent'
  BY SMTT(30) DEF Inv, TypeOK, PageOfCurrent
<1>10. QED
  BY <1>1, <1>2, <1>3, <1>4, <1>5, <1>6, <1>7, <1>8, <1>9 DEF Inv

(* An exception puts the process that raised it into halt, on its own stack.*)
LEMMA ExceptionStep == ASSUME Inv, Exception PROVE Inv'
<1> USE Sentinels DEF Exception, Running, Goto, procVars, termVars
<1>a. pc[curr] = "user" => tss_esp0 = curr
  BY DEF Inv, KernelStacks, StackFor
<1>1. TypeOK'
  BY <1>a, SMTT(30) DEF Inv, TypeOK, PcValues, KernelPc, Exiting, Freed
<1>2. Boot'
  BY <1>a, SMTT(30) DEF Inv, TypeOK, Boot
<1>3. PidTable'
  BY <1>a, SMTT(30) DEF Inv, TypeOK, PidTable, Live, LivePc
<1>4. OneContext'
  BY <1>a, SMTT(30) DEF Inv, TypeOK, OneContext, Context, Contexts, KernelPc,
      Exiting, Freed
<1>5. Family'
  BY <1>a, SMTT(30) DEF Inv, TypeOK, Family, InUse, Live, Freed
<1>6. Roots'
  BY <1>a, SMTT(30) DEF Inv, TypeOK, Roots, Live, Exiting, Freed
<1>7. KernelStacks'
  BY <1>a, SMTT(30) DEF Inv, TypeOK, KernelStacks, StackFor, Exiting, Freed
<1>8. MostRecent'
  BY <1>a, SMTT(30) DEF Inv, TypeOK, MostRecent, Context
<1>9. PageOfCurrent'
  BY <1>a, SMTT(30) DEF Inv, TypeOK, PageOfCurrent
<1>10. QED
  BY <1>1, <1>2, <1>3, <1>4, <1>5, <1>6, <1>7, <1>8, <1>9 DEF Inv

(* Line 61 of halt leaves in the TSS the parent's stack, which Family says  *)
(* is what pcb.esp0 holds; a process without a parent goes to the restart.  *)
LEMMA HaltEsp0Step == ASSUME Inv, HaltEsp0 PROVE Inv'
<1> USE Sentinels DEF HaltEsp0, Running, Goto, procVars, termVars
<1>a. Live(curr)
  BY DEF Inv, TypeOK, PidTable, LivePc
<1>b. pcb_parent[curr] # NoPid => pcb_esp0[curr] = pcb_parent[curr]
  BY <1>a DEF Inv, TypeOK, Family, InUse
<1>1. TypeOK'
  BY SMTT(30) DEF Inv, TypeOK, PcValues, KernelPc, Exiting, Freed
<1>2. Boot'
  BY SMTT(30) DEF Inv, TypeOK, Boot
<1>3. PidTable'
  BY SMTT(30) DEF Inv, TypeOK, PidTable, Live, LivePc
<1>4. OneContext'
  BY SMTT(30) DEF Inv, TypeOK, OneContext, Context, Contexts, KernelPc,
      Exiting, Freed
<1>5. Family'
  BY SMTT(30) DEF Inv, TypeOK, Family, InUse, Live, Freed
<1>6. Roots'
  BY SMTT(30) DEF Inv, TypeOK, Roots, Live, Exiting, Freed
<1>7. KernelStacks'
  BY <1>b, SMTT(30) DEF Inv, TypeOK, KernelStacks, StackFor, Exiting, Freed,
      OneContext, Context, Contexts, KernelPc
<1>8. MostRecent'
  BY SMTT(30) DEF Inv, TypeOK, MostRecent, Context
<1>9. PageOfCurrent'
  BY SMTT(30) DEF Inv, TypeOK, PageOfCurrent
<1>10. QED
  BY <1>1, <1>2, <1>3, <1>4, <1>5, <1>6, <1>7, <1>8, <1>9 DEF Inv

(* The restart of a root shell puts its own stack back in the TSS.          *)
LEMMA HaltRestartStep == ASSUME Inv, HaltRestart PROVE Inv'
<1> USE Sentinels DEF HaltRestart, IF_BIT, EFLAGS_IF_MASK, Running, Goto,
          procVars, termVars
<1>1. TypeOK'
  BY SMTT(30) DEF Inv, TypeOK, PcValues, KernelPc, Exiting, Freed
<1>2. Boot'
  BY SMTT(30) DEF Inv, TypeOK, Boot
<1>3. PidTable'
  BY SMTT(30) DEF Inv, TypeOK, PidTable, Live, LivePc
<1>4. OneContext'
  BY SMTT(30) DEF Inv, TypeOK, OneContext, Context, Contexts, KernelPc,
      Exiting, Freed
<1>5. Family'
  BY SMTT(30) DEF Inv, TypeOK, Family, InUse, Live, Freed
<1>6. Roots'
  BY SMTT(30) DEF Inv, TypeOK, Roots, Live, Exiting, Freed
<1>7. KernelStacks'
  BY SMTT(30) DEF Inv, TypeOK, KernelStacks, StackFor, Exiting, Freed,
      OneContext, Context, Contexts, KernelPc
<1>8. MostRecent'
  BY SMTT(30) DEF Inv, TypeOK, MostRecent, Context
<1>9. PageOfCurrent'
  BY SMTT(30) DEF Inv, TypeOK, PageOfCurrent
<1>10. QED
  BY <1>1, <1>2, <1>3, <1>4, <1>5, <1>6, <1>7, <1>8, <1>9 DEF Inv

(* Line 99 gives the pid back; the pcb stays in use until the end of halt.  *)
LEMMA HaltClearBitStep == ASSUME Inv, HaltClearBit PROVE Inv'
<1> USE Sentinels DEF HaltClearBit, Running, Goto, procVars, termVars
<1>1. TypeOK'
  BY SMTT(30) DEF Inv, TypeOK, PcValues, KernelPc, Exiting, Freed
<1>2. Boot'
  BY SMTT(30) DEF Inv, TypeOK, Boot
<1>3. PidTable'
  BY SMTT(30) DEF Inv, TypeOK, PidTable, Live, LivePc
<1>4. OneContext'
  BY SMTT(30) DEF Inv, TypeOK, OneContext, Context, Contexts, KernelPc,
      Exiting, Freed
<1>5. Family'
  BY SMTT(30) DEF Inv, TypeOK, Family, InUse, Live, Freed, PidTable, LivePc
<1>6. Roots'
  BY SMTT(30) DEF Inv, TypeOK, Roots, Live, Exiting, Freed
<1>7. KernelStacks'
  BY SMTT(30) DEF Inv, TypeOK, KernelStacks, StackFor, Exiting, Freed
<1>8. MostRecent'
  BY SMTT(30) DEF Inv, TypeOK, MostRecent, Context
<1>9. PageOfCurrent'
  BY SMTT(30) DEF Inv, TypeOK, PageOfCurrent
<1>10. QED
  BY <1>1, <1>2, <1>3, <1>4, <1>5, <1>6, <1>7, <1>8, <1>9 DEF Inv

(* Line 100 unmaps the page of the process that is halting.                 *)
LEMMA HaltUnmapStep == ASSUME Inv, HaltUnmap PROVE Inv'
<1> USE Sentinels DEF HaltUnmap, Running, Goto, procVars, termVars
<1>1. TypeOK'
  BY SMTT(30) DEF Inv, TypeOK, PcValues, KernelPc, Exiting, Freed
<1>2. Boot'
  BY SMTT(30) DEF Inv, TypeOK, Boot
<1>3. PidTable'
  BY SMTT(30) DEF Inv, TypeOK, PidTable, Live, LivePc
<1>4. OneContext'
  BY SMTT(30) DEF Inv, TypeOK, OneContext, Context, Contexts, KernelPc,
      Exiting, Freed
<1>5. Family'
  BY SMTT(30) DEF Inv, TypeOK, Family, InUse, Live, Freed
<1>6. Roots'
  BY SMTT(30) DEF Inv, TypeOK, Roots, Live, Exiting, Freed
<1>7. KernelStacks'
  BY SMTT(30) DEF Inv, TypeOK, KernelStacks, StackFor, Exiting, Freed
<1>8. MostRecent'
  BY SMTT(30) DEF Inv, TypeOK, MostRecent, Context
<1>9. PageOfCurrent'
  BY SMTT(30) DEF Inv, TypeOK, PageOfCurrent
<1>10. QED
  BY <1>1, <1>2, <1>3, <1>4, <1>5, <1>6, <1>7, <1>8, <1>9 DEF Inv

(* Line 101 maps the parent's page: an exiting process has a parent.        *)
LEMMA HaltMapStep == ASSUME Inv, HaltMap PROVE Inv'
<1> USE Sentinels DEF HaltMap, Running, Goto, procVars, termVars
<1>a. pcb_parent[curr] \in Pid
  BY DEF Inv, TypeOK, Roots, Exiting, Freed
<1>b. torn' \in BOOLEAN
  BY Zenon DEF HaltMap
<1>1. TypeOK'
  BY <1>a, <1>b, SMTT(30) DEF Inv, TypeOK, PcValues, KernelPc, Exiting, Freed
<1>2. Boot'
  BY <1>a, SMTT(30) DEF Inv, TypeOK, Boot
<1>3. PidTable'
  BY <1>a, SMTT(30) DEF Inv, TypeOK, PidTable, Live, LivePc
<1>4. OneContext'
  BY <1>a, SMTT(30) DEF Inv, TypeOK, OneContext, Context, Contexts, KernelPc,
      Exiting, Freed
<1>5. Family'
  BY <1>a, SMTT(30) DEF Inv, TypeOK, Family, InUse, Live, Freed
<1>6. Roots'
  BY <1>a, SMTT(30) DEF Inv, TypeOK, Roots, Live, Exiting, Freed
<1>7. KernelStacks'
  BY <1>a, SMTT(30) DEF Inv, TypeOK, KernelStacks, StackFor, Exiting, Freed
<1>8. MostRecent'
  BY <1>a, SMTT(30) DEF Inv, TypeOK, MostRecent, Context
<1>9. PageOfCurrent'
  BY <1>a, SMTT(30) DEF Inv, TypeOK, PageOfCurrent
<1>10. QED
  BY <1>1, <1>2, <1>3, <1>4, <1>5, <1>6, <1>7, <1>8, <1>9 DEF Inv

(* Line 103 makes the parent the program its terminal resumes.              *)
LEMMA HaltRecentStep == ASSUME Inv, HaltRecent PROVE Inv'
<1> USE Sentinels DEF HaltRecent, Running, Goto, procVars, termVars
<1>a. pcb_parent[curr] \in Pid
  BY DEF Inv, TypeOK, Roots, Exiting, Freed
<1>1. TypeOK'
  BY <1>a, SMTT(30) DEF Inv, TypeOK, PcValues, KernelPc, Exiting, Freed
<1>2. Boot'
  BY <1>a, SMTT(30) DEF Inv, TypeOK, Boot
<1>3. PidTable'
  BY <1>a, SMTT(30) DEF Inv, TypeOK, PidTable, Live, LivePc
<1>4. OneContext'
  BY <1>a, SMTT(30) DEF Inv, TypeOK, OneContext, Context, Contexts, KernelPc,
      Exiting, Freed
<1>5. Family'
  BY <1>a, SMTT(30) DEF Inv, TypeOK, Family, InUse, Live, Freed
<1>6. Roots'
  BY <1>a, SMTT(30) DEF Inv, TypeOK, Roots, Live, Exiting, Freed
<1>7. KernelStacks'
  BY <1>a, SMTT(30) DEF Inv, TypeOK, KernelStacks, StackFor, Exiting, Freed
<1>8. MostRecent'
  BY <1>a, SMTT(30) DEF Inv, TypeOK, MostRecent, Context, OneContext,
      Contexts, KernelPc, Exiting, Freed
<1>9. PageOfCurrent'
  BY <1>a, SMTT(30) DEF Inv, TypeOK, PageOfCurrent
<1>10. QED
  BY <1>1, <1>2, <1>3, <1>4, <1>5, <1>6, <1>7, <1>8, <1>9 DEF Inv

(* The end of halt: the parent waits in execute for this child alone, and goes*)
(* on in its stead with its stack in the TSS.                               *)
LEMMA HaltLeaveStep == ASSUME Inv, HaltLeave PROVE Inv'
<1> USE Sentinels DEF HaltLeave, Running, Goto, procVars, termVars
<1> DEFINE q == pcb_parent[curr]
<1>a. q \in Pid
  BY DEF Inv, TypeOK, Roots, Exiting, Freed
<1>b. /\ pc[q] = "exec" /\ q # curr
      /\ pcb_tid[q] = pcb_tid[curr] /\ pcb_tid[curr] = terminal_num
      /\ pcb_esp0[curr] = q /\ tss_esp0 = q
      /\ ~ Live(curr)
  BY <1>a DEF Inv, TypeOK, Family, InUse, OneContext, Context, Contexts, KernelPc, Exiting, Freed, KernelStacks, StackFor, PidTable, LivePc
<1>1. TypeOK'
  BY <1>a, <1>b, SMTT(30) DEF Inv, TypeOK, PcValues, KernelPc, Exiting, Freed
<1>2. Boot'
  BY <1>a, <1>b, SMTT(30) DEF Inv, TypeOK, Boot, PidTable, Live, LivePc
<1>3. PidTable'
  BY <1>a, <1>b, SMTT(30) DEF Inv, TypeOK, PidTable, Live, LivePc
<1>4. OneContext'
  BY <1>a, <1>b, SMTT(30) DEF Inv, TypeOK, OneContext, Context, Contexts,
      KernelPc, Exiting, Freed
<1>5. Family'
  BY <1>a, <1>b, SMTT(30) DEF Inv, TypeOK, Family, InUse, Live, Freed,
      PidTable, LivePc
<1>6. Roots'
  BY <1>a, <1>b, SMTT(30) DEF Inv, TypeOK, Roots, Live, Exiting, Freed
<1>7. KernelStacks'
  BY <1>a, <1>b, SMTT(30) DEF Inv, TypeOK, KernelStacks, StackFor, Exiting,
      Freed, OneContext, Context, Contexts, KernelPc
<1>8. MostRecent'
  BY <1>a, <1>b, SMTT(30) DEF Inv, TypeOK, MostRecent, Context, OneContext,
      Contexts, KernelPc, Exiting, Freed
<1>9. PageOfCurrent'
  BY <1>a, <1>b, SMTT(30) DEF Inv, TypeOK, PageOfCurrent
<1>10. QED
  BY <1>1, <1>2, <1>3, <1>4, <1>5, <1>6, <1>7, <1>8, <1>9 DEF Inv

(* The first shell: no terminal is on yet.                                  *)
LEMMA BootExecuteStep == ASSUME Inv, BootExecute PROVE Inv'
<1> USE Sentinels DEF BootExecute, Running, Overwrite, ExecuteSetup,
          ExecuteFillPcb, ExecuteCswitch
<1>t. terminal_num \in Term
  BY DEF Inv, TypeOK
<1>a. \A t \in Term : ~ active[t]
  BY DEF Inv, Boot
<1>p. PICK p \in Pid : Execute(terminal_num, term_ebp)!(p)
  BY DEF BootExecute, Execute
<1>f. pid_bits[p] = 0
  BY <1>p DEF ExecuteSetup, FirstFree
<1>n. torn' \in BOOLEAN
  BY <1>p, Zenon DEF ExecuteSetup
<1>1. TypeOK'
  BY <1>t, <1>a, <1>p, <1>f, <1>n, SMTT(30) DEF Inv, TypeOK, PcValues,
      KernelPc, Exiting, Freed, IF_BIT, EFLAGS_IF_MASK
<1>2. Boot'
  BY <1>t, <1>a, <1>p, <1>f, SMTT(30) DEF Inv, TypeOK, Boot
<1>3. PidTable'
  BY <1>t, <1>a, <1>p, <1>f, SMTT(30) DEF Inv, TypeOK, PidTable, Live, LivePc
<1>4. OneContext'
  BY <1>t, <1>a, <1>p, <1>f, SMTT(30) DEF Inv, TypeOK, OneContext, Context,
      Contexts, KernelPc, Exiting, Freed
<1>5. Family'
  BY <1>t, <1>a, <1>p, <1>f, SMTT(30) DEF Inv, TypeOK, Family, InUse, Live,
      Freed, PidTable, LivePc
<1>6. Roots'
  BY <1>t, <1>a, <1>p, <1>f, SMTT(30) DEF Inv, TypeOK, Roots, Live, Exiting,
      Freed
<1>7. KernelStacks'
  BY <1>t, <1>a, <1>p, <1>f, SMTT(30) DEF Inv, TypeOK, KernelStacks, StackFor,
      Exiting, Freed
<1>8. MostRecent'
  BY <1>t, <1>a, <1>p, <1>f, SMTT(30) DEF Inv, TypeOK, MostRecent, Context
<1>9. PageOfCurrent'
  BY <1>t, <1>a, <1>p, <1>f, SMTT(30) DEF Inv, TypeOK, PageOfCurrent
<1>10. QED
  BY <1>1, <1>2, <1>3, <1>4, <1>5, <1>6, <1>7, <1>8, <1>9 DEF Inv

(* A program executes a child: a free pid is not the caller's, and a context of*)
(* another terminal that it belonged to is marked lost.                     *)
LEMMA SysExecuteStep == ASSUME Inv, SysExecute PROVE Inv'
<1> USE Sentinels DEF SysExecute, Running, Overwrite, ExecuteSetup,
          ExecuteFillPcb, ExecuteCswitch, Live
<1>t. terminal_num \in Term
  BY DEF Inv, TypeOK
<1>a. /\ active[terminal_num] /\ Live(curr) /\ tss_esp0 = curr
      /\ pcb_tid[curr] = terminal_num
  BY DEF Inv, TypeOK, OneContext, Context, Contexts, KernelPc, PidTable, LivePc, KernelStacks, StackFor
<1>p. PICK p \in Pid : Execute(terminal_num, term_ebp)!(p)
  BY DEF SysExecute, Execute
<1>f. pid_bits[p] = 0
  BY <1>p DEF ExecuteSetup, FirstFree
<1>n. torn' \in BOOLEAN
  BY <1>p, Zenon DEF ExecuteSetup
<1>1. TypeOK'
  BY <1>t, <1>a, <1>p, <1>f, <1>n, SMTT(30) DEF Inv, TypeOK, PcValues,
      KernelPc, Exiting, Freed, IF_BIT, EFLAGS_IF_MASK
<1>2. Boot'
  BY <1>t, <1>a, <1>p, <1>f, SMTT(30) DEF Inv, TypeOK, Boot
<1>3. PidTable'
  BY <1>t, <1>a, <1>p, <1>f, SMTT(30) DEF Inv, TypeOK, PidTable, LivePc
<1>4. OneContext'
  BY <1>t, <1>a, <1>p, <1>f, SMTT(30) DEF Inv, TypeOK, OneContext, Context,
      Contexts, KernelPc, Exiting, Freed
<1>5. Family'
  BY <1>t, <1>a, <1>p, <1>f, SMTT(30) DEF Inv, TypeOK, Family, InUse, Freed,
      PidTable, LivePc
<1>6. Roots'
  BY <1>t, <1>a, <1>p, <1>f, SMTT(30) DEF Inv, TypeOK, Roots, Exiting, Freed,
      OneContext, Context, Contexts, KernelPc
<1>7. KernelStacks'
  BY <1>t, <1>a, <1>p, <1>f, SMTT(30) DEF Inv, TypeOK, KernelStacks, StackFor,
      Exiting, Freed
<1>8. MostRecent'
  BY <1>t, <1>a, <1>p, <1>f, SMTT(30) DEF Inv, TypeOK, MostRecent, Context
<1>9. PageOfCurrent'
  BY <1>t, <1>a, <1>p, <1>f, SMTT(30) DEF Inv, TypeOK, PageOfCurrent
<1>10. QED
  BY <1>1, <1>2, <1>3, <1>4, <1>5, <1>6, <1>7, <1>8, <1>9 DEF Inv

(* A tick that starts the shell of a terminal that was off.                 *)
LEMMA TickTurnOnStep == ASSUME Inv, TickTurnOn PROVE Inv'
<1> USE Sentinels DEF TickTurnOn, Running, Overwrite, ExecuteSetup,
          ExecuteFillPcb, ExecuteCswitch, SaveTerminal, SavedEbp, Interrupted,
          InterruptsOn
<1>t. NextTerminal \in Term
  BY NextInTerm DEF Inv, TypeOK
<1>a. ~ active[NextTerminal]
  OBVIOUS
<1>u. pc[curr] = "user" => tss_esp0 = curr
  BY DEF Inv, KernelStacks, StackFor
<1>p. PICK p \in Pid : Execute(NextTerminal, SavedEbp)!(p)
  BY DEF TickTurnOn, Execute
<1>f. pid_bits[p] = 0
  BY <1>p DEF ExecuteSetup, FirstFree
<1>n. torn' \in BOOLEAN
  BY <1>p, Zenon DEF ExecuteSetup
<1>1. TypeOK'
  BY <1>t, <1>a, <1>p, <1>f, <1>n, SMTT(30) DEF Inv, TypeOK, PcValues,
      KernelPc, Exiting, Freed, IF_BIT, EFLAGS_IF_MASK
<1>2. Boot'
  BY <1>t, <1>a, <1>p, <1>f, <1>u, SMTT(30) DEF Inv, TypeOK, Boot
<1>3. PidTable'
  BY <1>t, <1>a, <1>p, <1>f, <1>u, SMTT(30) DEF Inv, TypeOK, PidTable, Live,
      LivePc
<1>4. OneContext'
  BY <1>t, <1>a, <1>p, <1>f, <1>u, SMTT(30) DEF Inv, TypeOK, OneContext,
      Context, Contexts, KernelPc, Exiting, Freed
<1>5. Family'
  BY <1>t, <1>a, <1>p, <1>f, <1>u, SMTT(30) DEF Inv, TypeOK, Family, InUse,
      Live, Freed, PidTable, LivePc
<1>6. Roots'
  BY <1>t, <1>a, <1>p, <1>f, <1>u, SMTT(30) DEF Inv, TypeOK, Roots, Live,
      Exiting, Freed
<1>7. KernelStacks'
  BY <1>t, <1>a, <1>p, <1>f, <1>u, SMTT(30) DEF Inv, TypeOK, KernelStacks,
      StackFor, Exiting, Freed
<1>8. MostRecent'
  BY <1>t, <1>a, <1>p, <1>f, <1>u, SMTT(30) DEF Inv, TypeOK, MostRecent,
      Context
<1>9. PageOfCurrent'
  BY <1>t, <1>a, <1>p, <1>f, <1>u, SMTT(30) DEF Inv, TypeOK, PageOfCurrent
<1>10. QED
  BY <1>1, <1>2, <1>3, <1>4, <1>5, <1>6, <1>7, <1>8, <1>9 DEF Inv

(* A tick that finds the next terminal off and no pid free stops the kernel.*)
LEMMA TickNullPcbStep == ASSUME Inv, TickNullPcb PROVE Inv'
<1> USE Sentinels DEF TickNullPcb, Running, procVars, SaveTerminal, SavedEbp,
          Interrupted, InterruptsOn
<1>t. NextTerminal \in Term
  BY NextInTerm DEF Inv, TypeOK
<1>u. pc[curr] = "user" => tss_esp0 = curr
  BY DEF Inv, KernelStacks, StackFor
<1>b. pc[curr] # "boot"
  BY ProcessesAssumption DEF Inv, TypeOK, Boot, PidTable, LivePc, Live, NoneFree, Pid
<1>1. TypeOK'
  BY <1>t, <1>u, SMTT(30) DEF Inv, TypeOK, PcValues, KernelPc, Exiting, Freed
<1>2. Boot'
  BY <1>b, SMTT(30) DEF Inv, TypeOK, Boot
<1>3. PidTable'
  BY <1>t, <1>u, SMTT(30) DEF Inv, TypeOK, PidTable, Live, LivePc
<1>4. OneContext'
  BY <1>t, <1>u, SMTT(30) DEF Inv, TypeOK, OneContext, Context, Contexts,
      KernelPc, Exiting, Freed
<1>5. Family'
  BY <1>t, <1>u, SMTT(30) DEF Inv, TypeOK, Family, InUse, Live, Freed
<1>6. Roots'
  BY <1>t, <1>u, SMTT(30) DEF Inv, TypeOK, Roots, Live, Exiting, Freed
<1>7. KernelStacks'
  BY <1>t, <1>u, SMTT(30) DEF Inv, TypeOK, KernelStacks, StackFor, Exiting,
      Freed
<1>8. MostRecent'
  BY <1>t, <1>u, SMTT(30) DEF Inv, TypeOK, MostRecent, Context
<1>9. PageOfCurrent'
  BY <1>t, <1>u, SMTT(30) DEF Inv, TypeOK, PageOfCurrent
<1>10. QED
  BY <1>1, <1>2, <1>3, <1>4, <1>5, <1>6, <1>7, <1>8, <1>9 DEF Inv

(* A tick that resumes the next terminal finds there the stack, the TSS value*)
(* and the page that Inv keeps for it.                                      *)
LEMMA TickResumeStep == ASSUME Inv, TickResume PROVE Inv'
<1> USE Sentinels DEF TickResume, Running, procVars, SaveTerminal, SavedEbp,
          Interrupted, InterruptsOn
<1>t. NextTerminal \in Term
  BY NextInTerm DEF Inv, TypeOK
<1>u. pc[curr] = "user" => tss_esp0 = curr
  BY DEF Inv, KernelStacks, StackFor
<1>b. pc[curr] # "boot"
  BY <1>t DEF Inv, Boot
<1>c. /\ curr' \in Pid /\ pc[curr'] \in Contexts \ {"boot"}
      /\ curr' = SavedEbp[NextTerminal] /\ pcb_tid[curr'] = NextTerminal
  BY <1>t, <1>u, <1>b DEF Inv, TypeOK, OneContext, Context
<1>d. torn' \in BOOLEAN
  BY Zenon
<1>1. TypeOK'
  BY <1>t, <1>u, <1>b, <1>c, <1>d, SMTT(30) DEF Inv, TypeOK, PcValues,
      KernelPc, Exiting, Freed
<1>2. Boot'
  BY <1>t, <1>u, <1>b, <1>c, SMTT(30) DEF Inv, TypeOK, Boot
<1>3. PidTable'
  BY <1>t, <1>u, <1>b, <1>c, SMTT(30) DEF Inv, TypeOK, PidTable, Live, LivePc
<1>4. OneContext'
  BY <1>t, <1>u, <1>b, <1>c, SMTT(30) DEF Inv, TypeOK, OneContext, Context,
      Contexts, KernelPc, Exiting, Freed
<1>5. Family'
  BY <1>t, <1>u, <1>b, <1>c, SMTT(30) DEF Inv, TypeOK, Family, InUse, Live,
      Freed
<1>6. Roots'
  BY <1>t, <1>u, <1>b, <1>c, SMTT(30) DEF Inv, TypeOK, Roots, Live, Exiting,
      Freed
<1>7. KernelStacks'
  BY <1>t, <1>u, <1>b, <1>c, SMTT(30) DEF Inv, TypeOK, KernelStacks, StackFor,
      Exiting, Freed
<1>8. MostRecent'
  BY <1>t, <1>u, <1>b, <1>c, SMTT(30) DEF Inv, TypeOK, MostRecent, Context
<1>9. PageOfCurrent'
  BY <1>t, <1>u, <1>b, <1>c, SMTT(30) DEF Inv, TypeOK, PageOfCurrent,
      MostRecent, Context
<1>10. QED
  BY <1>1, <1>2, <1>3, <1>4, <1>5, <1>6, <1>7, <1>8, <1>9 DEF Inv

(* A tick that resumes a lost context stops the kernel.                     *)
LEMMA TickLostStackStep == ASSUME Inv, TickLostStack PROVE Inv'
<1> USE Sentinels DEF TickLostStack, Running, procVars, SaveTerminal,
          SavedEbp, Interrupted, InterruptsOn
<1>t. NextTerminal \in Term
  BY NextInTerm DEF Inv, TypeOK
<1>u. pc[curr] = "user" => tss_esp0 = curr
  BY DEF Inv, KernelStacks, StackFor
<1>b. pc[curr] # "boot"
  BY <1>t DEF Inv, Boot
<1>1. TypeOK'
  BY <1>t, <1>u, <1>b, SMTT(30) DEF Inv, TypeOK, PcValues, KernelPc, Exiting,
      Freed
<1>2. Boot'
  BY <1>t, <1>u, <1>b, SMTT(30) DEF Inv, TypeOK, Boot
<1>3. PidTable'
  BY <1>t, <1>u, <1>b, SMTT(30) DEF Inv, TypeOK, PidTable, Live, LivePc
<1>4. OneContext'
  BY <1>t, <1>u, <1>b, SMTT(30) DEF Inv, TypeOK, OneContext, Context,
      Contexts, KernelPc, Exiting, Freed
<1>5. Family'
  BY <1>t, <1>u, <1>b, SMTT(30) DEF Inv, TypeOK, Family, InUse, Live, Freed
<1>6. Roots'
  BY <1>t, <1>u, <1>b, SMTT(30) DEF Inv, TypeOK, Roots, Live, Exiting, Freed
<1>7. KernelStacks'
  BY <1>t, <1>u, <1>b, SMTT(30) DEF Inv, TypeOK, KernelStacks, StackFor,
      Exiting, Freed
<1>8. MostRecent'
  BY <1>t, <1>u, <1>b, SMTT(30) DEF Inv, TypeOK, MostRecent, Context
<1>9. PageOfCurrent'
  BY <1>t, <1>u, <1>b, SMTT(30) DEF Inv, TypeOK, PageOfCurrent
<1>10. QED
  BY <1>1, <1>2, <1>3, <1>4, <1>5, <1>6, <1>7, <1>8, <1>9 DEF Inv

(* A step that changes no variable preserves Inv.                           *)
LEMMA StutterStep == ASSUME Inv, UNCHANGED vars PROVE Inv'
  BY SMTT(60) DEF Inv, vars, procVars, termVars, TypeOK, Boot, PidTable, OneContext,
     Family, Roots, KernelStacks, MostRecent, PageOfCurrent, Running, Context,
     InUse, Live, StackFor

(* Inv is an invariant of the kernel's process management.                  *)
THEOREM Invariance == Spec => []Inv
<1>1. ASSUME Inv, [Next]_vars PROVE Inv'
  <2>1. CASE BootExecute
    BY <1>1, <2>1, BootExecuteStep
  <2>2. CASE SystemCall
    BY <1>1, <2>2, SystemCallStep
  <2>3. CASE SysReturn
    BY <1>1, <2>3, SysReturnStep
  <2>4. CASE SysExecute
    BY <1>1, <2>4, SysExecuteStep
  <2>5. CASE SysHalt
    BY <1>1, <2>5, SysHaltStep
  <2>6. CASE Exception
    BY <1>1, <2>6, ExceptionStep
  <2>7. CASE Halt
    BY <1>1, <2>7, HaltEsp0Step, HaltRestartStep, HaltClearBitStep,
       HaltUnmapStep, HaltMapStep, HaltRecentStep, HaltLeaveStep DEF Halt
  <2>8. CASE PitTick
    BY <1>1, <2>8, TickTurnOnStep, TickNullPcbStep, TickResumeStep,
       TickLostStackStep DEF PitTick
  <2>9. CASE UNCHANGED vars
    BY <1>1, <2>9, StutterStep
  <2>10. QED
    BY <1>1, <2>1, <2>2, <2>3, <2>4, <2>5, <2>6, <2>7, <2>8, <2>9 DEF Next
<1>2. QED
  BY <1>1, InitInv, PTL DEF Spec

(* The kernel's tables keep their types: no step of execute, halt or the    *)
(* tick stores a NULL pcb or a foreign value where a pid belongs.           *)
THEOREM TypeCorrect == Spec => []TypeOK
<1>1. Inv => TypeOK
  BY DEF Inv
<1>2. QED
  BY <1>1, Invariance, PTL

(* The pid table always agrees with what the processes are doing.           *)
THEOREM PidTableCorrect == Spec => []PidTable
<1>1. Inv => PidTable
  BY DEF Inv
<1>2. QED
  BY <1>1, Invariance, PTL

(* Every terminal that is on has one context, which is its own.             *)
THEOREM OneContextCorrect == Spec => []OneContext
<1>1. Inv => OneContext
  BY DEF Inv
<1>2. QED
  BY <1>1, Invariance, PTL

(* A program that runs has its own kernel stack in the TSS, belongs to the  *)
(* terminal being served, has no child, and, unless a tick tore its child's *)
(* halt, has its own page mapped.                                           *)
THEOREM ProgramsUndisturbed == Spec => []ProgramUndisturbed
<1>1. Inv => ProgramUndisturbed
  <2> SUFFICES ASSUME Inv, Running, pc[curr] = "user"
               PROVE  /\ tss_esp0 = curr
                      /\ pcb_tid[curr] = terminal_num
                      /\ \A p \in Pid : InUse(p) => pcb_parent[p] # curr
                      /\ ~ torn => page = curr
    BY DEF ProgramUndisturbed
  <2>1. tss_esp0 = curr
    BY DEF Inv, KernelStacks, StackFor
  <2>2. pcb_tid[curr] = terminal_num
    BY DEF Inv, TypeOK, OneContext, Context
  <2>3. \A p \in Pid : InUse(p) => pcb_parent[p] # curr
    BY Sentinels DEF Inv, TypeOK, Family
  <2>4. ~ torn => page = curr
    BY DEF Inv, PageOfCurrent
  <2>5. QED
    BY <2>1, <2>2, <2>3, <2>4
<1>2. QED
  BY <1>1, Invariance, PTL

(* A root shell is never taken down, moved to another terminal or given a   *)
(* parent by any step: execute never claims its pid and halt never frees it.*)
THEOREM RootsStayUp == Spec => RootsStay
<1>1. ASSUME Inv, [Next]_vars, NEW p \in Pid, Live(p), pcb_parent[p] = NoPid
      PROVE  (Live(p) /\ pcb_parent[p] = NoPid)' /\ pcb_tid'[p] = pcb_tid[p]
  <2>1. CASE BootExecute \/ SysExecute \/ TickTurnOn
    <3>1. PICK n \in Pid :
            /\ pid_bits[n] = 0 /\ pid_bits' = [pid_bits EXCEPT ![n] = 1]
            /\ \A m \in Pid : m # n => /\ pcb_parent'[m] = pcb_parent[m]
                                      /\ pcb_tid'[m] = pcb_tid[m]
      BY <1>1, <2>1 DEF Inv, TypeOK, BootExecute, SysExecute, TickTurnOn,
         Execute, ExecuteSetup, ExecuteFillPcb, FirstFree
    <3>2. QED
      BY <1>1, <3>1 DEF Inv, TypeOK, Live
  <2>2. CASE HaltClearBit
    <3>1. curr # p
      BY <1>1, <2>2 DEF HaltClearBit, Inv, Roots, TypeOK, Exiting
    <3>2. QED
      BY <1>1, <2>2, <3>1 DEF HaltClearBit, Inv, TypeOK, Live
  <2>3. CASE UNCHANGED procVars
    BY <1>1, <2>3 DEF procVars, Live
  <2>4. BootExecute \/ SysExecute \/ TickTurnOn \/ HaltClearBit \/ UNCHANGED procVars
    BY <1>1 DEF Next, SystemCall, SysReturn, SysHalt, Exception, Halt, HaltEsp0,
       HaltRestart, HaltUnmap, HaltMap, HaltRecent, HaltLeave, PitTick,
       TickNullPcb, TickResume, TickLostStack, vars
  <2>5. QED
    BY <2>1, <2>2, <2>3, <2>4
<1>2. Inv /\ [Next]_vars =>
        [\A p \in Pid : Live(p) /\ pcb_parent[p] = NoPid =>
           (Live(p) /\ pcb_parent[p] = NoPid)' /\ pcb_tid'[p] = pcb_tid[p]]_vars
  BY <1>1
<1>3. QED
  BY <1>2, Invariance, PTL DEF Spec, RootsStay

-----------------------------------------------------------------------------
(* Execute claims a pid that is not live, so the one context it can lose is *)
(* that of a process past line 99 of its halt.                              *)
LEMMA ExecuteLoses ==
  ASSUME Inv, Running, NEW t \in Term, NEW ebp \in [Term -> Pid \cup {Lost}],
         Execute(t, ebp), NEW s \in Term, ebp[s] # Lost, term_ebp'[s] = Lost
  PROVE  ebp[s] \in Pid /\ ~ Live(ebp[s])
<1>1. PICK n \in Pid : pid_bits[n] = 0 /\ term_ebp' = Overwrite(ebp, n)
  BY DEF Execute, ExecuteSetup, FirstFree
<1>2. QED
  BY <1>1 DEF Overwrite, Live, Inv, TypeOK

(* A step by which a terminal's context is lost is one of a process whose   *)
(* halt has given its pid back.                                             *)
LEMMA LossStep ==
  ASSUME Inv, [Next]_vars, NEW t \in Term,
         active[t], Context(t) # Lost, Context(t)' = Lost
  PROVE  pc[Context(t)] \in Freed
<1>1. CASE Running /\ Context(t) \in Pid /\ ~ Live(Context(t))
  BY <1>1 DEF Inv, PidTable, OneContext, LivePc, Contexts, KernelPc,
     Exiting
<1>2. CASE BootExecute
  BY <1>2 DEF BootExecute, Inv, Boot
<1>3. CASE SysExecute
  <2>1. /\ Running /\ Execute(terminal_num, term_ebp) /\ terminal_num \in Term
        /\ term_ebp \in [Term -> Pid \cup {Lost}]
        /\ terminal_num' = terminal_num /\ curr' \in Pid
    BY <1>3 DEF SysExecute, Execute, ExecuteCswitch, Inv, TypeOK
  <2>2. t # terminal_num /\ term_ebp[t] # Lost /\ term_ebp'[t] = Lost
    BY <2>1, Sentinels DEF Context
  <2>3. QED
    BY <1>1, <2>1, <2>2, ExecuteLoses DEF Context
<1>4. CASE TickTurnOn
  <2>1. /\ Running /\ Execute(NextTerminal, SavedEbp) /\ NextTerminal \in Term
        /\ terminal_num' = NextTerminal /\ curr' \in Pid
    BY <1>4, NextInTerm DEF TickTurnOn, SaveTerminal, Execute,
       ExecuteCswitch, Inv, TypeOK
  <2>2. Interrupted \in Pid /\ SavedEbp \in [Term -> Pid \cup {Lost}]
    BY DEF Interrupted, SavedEbp, Inv, TypeOK
  <2>3. SavedEbp[t] = Context(t)
    BY <2>1 DEF SavedEbp, Interrupted, Context, Inv, TypeOK,
       KernelStacks, StackFor
  <2>4. term_ebp'[t] = Lost
    BY <2>1, Sentinels DEF Context
  <2>5. QED
    BY <1>1, <2>1, <2>2, <2>3, <2>4, ExecuteLoses
<1>5. CASE TickNullPcb \/ TickResume \/ TickLostStack
  <2>1. /\ term_ebp' = SavedEbp /\ terminal_num' = NextTerminal
        /\ Interrupted \in Pid
    BY <1>5 DEF TickNullPcb, TickResume, TickLostStack, SaveTerminal,
       Interrupted, Inv, TypeOK
  <2>2. curr' # Lost
    BY <1>5, Sentinels DEF TickNullPcb, TickResume, TickLostStack,
       Inv, TypeOK
  <2>3. t # terminal_num => term_ebp'[t] = term_ebp[t]
    BY <2>1 DEF SavedEbp, Inv, TypeOK
  <2>4. term_ebp'[terminal_num] = Interrupted
    BY <2>1 DEF SavedEbp, Inv, TypeOK
  <2>5. QED
    BY <2>1, <2>2, <2>3, <2>4, Sentinels DEF Context
<1>6. CASE UNCHANGED <<term_ebp, terminal_num>> /\ curr' \in Pid
  BY <1>6, Sentinels DEF Context
<1>7. CASE HaltLeave
  BY <1>7, Sentinels DEF HaltLeave, termVars, Context, Inv, TypeOK,
     Roots, Exiting, Freed
<1>8. QED
  BY <1>2, <1>3, <1>4, <1>5, <1>6, <1>7 DEF Next, SystemCall,
     SysReturn, SysHalt, Exception, Halt, HaltEsp0, HaltRestart,
     HaltClearBit, HaltUnmap, HaltMap, HaltRecent, PitTick, vars, termVars,
     Inv, TypeOK

(* A suspended computation is lost only if the tick cut it inside halt with *)
(* its pid already given back: by a tick that starts a shell, or by the     *)
(* execute of another terminal, which takes that pid.                       *)
THEOREM LostOnlyAfterPid == Spec => LostOnlyInHalt
<1>1. Inv /\ [Next]_vars =>
        [\A t \in Term : active[t] /\ Context(t) # Lost /\ Context(t)' = Lost
                           => pc[Context(t)] \in Freed]_vars
  BY LossStep
<1>2. QED
  BY <1>1, Invariance, PTL DEF Spec, LostOnlyInHalt

-----------------------------------------------------------------------------
(* Why the kernel stops, and what would keep it going.  First, a tick that  *)
(* never comes between line 99 of halt and its return, as after a cli():    *)
(* no suspended terminal is one that has given a pid back, so none is lost, *)
(* and no program goes on with a page that is not its own.                  *)
HaltUncut == [][pc[curr] \in Freed => ~ PitTick]_vars

Uncut ==
  /\ fault # "lost_stack" /\ ~ torn
  /\ Running => \A t \in Term : active[t] =>
       /\ Context(t) # Lost
       /\ t # terminal_num => pc[Context(t)] \notin Freed

(* Only the process that runs goes past line 99, and it keeps the processor *)
(* until it has returned.                                                   *)
LEMMA FreedRuns ==
  ASSUME Inv, Next, pc[curr] \in Freed => ~ PitTick,
         NEW p \in Pid, pc'[p] \in Freed
  PROVE  p = curr' \/ (pc[p] \in Freed /\ p # curr)
<1> USE DEF Freed
<1>t. curr \in Pid /\ pc \in [Pid -> PcValues] /\ tss_esp0 \in Pid
  BY DEF Inv, TypeOK
<1>1. CASE BootExecute \/ SysExecute \/ TickTurnOn
  <2>1. PICK t \in Term, n \in Pid :
          pc' = IF active[t] THEN [pc EXCEPT ![curr] = "exec", ![n] = "user"]
                             ELSE [pc EXCEPT ![n] = "user"]
    <3>1. terminal_num \in Term /\ NextTerminal \in Term
      BY NextInTerm DEF Inv, TypeOK
    <3> QED BY <1>1, <3>1 DEF BootExecute, SysExecute, TickTurnOn, Execute
  <2>2. p # n /\ pc'[p] = pc[p]
    BY <1>t, <2>1
  <2>3. pc[curr] \notin Freed
    BY <1>1 DEF BootExecute, SysExecute, PitTick
  <2> QED BY <2>2, <2>3
<1>2. CASE HaltLeave
  <2>1. pc' = [pc EXCEPT ![curr] = "free", ![pcb_parent[curr]] = "sysret"]
    BY <1>2 DEF HaltLeave
  <2> QED BY <1>t, <2>1
<1>3. CASE SystemCall \/ Exception
  BY <1>t, <1>3 DEF SystemCall, Exception, Goto
<1>4. CASE SysReturn \/ SysHalt \/ HaltEsp0 \/ HaltRestart \/ HaltClearBit
           \/ HaltUnmap \/ HaltMap \/ HaltRecent
  BY <1>t, <1>4 DEF SysReturn, SysHalt, HaltEsp0, HaltRestart, HaltClearBit,
     HaltUnmap, HaltMap, HaltRecent, Goto
<1>5. CASE TickNullPcb \/ TickResume \/ TickLostStack
  BY <1>5 DEF TickNullPcb, TickResume, TickLostStack, PitTick
<1> QED BY <1>1, <1>2, <1>3, <1>4, <1>5 DEF Next, Halt, PitTick

LEMMA UncutStep ==
  ASSUME Inv, Inv', Uncut, [Next]_vars, [pc[curr] \in Freed => ~ PitTick]_vars
  PROVE  Uncut'
<1>1. CASE UNCHANGED vars
  BY <1>1 DEF Uncut, vars, procVars, termVars, Running, Context
<1> SUFFICES ASSUME Next, Running, pc[curr] \in Freed => ~ PitTick PROVE Uncut'
  BY <1>1 DEF Next, BootExecute, SystemCall, SysReturn, SysExecute, SysHalt,
     Exception, Halt, HaltEsp0, HaltRestart, HaltClearBit, HaltUnmap, HaltMap,
     HaltRecent, HaltLeave, PitTick, TickTurnOn, TickNullPcb, TickResume,
     TickLostStack, SaveTerminal
<1>2. \A t \in Term : active[t] /\ t # terminal_num =>
        Context(t) # Lost /\ pc[Context(t)] \notin Freed
  BY DEF Uncut
<1>3. ASSUME NEW p \in Pid, pc[p] \in Freed PROVE p = curr
  <2>1. pc[p] \in Contexts \ {"boot"}
    BY <1>3 DEF Contexts, KernelPc, Exiting, Freed
  <2>2. /\ pcb_tid[p] \in Term /\ active[pcb_tid[p]]
        /\ Context(pcb_tid[p]) = p
    BY <2>1 DEF Inv, TypeOK, OneContext
  <2>3. pcb_tid[p] = terminal_num
    BY <1>2, <1>3, <2>2
  <2> QED BY <2>2, <2>3 DEF Context
<1>4. \A p \in Pid : pc'[p] \in Freed => p = curr'
  BY <1>3, FreedRuns
<1>5. PitTick \/ terminal_num' = terminal_num
  BY DEF Next, BootExecute, SystemCall, SysReturn, SysExecute, SysHalt,
     Exception, Halt, HaltEsp0, HaltRestart, HaltClearBit, HaltUnmap, HaltMap,
     HaltRecent, HaltLeave, termVars
<1>6. ASSUME Running', NEW t \in Term, active'[t] PROVE Context(t)' # Lost
  <2>1. CASE t = terminal_num'
    BY <2>1, Sentinels DEF Context, Inv, TypeOK
  <2>2. CASE t # terminal_num' /\ active[t]
    <3>1. Context(t) # Lost
      BY <1>2, <2>2, Sentinels DEF Context, Inv, TypeOK
    <3>2. pc[Context(t)] \notin Freed
      BY <1>2, <1>5, <2>2 DEF Context
    <3> QED BY <2>2, <3>1, <3>2, LossStep
  <2>3. CASE t # terminal_num' /\ ~ active[t]
    <3>1. active' = active \/ active' = [active EXCEPT ![terminal_num'] = TRUE]
      BY DEF Next, BootExecute, SystemCall, SysReturn, SysExecute, SysHalt,
         Exception, Halt, HaltEsp0, HaltRestart, HaltClearBit, HaltUnmap,
         HaltMap, HaltRecent, HaltLeave, PitTick, TickTurnOn, TickNullPcb,
         TickResume, TickLostStack, SaveTerminal, Execute, termVars
    <3> QED BY <1>6, <2>3, <3>1 DEF Inv, TypeOK
  <2> QED BY <2>1, <2>2, <2>3
<1>7. ASSUME Running', NEW t \in Term, active'[t], t # terminal_num'
      PROVE  pc'[Context(t)'] \notin Freed
  <2>1. SUFFICES ASSUME pc'[Context(t)'] \in Freed PROVE FALSE
    OBVIOUS
  <2>2. Context(t)' = curr' /\ curr' \in Pid
    BY <1>4, <1>6, <1>7, <2>1 DEF Context, Inv, TypeOK
  <2>3. pcb_tid'[curr'] = t
    BY <1>6, <1>7, <2>2 DEF Inv, OneContext
  <2>4. pcb_tid'[curr'] = terminal_num'
    BY <1>7, <2>1, <2>2, Sentinels DEF Inv, TypeOK, OneContext, Context, Freed
  <2> QED BY <1>7, <2>3, <2>4
<1>8. active[NextTerminal] /\ PitTick
        => /\ SavedEbp[NextTerminal] # Lost
           /\ pc[SavedEbp[NextTerminal]] # "recent"
  <2>1. SUFFICES ASSUME active[NextTerminal], PitTick
                 PROVE  SavedEbp[NextTerminal] # Lost
                        /\ pc[SavedEbp[NextTerminal]] # "recent"
    OBVIOUS
  <2>2. NextTerminal \in Term /\ terminal_num \in Term
    BY NextInTerm DEF Inv, TypeOK
  <2>3. CASE NextTerminal = terminal_num
    <3>1. SavedEbp[NextTerminal] = curr
      BY <2>2, <2>3 DEF SavedEbp, Interrupted, Inv, TypeOK, KernelStacks, StackFor
    <3> QED BY <2>1, <3>1, Sentinels DEF Inv, TypeOK, Freed
  <2>4. CASE NextTerminal # terminal_num
    <3>1. SavedEbp[NextTerminal] = Context(NextTerminal)
      BY <2>2, <2>4 DEF SavedEbp, Context, Inv, TypeOK
    <3> QED BY <1>2, <2>1, <2>2, <2>4, <3>1 DEF Freed
  <2> QED BY <2>3, <2>4
<1>9. fault' # "lost_stack" /\ ~ torn'
  <2>1. fault # "lost_stack" /\ ~ torn
    BY DEF Uncut
  <2>2. CASE PitTick
    <3>1. CASE TickTurnOn \/ TickNullPcb
      BY <2>1, <3>1 DEF TickTurnOn, TickNullPcb, Execute, ExecuteSetup
    <3>2. CASE TickResume
      <4>1. torn' = (pc[SavedEbp[NextTerminal]] = "recent") /\ fault' = fault
            /\ active[NextTerminal]
        BY <3>2 DEF TickResume
      <4> QED BY <1>8, <2>1, <2>2, <4>1
    <3>3. CASE TickLostStack
      BY <1>8, <2>2, <3>3 DEF TickLostStack
    <3> QED BY <2>2, <3>1, <3>2, <3>3 DEF PitTick
  <2>3. CASE ~ PitTick
    BY <2>1, <2>3 DEF Next, BootExecute, SystemCall, SysReturn, SysExecute,
       SysHalt, Exception, Halt, HaltEsp0, HaltRestart, HaltClearBit, HaltUnmap,
       HaltMap, HaltRecent, HaltLeave, Execute, ExecuteSetup
  <2> QED BY <2>2, <2>3
<1> QED BY <1>6, <1>7, <1>9 DEF Uncut

(* If no tick cuts halt after line 99, halt always returns to its parent    *)
(* and every program runs on its own page (syscalls.c:97): lines 100-114    *)
(* are all that stands between the code and what its comments say.          *)
THEOREM HaltReturnsUncut == Spec /\ HaltUncut => [](HaltReturns /\ ParentPaging)
<1>1. Init => Uncut
  BY DEF Init, Uncut, Running
<1>2. Inv /\ Inv' /\ Uncut /\ [Next]_vars
        /\ [pc[curr] \in Freed => ~ PitTick]_vars => Uncut'
  BY UncutStep
<1>3. Inv /\ Uncut => HaltReturns /\ ParentPaging
  BY DEF Inv, Uncut, HaltReturns, ParentPaging, PageOfCurrent
<1> QED
  BY <1>1, <1>2, <1>3, Invariance, PTL DEF Spec, HaltUncut

(* Second, shells before programs: until every terminal is on, no program   *)
(* executes another, so no pid is spent but on a root shell.                *)
ShellsFirst == [][SysExecute => \A t \in Term : active[t]]_vars

RootsOnly ==
  /\ fault # "null_pcb"
  /\ Running /\ (\E t \in Term : ~ active[t]) =>
       \A p \in Pid : Live(p) => pcb_parent[p] = NoPid

(* Roots are as few as the terminals that are on.                           *)
LEMMA PidLeft ==
  ASSUME Inv, Running, NumTerminals <= MaxProcessNum, NEW t \in Term, ~ active[t],
         \A p \in Pid : Live(p) => pcb_parent[p] = NoPid
  PROVE  ~ NoneFree
<1> SUFFICES ASSUME NoneFree PROVE FALSE
  OBVIOUS
<1> DEFINE S == Term \ {t}
           f == [p \in Pid |-> pcb_tid[p]]
<1>1. \A p \in Pid : Live(p) /\ pcb_parent[p] = NoPid
  BY DEF NoneFree, Live
<1>2. \A p \in Pid : pcb_tid[p] \in S
  BY <1>1 DEF Inv, TypeOK, Roots
<1>3. \A p, q \in Pid : pcb_tid[p] = pcb_tid[q] => p = q
  BY <1>1 DEF Inv, Roots
<1>4. f \in Injection(Pid, S)
  BY <1>2, <1>3 DEF Injection, IsInjective
<1>5. IsFiniteSet(Term) /\ Cardinality(Term) = NumTerminals
  <2>1. /\ 0 \in Int /\ NumTerminals - 1 \in Int /\ ~ 0 > NumTerminals - 1
        /\ (NumTerminals - 1) - 0 + 1 = NumTerminals
    BY TerminalsAssumption
  <2> QED BY <2>1, FS_Interval DEF Term
<1>6. Cardinality(Pid) = MaxProcessNum
  <2>1. /\ 0 \in Int /\ MaxProcessNum - 1 \in Int /\ ~ 0 > MaxProcessNum - 1
        /\ (MaxProcessNum - 1) - 0 + 1 = MaxProcessNum
    BY ProcessesAssumption
  <2> QED BY <2>1, FS_Interval DEF Pid
<1>7. IsFiniteSet(S) /\ Cardinality(S) = NumTerminals - 1
  BY <1>5, FS_RemoveElement
<1> HIDE DEF f, S
<1>8. Cardinality(Pid) <= Cardinality(S)
  BY <1>4, <1>7, FS_Injection
<1> QED BY <1>6, <1>7, <1>8, TerminalsAssumption, ProcessesAssumption

LEMMA RootsOnlyStep ==
  ASSUME NumTerminals <= MaxProcessNum, Inv, RootsOnly, [Next]_vars,
         [SysExecute => \A t \in Term : active[t]]_vars
  PROVE  RootsOnly'
<1>1. CASE UNCHANGED vars
  BY <1>1 DEF RootsOnly, vars, procVars, termVars, Running, Live
<1>2. CASE TickNullPcb
  <2>1. Running /\ NoneFree /\ ~ active[NextTerminal] /\ NextTerminal \in Term
    BY <1>2, NextInTerm DEF TickNullPcb, SaveTerminal, Inv, TypeOK
  <2> QED BY <2>1, PidLeft DEF RootsOnly
<1>3. ASSUME SysExecute, ~ UNCHANGED vars PROVE RootsOnly'
  <2>1. \A t \in Term : active[t]
    BY <1>3
  <2>2. (\A t \in Term : active'[t]) /\ fault' # "null_pcb"
    BY <1>3, <2>1 DEF SysExecute, Execute, RootsOnly, Inv, TypeOK
  <2> QED BY <2>2 DEF RootsOnly
<1>4. CASE BootExecute \/ TickTurnOn
  <2>1. PICK t \in Term :
          /\ ~ active[t] /\ Running /\ fault' = fault
          /\ \E n \in Pid : /\ pid_bits' = [pid_bits EXCEPT ![n] = 1]
                            /\ pcb_parent' = [pcb_parent EXCEPT ![n] = NoPid]
    BY <1>4, NextInTerm DEF BootExecute, TickTurnOn, SaveTerminal, Execute,
       ExecuteSetup, ExecuteFillPcb, Inv, TypeOK, Boot
  <2> QED BY <2>1 DEF RootsOnly, Live, Inv, TypeOK
<1>5. CASE UNCHANGED <<pcb_parent, active>> /\ fault' # "null_pcb" /\ Running
           /\ \A p \in Pid : pid_bits'[p] = 1 => pid_bits[p] = 1
  BY <1>5 DEF RootsOnly, Live
<1>6. CASE HaltClearBit
  BY <1>5, <1>6 DEF HaltClearBit, procVars, termVars, Inv, TypeOK, RootsOnly
<1>7. CASE SystemCall \/ SysReturn \/ SysHalt \/ Exception \/ HaltEsp0
           \/ HaltRestart \/ HaltUnmap \/ HaltMap \/ HaltRecent \/ HaltLeave
           \/ TickResume \/ TickLostStack
  BY <1>5, <1>7 DEF SystemCall, SysReturn, SysHalt, Exception, HaltEsp0,
     HaltRestart, HaltUnmap, HaltMap, HaltRecent, HaltLeave, TickResume,
     TickLostStack, SaveTerminal, procVars, termVars, RootsOnly, Running
<1> QED BY <1>1, <1>2, <1>3, <1>4, <1>6, <1>7 DEF Next, Halt, PitTick

(* If the pids are at least as many as the terminals and no program is      *)
(* executed before every terminal has its shell, the tick never goes on     *)
(* with a terminal that is off (pit.c:49).                                  *)
THEOREM ShellsStart ==
  ASSUME NumTerminals <= MaxProcessNum
  PROVE  Spec /\ ShellsFirst => []NextTerminalOn
<1>1. Init => RootsOnly
  BY DEF Init, RootsOnly, Live
<1>2. Inv /\ RootsOnly /\ [Next]_vars
        /\ [SysExecute => \A t \in Term : active[t]]_vars => RootsOnly'
  BY RootsOnlyStep
<1>3. RootsOnly => NextTerminalOn
  BY DEF RootsOnly, NextTerminalOn
<1> QED
  BY <1>1, <1>2, <1>3, Invariance, PTL DEF Spec, ShellsFirst

-----------------------------------------------------------------------------
(* Tasks implements Programs.  The abstract top of a terminal is a CHOOSE:  *)
(* that there is one candidate and no other is an invariant of its own,     *)
(* whether or not the terminal's context was lost.                          *)
OneTop == \A t \in Term : active[t] =>
            \E p \in Pid : IsTop(t, p) /\ \A q \in Pid : IsTop(t, q) => q = p

TopPid(t, p) == p \in Pid /\ IsTop(t, p) /\ \A q \in Pid : IsTop(t, q) => q = p

(* The one topmost program is what TopOf finds.                             *)
LEMMA TopFound ==
  ASSUME NEW t, active[t], NEW p, TopPid(t, p)
  PROVE  TopOf(t) = p
  BY DEF TopPid, TopOf

LEMMA TopFoundNext ==
  ASSUME NEW t, active'[t], NEW p, TopPid(t, p)'
  PROVE  TopOf(t)' = p
  BY DEF TopPid, TopOf

LEMMA TopExists ==
  ASSUME OneTop, NEW t \in Term, active[t]
  PROVE  \E p \in Pid : TopPid(t, p)
  BY DEF OneTop, TopPid

(* The program that runs in the kernel with its pid taken is the top of its *)
(* terminal: whoever has a child waits in execute.                          *)
LEMMA RunningIsTop ==
  ASSUME Inv, OneTop, Running, Live(curr), pc[curr] # "exec"
  PROVE  active[terminal_num] /\ TopPid(terminal_num, curr)
<1>1. curr \in Pid /\ terminal_num \in Term /\ pc[curr] # "boot"
  BY DEF Inv, TypeOK, PidTable, LivePc
<1>2. active[terminal_num] /\ pcb_tid[curr] = terminal_num
  BY <1>1, Sentinels DEF Inv, OneContext, Context
<1>3. \A q \in Pid : Live(q) => pcb_parent[q] # curr
  BY <1>1, Sentinels DEF Inv, Family, InUse
<1>4. IsTop(terminal_num, curr)
  BY <1>1, <1>2, <1>3 DEF IsTop
<1>5. QED
  BY <1>1, <1>2, <1>4 DEF OneTop, TopPid

(* What execute does to the tables that the abstraction reads.              *)
Claims(t, n) ==
  /\ ~ Live(n) /\ pid_bits' = [pid_bits EXCEPT ![n] = 1]
  /\ pcb_parent' = [pcb_parent EXCEPT ![n] = IF active[t] THEN curr ELSE NoPid]
  /\ pcb_tid' = [pcb_tid EXCEPT ![n] = t]
  /\ active' = [active EXCEPT ![t] = TRUE]

(* An execute on the scheduler's terminal is by its topmost program.        *)
ClaimedBy(t) == active[t] => Live(curr) /\ pc[curr] # "exec" /\ t = terminal_num

(* No live process has a parent whose pid is free.                          *)
LEMMA ParentsLive ==
  ASSUME Inv, Running, NEW q \in Pid, Live(q), pcb_parent[q] # NoPid
  PROVE  Live(pcb_parent[q])
  BY DEF Inv, TypeOK, Family, InUse, PidTable, LivePc

(* The program just started is the top of its terminal; the others keep     *)
(* theirs.                                                                  *)
LEMMA ClaimTops ==
  ASSUME Inv, OneTop, Running, NEW t \in Term, NEW n \in Pid, Claims(t, n),
         ClaimedBy(t)
  PROVE  /\ TopPid(t, n)'
         /\ \A s \in Term : s # t =>
              \A p \in Pid : TopPid(s, p) => TopPid(s, p)'
         /\ OneTop'
<1> USE Sentinels
<1>1. /\ \A q \in Pid : Live(q)' <=> Live(q) \/ q = n
      /\ \A q \in Pid : q # n => /\ pcb_parent'[q] = pcb_parent[q]
                                /\ pcb_tid'[q] = pcb_tid[q]
      /\ pcb_tid'[n] = t
      /\ pcb_parent'[n] = IF active[t] THEN curr ELSE NoPid
      /\ curr \in Pid
  BY DEF Claims, Live, Inv, TypeOK
<1>2. \A q \in Pid : Live(q) => q # n /\ pcb_parent[q] # n
  BY ParentsLive DEF Claims
<1>3. \A q \in Pid : Live(q)' => pcb_parent'[q] # n
  <2>1. active[t] => curr # n
    BY DEF ClaimedBy, Claims
  <2>2. QED
    BY <1>1, <1>2, <2>1
<1>4. IsTop(t, n)'
  BY <1>1, <1>3 DEF IsTop
<1>5. ASSUME NEW q \in Pid, IsTop(t, q)' PROVE q = n
  <2> SUFFICES ASSUME q # n PROVE FALSE
    OBVIOUS
  <2>1. /\ Live(q) /\ pcb_tid[q] = t
        /\ \A r \in Pid : Live(r) => pcb_parent[r] # q
    BY <1>1, <1>2, <1>5 DEF IsTop
  <2>2. active[t]
    BY <2>1 DEF Inv, Roots
  <2>3. TopPid(t, curr)
    BY <2>2, RunningIsTop DEF ClaimedBy
  <2>4. q = curr
    BY <2>1, <2>3 DEF TopPid, IsTop
  <2>5. QED
    BY <1>1, <1>5, <2>2, <2>4 DEF IsTop
<1>6. TopPid(t, n)'
  BY <1>4, <1>5 DEF TopPid
<1>7. ASSUME NEW s \in Term, s # t, NEW p \in Pid
      PROVE  IsTop(s, p)' <=> IsTop(s, p)
  <2>1. CASE p = n
    BY <1>1, <1>7, <2>1 DEF IsTop, Claims
  <2>2. CASE p # n /\ ~ (active[t] /\ p = curr)
    BY <1>1, <1>2, <2>2 DEF IsTop
  <2>3. CASE p # n /\ active[t] /\ p = curr
    <3>1. pcb_tid[curr] = t
      BY <2>3, RunningIsTop DEF ClaimedBy, TopPid, IsTop
    <3>2. QED
      BY <1>1, <1>7, <2>3, <3>1 DEF IsTop
  <2>4. QED
    BY <2>1, <2>2, <2>3
<1>8. \A s \in Term : s # t => \A p \in Pid : TopPid(s, p) => TopPid(s, p)'
  BY <1>7 DEF TopPid
<1>9. OneTop'
  <2> SUFFICES ASSUME NEW s \in Term, active'[s]
               PROVE  \E p \in Pid : TopPid(s, p)'
    BY DEF OneTop, TopPid
  <2>1. CASE s = t
    BY <1>6, <2>1
  <2>2. CASE s # t
    <3>1. active[s]
      BY <2>2 DEF Claims, Inv, TypeOK
    <3>2. PICK p \in Pid : TopPid(s, p)
      BY <3>1, TopExists
    <3>3. QED
      BY <1>8, <2>2, <3>2
  <2>3. QED
    BY <2>1, <2>2
<1>10. QED
  BY <1>6, <1>8, <1>9

(* Line 99 of halt takes the topmost program off its terminal: the parent,  *)
(* which waited for this child alone, is the top again.                     *)
LEMMA ExitTops ==
  ASSUME Inv, OneTop, HaltClearBit,
         NEW t, t = terminal_num, NEW u, u = pcb_parent[curr]
  PROVE  /\ active[t] /\ TopPid(t, curr) /\ u \in Pid /\ TopPid(t, u)'
         /\ \A s \in Term : s # t =>
              \A p \in Pid : TopPid(s, p) => TopPid(s, p)'
         /\ OneTop'
<1> USE Sentinels
<1>1. /\ Running /\ pc[curr] = "clear_bit" /\ curr \in Pid
      /\ t \in Term
      /\ UNCHANGED <<pcb_parent, pcb_tid, active>>
      /\ \A q \in Pid : Live(q)' <=> Live(q) /\ q # curr
  BY DEF HaltClearBit, termVars, Inv, TypeOK, Live
<1>2. Live(curr)
  BY <1>1 DEF Inv, PidTable, LivePc
<1>3. active[t] /\ TopPid(t, curr)
  BY <1>1, <1>2, RunningIsTop
<1>4. u # NoPid /\ u \in Pid
  BY <1>1 DEF Inv, TypeOK, Roots, Exiting
<1>5. /\ pc[u] = "exec" /\ u # curr /\ pcb_tid[u] = pcb_tid[curr]
      /\ \A r \in Pid : Live(r) /\ pcb_parent[r] = u => r = curr
  BY <1>1, <1>2, <1>4 DEF Inv, Family, InUse
<1>6. Live(u)
  BY <1>1, <1>4, <1>5 DEF Inv, PidTable, LivePc
<1>7. IsTop(t, u)'
  BY <1>1, <1>3, <1>4, <1>5, <1>6 DEF IsTop, TopPid
<1>8. ASSUME NEW q \in Pid, IsTop(t, q)' PROVE q = u
  <2>1. Live(q) /\ q # curr /\ pcb_tid[q] = t
    BY <1>1, <1>8 DEF IsTop
  <2>2. ~ IsTop(t, q)
    BY <1>3, <2>1 DEF TopPid
  <2>3. PICK r \in Pid : Live(r) /\ pcb_parent[r] = q
    BY <2>1, <2>2 DEF IsTop
  <2>4. r = curr
    BY <1>1, <1>8, <2>3 DEF IsTop
  <2>5. QED
    BY <2>3, <2>4
<1>9. TopPid(t, u)'
  BY <1>1, <1>4, <1>7, <1>8 DEF TopPid
<1>10. ASSUME NEW s \in Term, s # t, NEW p \in Pid
       PROVE  IsTop(s, p)' <=> IsTop(s, p)
  <2>1. p # curr \/ ~ IsTop(s, p)
    BY <1>3, <1>10 DEF TopPid, IsTop
  <2>2. pcb_tid[p] = s => p # u
    BY <1>3, <1>5, <1>10 DEF TopPid, IsTop
  <2>3. QED
    BY <1>1, <1>2, <2>1, <2>2 DEF IsTop
<1>11. \A s \in Term : s # t =>
         \A p \in Pid : TopPid(s, p) => TopPid(s, p)'
  BY <1>10 DEF TopPid
<1>12. OneTop'
  <2> SUFFICES ASSUME NEW s \in Term, active'[s]
               PROVE  \E p \in Pid : TopPid(s, p)'
    BY DEF OneTop, TopPid
  <2>1. CASE s = t
    BY <1>4, <1>9, <2>1
  <2>2. CASE s # t
    <3>1. PICK p \in Pid : TopPid(s, p)
      BY <1>1, TopExists
    <3>2. QED
      BY <1>11, <2>2, <3>1
  <2>3. QED
    BY <2>1, <2>2
<1>13. QED
  BY <1>3, <1>4, <1>9, <1>11, <1>12

(* The abstract state: the substitution of MCTasks.                         *)
AbsTop == [t \in Term |-> TopOf(t)]
AbsUnder == [p \in Pid |-> UnderOf(p)]

(* Terminals whose top and whose being on a step keeps keep their abstract  *)
(* top.                                                                     *)
LEMMA TopKept ==
  ASSUME OneTop, NEW s \in Term, active'[s] = active[s],
         \A p \in Pid : TopPid(s, p) => TopPid(s, p)'
  PROVE  TopOf(s)' = TopOf(s)
<1>1. CASE active[s]
  <2>1. PICK p \in Pid : TopPid(s, p)
    BY <1>1, TopExists
  <2>2. TopOf(s) = p
    BY <1>1, <2>1, TopFound
  <2>3. TopOf(s)' = p
    BY <1>1, <2>1, TopFoundNext
  <2>4. QED
    BY <2>2, <2>3
<1>2. CASE ~ active[s]
  BY <1>2 DEF TopOf
<1>3. QED
  BY <1>1, <1>2

(* A successful execute is the Start of a shell or the Spawn of a program.  *)
LEMMA ClaimMaps ==
  ASSUME Inv, OneTop, Running, NEW t \in Term, NEW n \in Pid, Claims(t, n),
         ClaimedBy(t)
  PROVE  P!Start(t, n) \/ P!Spawn(t, n)
<1> USE Sentinels
<1>1. /\ TopPid(t, n)'
      /\ \A s \in Term : s # t =>
           \A p \in Pid : TopPid(s, p) => TopPid(s, p)'
  BY ClaimTops
<1>2. active'[t] /\ \A s \in Term : s # t => active'[s] = active[s]
  BY DEF Claims, Inv, TypeOK
<1>3. TopOf(t)' = n
  BY <1>1, <1>2, TopFoundNext
<1>4. \A s \in Term : s # t => TopOf(s)' = TopOf(s)
  BY <1>1, <1>2, TopKept
<1>5. AbsTop' = [AbsTop EXCEPT ![t] = n]
  BY <1>3, <1>4 DEF AbsTop
<1>6. UnderOf(n) = Unused
  BY DEF UnderOf, Claims
<1>7. /\ UnderOf(n)' = IF active[t] THEN curr ELSE NoPid
      /\ \A q \in Pid : q # n => UnderOf(q)' = UnderOf(q)
  BY DEF UnderOf, Claims, Live, Inv, TypeOK
<1>8. CASE active[t]
  <2>1. TopOf(t) = curr /\ curr \in Pid
    BY <1>8, RunningIsTop, TopFound DEF ClaimedBy, Inv, TypeOK
  <2>2. AbsTop[t] # NoPid /\ AbsUnder[n] = Unused
    BY <1>6, <2>1 DEF AbsTop, AbsUnder
  <2>3. AbsUnder' = [AbsUnder EXCEPT ![n] = AbsTop[t]]
    BY <1>7, <1>8, <2>1 DEF AbsUnder, AbsTop
  <2>4. P!Spawn(t, n)
    BY <1>5, <2>2, <2>3 DEF P!Spawn, AbsTop, AbsUnder
  <2>5. QED
    BY <2>4
<1>9. CASE ~ active[t]
  <2>1. AbsTop[t] = NoPid /\ AbsUnder[n] = Unused
    BY <1>6, <1>9 DEF AbsTop, AbsUnder, TopOf
  <2>2. AbsUnder' = [AbsUnder EXCEPT ![n] = NoPid]
    BY <1>7, <1>9 DEF AbsUnder
  <2>3. P!Start(t, n)
    BY <1>5, <2>1, <2>2 DEF P!Start, AbsTop, AbsUnder
  <2>4. QED
    BY <2>3
<1>10. QED
  BY <1>8, <1>9

(* Line 99 of halt is the Exit of the scheduler's terminal.                 *)
LEMMA ExitMaps ==
  ASSUME Inv, OneTop, HaltClearBit, NEW t, t = terminal_num
  PROVE  t \in Term /\ P!Exit(t)
<1> USE Sentinels
<1>1. PICK u : u = pcb_parent[curr]
  OBVIOUS
<1>2. /\ active[t] /\ TopPid(t, curr) /\ u \in Pid /\ TopPid(t, u)'
      /\ \A s \in Term : s # t =>
           \A p \in Pid : TopPid(s, p) => TopPid(s, p)'
  BY <1>1, ExitTops
<1>3. t \in Term /\ active' = active /\ pcb_parent' = pcb_parent /\ curr \in Pid
  BY DEF HaltClearBit, termVars, Inv, TypeOK
<1>4. TopOf(t) = curr /\ TopOf(t)' = u
  BY <1>2, <1>3, TopFound, TopFoundNext
<1>5. \A s \in Term : s # t => TopOf(s)' = TopOf(s)
  BY <1>2, <1>3, TopKept
<1>6. UnderOf(curr) = u
  BY <1>1, <1>2 DEF UnderOf, TopPid, IsTop
<1>7. \A q \in Pid : UnderOf(q)' = IF q = curr THEN Unused ELSE UnderOf(q)
  BY <1>3 DEF UnderOf, HaltClearBit, Live, Inv, TypeOK
<1>8. AbsTop[t] = curr /\ AbsUnder[AbsTop[t]] = u
  BY <1>3, <1>4, <1>6 DEF AbsTop, AbsUnder
<1>9. AbsTop' = [AbsTop EXCEPT ![t] = AbsUnder[AbsTop[t]]]
  BY <1>4, <1>5, <1>8 DEF AbsTop
<1>10. AbsUnder' = [AbsUnder EXCEPT ![AbsTop[t]] = Unused]
  BY <1>3, <1>7, <1>8 DEF AbsUnder
<1>11. P!Exit(t)
  BY <1>2, <1>3, <1>8, <1>9, <1>10 DEF P!Exit, AbsTop, AbsUnder
<1>12. QED
  BY <1>3, <1>11

(* Every step is a claim by a running program or for a terminal that is     *)
(* off, line 99 of halt, or leaves what the abstraction reads alone.        *)
LEMMA StepKinds ==
  ASSUME Inv, [Next]_vars
  PROVE  \/ Running /\ \E t \in Term, n \in Pid : Claims(t, n) /\ ClaimedBy(t)
         \/ HaltClearBit
         \/ UNCHANGED <<pid_bits, pcb_parent, pcb_tid, active>>
<1>1. ASSUME NEW t \in Term, NEW ebp, Execute(t, ebp),
             active[t] => Live(curr) /\ pcb_tid[curr] = t
      PROVE  \E n \in Pid : Claims(t, n)
  <2>1. PICK n \in Pid : Execute(t, ebp)!(n)
    BY <1>1 DEF Execute
  <2>2. ExecuteSetup(n) /\ ExecuteFillPcb(t, n) /\ active' = [active EXCEPT ![t] = TRUE]
    BY <2>1
  <2>3. ~ Live(n) /\ pid_bits' = [pid_bits EXCEPT ![n] = 1]
    BY <2>2 DEF ExecuteSetup, FirstFree, Live
  <2>4. (IF active[t] THEN pcb_tid[curr] ELSE t) = t
    BY <1>1
  <2>5. /\ pcb_parent' = [pcb_parent EXCEPT ![n] = IF active[t] THEN curr ELSE NoPid]
        /\ pcb_tid' = [pcb_tid EXCEPT ![n] = t]
    BY <2>2, <2>4 DEF ExecuteFillPcb
  <2>6. QED
    BY <2>2, <2>3, <2>5 DEF Claims
<1>2. CASE BootExecute
  <2>1. Running /\ terminal_num \in Term /\ ~ active[terminal_num]
    BY <1>2 DEF BootExecute, Inv, TypeOK, Boot
  <2>2. QED
    BY <1>1, <1>2, <2>1 DEF BootExecute, ClaimedBy
<1>3. CASE SysExecute
  <2>1. /\ Running /\ terminal_num \in Term /\ pc[curr] = "sys" /\ Live(curr)
        /\ pcb_tid[curr] = terminal_num
    BY <1>3 DEF SysExecute, Inv, TypeOK, PidTable, LivePc, OneContext, Context
  <2>2. QED
    BY <1>1, <1>3, <2>1 DEF SysExecute, ClaimedBy
<1>4. CASE TickTurnOn
  <2>1. Running /\ NextTerminal \in Term /\ ~ active[NextTerminal]
    BY <1>4, NextInTerm DEF TickTurnOn, SaveTerminal, Inv, TypeOK
  <2>2. QED
    BY <1>1, <1>4, <2>1 DEF TickTurnOn, ClaimedBy
<1>5. QED
  BY <1>2, <1>3, <1>4 DEF Next, SystemCall, SysReturn, SysHalt, Exception,
     Halt, HaltEsp0, HaltRestart, HaltUnmap, HaltMap, HaltRecent, HaltLeave,
     PitTick, TickNullPcb, TickResume, TickLostStack, vars, procVars, termVars

(* Steps that leave the tables alone stutter.                               *)
LEMMA TablesKept ==
  ASSUME UNCHANGED <<pid_bits, pcb_parent, pcb_tid, active>>
  PROVE  (OneTop => OneTop') /\ UNCHANGED <<AbsTop, AbsUnder>>
<1>1. \A t \in Term, p \in Pid : IsTop(t, p)' <=> IsTop(t, p)
  BY DEF IsTop, Live
<1>2. OneTop => OneTop'
  BY <1>1 DEF OneTop
<1>3. \A t \in Term : TopOf(t)' = TopOf(t)
  BY DEF TopOf, IsTop, Live
<1>4. \A p \in Pid : UnderOf(p)' = UnderOf(p)
  BY DEF UnderOf, Live
<1>5. QED
  BY <1>2, <1>3, <1>4 DEF AbsTop, AbsUnder

(* Every terminal that is on has one topmost program, always: also one      *)
(* whose context a tick inside halt has lost.                               *)
LEMMA OneTopInvariant == Spec => []OneTop
<1>1. Init => OneTop
  BY DEF Init, OneTop
<1>2. ASSUME Inv, OneTop, [Next]_vars PROVE OneTop'
  BY <1>2, StepKinds, ClaimTops, ExitTops, TablesKept
<1>3. QED
  BY <1>1, <1>2, Invariance, PTL DEF Spec

(* execute and halt, whatever ticks interleave, start, stack and end        *)
(* programs as Programs says: a claim of a pid is a Start or a Spawn, line  *)
(* 99 of halt is an Exit, every other step of the kernel a stutter.         *)
THEOREM TasksImplementPrograms == Spec => ImplementsPrograms
<1>1. Init => P!Init
  BY DEF Init, P!Init, TopOf, UnderOf, Live
<1>2. ASSUME Inv, OneTop, [Next]_vars
      PROVE  P!Next \/ UNCHANGED <<AbsTop, AbsUnder>>
  <2>1. CASE Running /\ \E t \in Term, n \in Pid : Claims(t, n) /\ ClaimedBy(t)
    BY <1>2, <2>1, ClaimMaps DEF P!Next
  <2>2. CASE HaltClearBit
    <3>1. PICK t : t = terminal_num
      OBVIOUS
    <3>2. QED
      BY <1>2, <2>2, <3>1, ExitMaps DEF P!Next
  <2>3. CASE UNCHANGED <<pid_bits, pcb_parent, pcb_tid, active>>
    BY <2>3, TablesKept
  <2>4. QED
    BY <1>2, <2>1, <2>2, <2>3, StepKinds
<1>3. Inv /\ OneTop /\ [Next]_vars =>
        [P!Next]_<<[t \in Term |-> TopOf(t)], [p \in Pid |-> UnderOf(p)]>>
  BY <1>2 DEF AbsTop, AbsUnder
<1>4. QED
  BY <1>1, <1>3, Invariance, OneTopInvariant, PTL
     DEF Spec, ImplementsPrograms, P!Spec
=============================================================================
