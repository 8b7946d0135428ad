-------------------------------- MODULE Pic --------------------------------
(***************************************************************************)
(* Pic: the two interrupt controllers as the kernel drives them (i8259.c), *)
(* the boot code that sets their masks, and the three interrupt handlers   *)
(* (interrupt_handler.c) on the stacks of the terminals.                   *)
(*                                                                         *)
(* A mask is the set of masked lines: the shifts of enable_irq and         *)
(* disable_irq make a mask of one line.  The gates are trap gates, so a    *)
(* handler may be cut between its entry and its cli; from there to its EOI *)
(* nothing cuts it, and what it does then is in the other modules.         *)
(***************************************************************************)
EXTENDS Integers, Sequences

CONSTANTS NUM_TERMINALS,
          FirmwareMasks    \* the masks the firmware may leave, [master, slave]

ASSUME TerminalsAssumption == NUM_TERMINALS \in Nat \ {0}
Lines == 0 .. 7
ASSUME FirmwareAssumption ==
  FirmwareMasks \subseteq [master : SUBSET Lines, slave : SUBSET Lines]

Term == 0 .. NUM_TERMINALS - 1
PIT_IRQ == 0
KEYBOARD_IRQ == 1
EOI_NUM == 2
IRQ8 == 8
SLAVE_BOUNDARY == 8
RTC_PORT == 112            \* 0x70, what rtc.c passes as its irq
Irqs == {PIT_IRQ, KEYBOARD_IRQ, IRQ8}

VARIABLES
  stage,          \* how far kernel.c's entry has come
  mask,           \* master_mask and slave_mask
  imr,            \* the mask registers of the controllers
  irr,            \* the interrupts raised and not yet delivered
  isr,            \* the lines in service, of the master and of the slave
  special_mask,   \* the master is in special mask mode
  terminal_num,
  entered         \* the handlers entered on each terminal's stack, not yet at cli

vars == <<stage, mask, imr, irr, isr, special_mask, terminal_num, entered>>

Init ==
  /\ stage = "idt"
  /\ mask = [master |-> Lines, slave |-> Lines]
  /\ imr \in FirmwareMasks
  /\ irr = {}
  /\ isr = [master |-> {}, slave |-> {}]
  /\ special_mask = FALSE
  /\ terminal_num = 0
  /\ entered = [t \in Term |-> <<>>]

-----------------------------------------------------------------------------
(* enable_irq and disable_irq change the kernel's mask of the controller    *)
(* that has the line and write it; other numbers are ignored.               *)

(* A mutant: the mask is computed as disable_irq computes it.               *)
EnableMasksOthers(m, irq) ==
  CASE irq \in Lines -> [m EXCEPT !.master = Lines \ {irq}]
    [] irq - SLAVE_BOUNDARY \in Lines -> [m EXCEPT !.slave = Lines \ {irq - SLAVE_BOUNDARY}]
    [] OTHER -> m

Enable(m, irq) ==
  CASE irq \in Lines -> [m EXCEPT !.master = @ \ {irq}]
    [] irq - SLAVE_BOUNDARY \in Lines -> [m EXCEPT !.slave = @ \ {irq - SLAVE_BOUNDARY}]
    [] OTHER -> m
Disable(m, irq) ==
  CASE irq \in Lines -> [m EXCEPT !.master = @ \cup {irq}]
    [] irq - SLAVE_BOUNDARY \in Lines -> [m EXCEPT !.slave = @ \cup {irq - SLAVE_BOUNDARY}]
    [] OTHER -> m
Written(m, irq) ==
  CASE irq \in Lines -> [imr EXCEPT !.master = m.master]
    [] irq - SLAVE_BOUNDARY \in Lines -> [imr EXCEPT !.slave = m.slave]
    [] OTHER -> imr

Boots(from, to) == stage = from /\ stage' = to
noIrq == <<irr, isr, special_mask, terminal_num, entered>>

(* The masks the firmware left are written back after enable_irq's.         *)
I8259Init ==
  /\ Boots("idt", "pic")
  /\ mask' = Enable(mask, 2)
  /\ UNCHANGED <<imr, noIrq>>

KeyboardInit ==
  /\ Boots("pic", "keyboard")
  /\ mask' = Enable(mask, KEYBOARD_IRQ)
  /\ imr' = Written(mask', KEYBOARD_IRQ)
  /\ UNCHANGED noIrq

RtcInit ==
  /\ Boots("keyboard", "rtc")
  /\ mask' = Enable(Disable(Enable(mask, RTC_PORT), RTC_PORT), RTC_PORT)
  /\ imr' = Written(mask', RTC_PORT)
  /\ UNCHANGED noIrq

(* pit_init, and sti.                                                       *)
PitInit ==
  /\ Boots("rtc", "up")
  /\ mask' = Enable(mask, PIT_IRQ)
  /\ imr' = Written(mask', PIT_IRQ)
  /\ UNCHANGED noIrq

-----------------------------------------------------------------------------
Line(irq) == IF irq >= SLAVE_BOUNDARY THEN 2 ELSE irq
sameMasks == <<stage, mask, imr>>

(* A device asks for service; the request is kept until it is delivered.    *)
Raise(irq) ==
  /\ stage = "up" /\ irq \notin irr
  /\ irr' = irr \cup {irq}
  /\ UNCHANGED <<isr, special_mask, terminal_num, entered, sameMasks>>

(* The master delivers a line that is not masked if none of its priority or *)
(* a higher one is in service; in special mask mode a masked one does not   *)
(* count.                                                                   *)
Blocking == isr.master \ (IF special_mask THEN imr.master ELSE {})
Deliver(irq) ==
  /\ irq \in irr /\ Line(irq) \notin imr.master
  /\ \A line \in Blocking : line > Line(irq)
  /\ irq >= SLAVE_BOUNDARY =>
       irq - SLAVE_BOUNDARY \notin imr.slave \cup isr.slave
  /\ irr' = irr \ {irq}
  /\ isr' = [master |-> isr.master \cup {Line(irq)},
             slave |-> isr.slave \cup
                         (IF irq >= SLAVE_BOUNDARY THEN {irq - SLAVE_BOUNDARY} ELSE {})]
  /\ entered' = [entered EXCEPT ![terminal_num] = Append(@, irq)]
  /\ UNCHANGED <<special_mask, terminal_num, sameMasks>>

(* send_eoi.  For a line of the slave it calls itself for the cascade and   *)
(* then writes 0x60 | 8 to the master: the command for special mask mode.   *)
(* Mutants: the cascade's EOI is left out; everything is ended.             *)
EndedSlaveOnly(irq) ==
  IF irq >= SLAVE_BOUNDARY THEN [isr EXCEPT !.slave = @ \ {irq - SLAVE_BOUNDARY}]
  ELSE [isr EXCEPT !.master = @ \ {irq}]
EndedAll(irq) == [master |-> {}, slave |-> {}]
Ended(irq) ==
  IF irq >= SLAVE_BOUNDARY
  THEN [master |-> isr.master \ {EOI_NUM}, slave |-> isr.slave \ {irq - SLAVE_BOUNDARY}]
  ELSE [isr EXCEPT !.master = @ \ {irq}]
SendEoi(irq) ==
  /\ isr' = Ended(irq)
  /\ special_mask' = (special_mask \/ irq >= SLAVE_BOUNDARY)

(* The handler, from its cli: EOI, and the PIT's goes to the next terminal. *)
(* The second EOI of rtc_handler and of pit_handler finds nothing to end.   *)
(* A mutant: the number of the next terminal stops at the last.             *)
NextStopsAtLast(t) == IF t + 1 < NUM_TERMINALS THEN t + 1 ELSE t
NextTerm(t) == (t + 1) % NUM_TERMINALS
Handle(t, irq) ==
  /\ t = terminal_num /\ entered[t] # <<>> /\ entered[t][Len(entered[t])] = irq
  /\ SendEoi(irq)
  /\ entered' = [entered EXCEPT ![t] = SubSeq(@, 1, Len(@) - 1)]
  /\ terminal_num' = IF irq = PIT_IRQ THEN NextTerm(t) ELSE t
  /\ UNCHANGED <<irr, sameMasks>>

Boot == I8259Init \/ KeyboardInit \/ RtcInit \/ PitInit
Next ==
  \/ Boot
  \/ \E irq \in Irqs : Raise(irq) \/ Deliver(irq) \/ \E t \in Term : Handle(t, irq)

(* The boot code runs on and the PIT ticks.  An interrupt waits for an      *)
(* instruction boundary with interrupts on and for the lines before it:     *)
(* those come at 50 Hz and at the speed of a typist, so it is delivered in  *)
(* between.  A tick cannot come before every instruction of a terminal: its *)
(* slice is 20 ms.                                                          *)
Fairness ==
  /\ WF_vars(Boot) /\ WF_vars(Raise(PIT_IRQ))
  /\ \A irq \in Irqs : SF_vars(Deliver(irq))
  /\ \A t \in Term, irq \in Irqs : SF_vars(Handle(t, irq))

Spec == Init /\ [][Next]_vars
FairSpec == Spec /\ Fairness

-----------------------------------------------------------------------------
TypeOK ==
  /\ stage \in {"idt", "pic", "keyboard", "rtc", "up"}
  /\ mask \in [master : SUBSET Lines, slave : SUBSET Lines]
  /\ imr \in [master : SUBSET Lines, slave : SUBSET Lines]
  /\ irr \subseteq Irqs
  /\ isr \in [master : SUBSET Lines, slave : SUBSET Lines]
  /\ special_mask \in BOOLEAN
  /\ terminal_num \in Term
  /\ entered \in [Term -> Seq(Irqs)]

(* Every EOI ends the interrupt it is for and no other: the lines in        *)
(* service are those of the handlers that were entered and have not yet     *)
(* sent theirs, on whatever terminal's stack a tick has left them.          *)
Entered == {irq \in Irqs : \E t \in Term : \E i \in 1 .. Len(entered[t]) : entered[t][i] = irq}
InServiceExact ==
  /\ isr.master = {Line(irq) : irq \in Entered}
  /\ isr.slave = {irq - SLAVE_BOUNDARY : irq \in Entered \cap {IRQ8}}

(* No interrupt is handled inside a handler of its own priority or of a     *)
(* higher one, nor on two terminals at once.                                *)
Nested ==
  /\ \A t \in Term : \A i, j \in 1 .. Len(entered[t]) :
       i < j => Line(entered[t][j]) < Line(entered[t][i])
  /\ \A t, u \in Term : \A i \in 1 .. Len(entered[t]), j \in 1 .. Len(entered[u]) :
       entered[t][i] = entered[u][j] => t = u

Inv == TypeOK /\ InServiceExact /\ Nested

(* Each driver's enable_irq leaves the lines of the others: when interrupts *)
(* are turned on, PIT, keyboard and cascade are unmasked and the rest of    *)
(* the master is masked, whatever the firmware left.                        *)
LinesOn == stage = "up" => imr.master = Lines \ {PIT_IRQ, KEYBOARD_IRQ, 2}

(* A raised interrupt is delivered, and handlers cut at their entry end.    *)
Delivered == \A irq \in Irqs : irq \in irr ~> irq \notin irr
HandlersEnd == \A t \in Term : entered[t] # <<>> ~> entered[t] = <<>>

-----------------------------------------------------------------------------
(* rtc.c:16 rtc_init is to "-enable interrupts" and rtc.c:28 calls          *)
(* enable_irq for it: when interrupts are turned on, IRQ 8 is unmasked.     *)
RtcEnabled == stage = "up" => IRQ8 - SLAVE_BOUNDARY \notin imr.slave
=============================================================================
