-------------------------------- MODULE Rtc --------------------------------
(***************************************************************************)
(* Rtc: the driver of the real-time clock (rtc.c) and the chip behind its  *)
(* index and data ports.                                                   *)
(*                                                                         *)
(* System calls run with interrupts on and enable_irq and disable_irq do   *)
(* nothing for 0x70 (module Pic), so each port access of rtc_open and      *)
(* rtc_write is a step of its own, between which a tick may bring another  *)
(* process and the RTC its handler.  What a call has still to do is a      *)
(* sequence of accesses.  The handler runs at its cli, perhaps only after  *)
(* ticks, on the process that it interrupted, and then as a whole.         *)
(*                                                                         *)
(* A register is its value without bit 7: no step reads that of A (an      *)
(* update is in progress) or sets that of B.                               *)
(***************************************************************************)
EXTENDS Integers, Sequences

CONSTANTS Procs,
          Freqs,           \* the frequencies passed to rtc_write
          None             \* no process

ASSUME NoneAssumption == None \notin Procs
ASSUME FreqsAssumption == Freqs \subseteq Int

VARIABLES
  index,          \* the register that the data port reaches
  reg,            \* registers A and B
  periodic,       \* the flag of register C: set until C is read
  requested,      \* the controller holds a request of the RTC
  interrupted,    \* the process whose stack holds an RTC handler, or None
  rtc_signal,
  todo,           \* what the call of each process has still to do
  prev, rate,     \* its local variables
  ticked          \* a handler has run since the process last cleared the signal

vars == <<index, reg, periodic, requested, interrupted, rtc_signal, todo, prev,
          rate, ticked>>
chip == <<index, reg, periodic, requested>>

INIT_BASERATE == 15
MIN_RATE == 1
MAX_RATE == 10
PIE == 64                  \* INIT_PREV_OR, bit 6

(* rtc_init leaves the chip's divider, 2, in A.                             *)
Init ==
  /\ index = "A"
  /\ reg = [A |-> 32 + INIT_BASERATE, B |-> 32 + 6 + PIE]
  /\ periodic = FALSE /\ requested = FALSE /\ interrupted = None
  /\ rtc_signal = 0
  /\ todo = [p \in Procs |-> <<>>]
  /\ prev = [p \in Procs |-> 0]
  /\ rate = [p \in Procs |-> 0]
  /\ ticked = [p \in Procs |-> FALSE]

-----------------------------------------------------------------------------
(* The calls.                                                               *)
OpenCode == <<"index_A", "read", "index_B", "write_pie",
              "index_A", "read", "index_A", "write_rate", "clear">>
(* A mutant: the rate goes to the wrong register.                           *)
WriteCodeToB == <<"index_A", "read", "index_B", "write_rate">>
WriteCode == <<"index_A", "read", "index_A", "write_rate">>
ReadCode == <<"wait", "take">>

Begin(p, code) == todo[p] = <<>> /\ interrupted # p /\ todo' = [todo EXCEPT ![p] = code]

RtcOpen(p) ==
  /\ Begin(p, OpenCode)
  /\ rate' = [rate EXCEPT ![p] = INIT_BASERATE]
  /\ UNCHANGED <<chip, interrupted, rtc_signal, prev, ticked>>

(* A frequency that is no power of 2 from 2 to 1024 is refused.             *)
(* A mutant: the rate is not turned around.                                 *)
RtcWriteLog(p) ==
  \E freq \in Freqs, log \in MIN_RATE .. MAX_RATE :
    /\ freq = 2 ^ log
    /\ Begin(p, WriteCode)
    /\ rate' = [rate EXCEPT ![p] = log]
    /\ UNCHANGED <<chip, interrupted, rtc_signal, prev, ticked>>
RtcWrite(p) ==
  \E freq \in Freqs, log \in MIN_RATE .. MAX_RATE :
    /\ freq = 2 ^ log
    /\ Begin(p, WriteCode)
    /\ rate' = [rate EXCEPT ![p] = INIT_BASERATE + 1 - log]
    /\ UNCHANGED <<chip, interrupted, rtc_signal, prev, ticked>>

RtcRead(p) ==
  /\ Begin(p, ReadCode)
  /\ UNCHANGED <<chip, interrupted, rtc_signal, prev, rate, ticked>>

-----------------------------------------------------------------------------
(* One access.                                                              *)
Does(p, what) ==
  /\ interrupted # p /\ todo[p] # <<>> /\ Head(todo[p]) = what
  /\ todo' = [todo EXCEPT ![p] = Tail(@)]

SetIndex(p) ==
  \E r \in {"A", "B"} :
    /\ Does(p, IF r = "A" THEN "index_A" ELSE "index_B")
    /\ index' = r
    /\ UNCHANGED <<reg, periodic, requested, interrupted, rtc_signal, prev, rate, ticked>>

(* Reading C clears its flag, whoever reads it.                             *)
FlagsC == IF periodic THEN 64 ELSE 0
ReadData(p) ==
  /\ Does(p, "read")
  /\ prev' = [prev EXCEPT ![p] = IF index = "C" THEN FlagsC ELSE reg[index]]
  /\ periodic' = (periodic /\ index # "C")
  /\ UNCHANGED <<index, reg, requested, interrupted, rtc_signal, rate, ticked>>

(* Register C cannot be written.  The locals are 0 when they are dead.      *)
Write(value) == reg' = IF index = "C" THEN reg ELSE [reg EXCEPT ![index] = value]
Bit6(v) == (v \div PIE) % 2
WritePie(p) ==
  /\ Does(p, "write_pie")
  /\ Write(IF Bit6(prev[p]) = 1 THEN prev[p] ELSE prev[p] + PIE)
  /\ prev' = [prev EXCEPT ![p] = 0]
  /\ UNCHANGED <<index, periodic, requested, interrupted, rtc_signal, rate, ticked>>

WriteRate(p) ==
  /\ Does(p, "write_rate")
  /\ Write((prev[p] \div 16) * 16 + rate[p])
  /\ prev' = [prev EXCEPT ![p] = 0] /\ rate' = [rate EXCEPT ![p] = 0]
  /\ UNCHANGED <<index, periodic, requested, interrupted, rtc_signal, ticked>>

ClearSignal(p) ==
  /\ Does(p, "clear")
  /\ rtc_signal' = 0
  /\ ticked' = [ticked EXCEPT ![p] = FALSE]
  /\ UNCHANGED <<chip, interrupted, prev, rate>>

(* rtc_read: the last test of its busy wait, and the store after it.        *)
Wait(p) ==
  /\ Does(p, "wait") /\ rtc_signal = 1
  /\ UNCHANGED <<chip, interrupted, rtc_signal, prev, rate, ticked>>

(* A mutant: the signal is left set.                                        *)
TakeKeepsSignal(p) ==
  /\ Does(p, "take")
  /\ ticked' = [ticked EXCEPT ![p] = FALSE]
  /\ UNCHANGED <<chip, interrupted, rtc_signal, prev, rate>>
Take(p) ==
  /\ Does(p, "take")
  /\ rtc_signal' = 0
  /\ ticked' = [ticked EXCEPT ![p] = FALSE]
  /\ UNCHANGED <<chip, interrupted, prev, rate>>

-----------------------------------------------------------------------------
(* The chip raises its line once per period if bit 6 of B and a rate are    *)
(* set, and not again until C is read.                                      *)
PeriodicOn == Bit6(reg.B) = 1 /\ reg.A % 16 # 0
Period ==
  /\ PeriodicOn /\ ~periodic
  /\ periodic' = TRUE /\ requested' = TRUE
  /\ UNCHANGED <<index, reg, interrupted, rtc_signal, todo, prev, rate, ticked>>

Interrupt(p) ==
  /\ requested /\ interrupted = None
  /\ requested' = FALSE /\ interrupted' = p
  /\ UNCHANGED <<index, reg, periodic, rtc_signal, todo, prev, rate, ticked>>

(* Mutants: register C is not read; the signal is not set.                  *)
HandlerNoAck ==
  /\ interrupted # None
  /\ interrupted' = None
  /\ rtc_signal' = 1
  /\ ticked' = [p \in Procs |-> TRUE]
  /\ UNCHANGED <<index, reg, periodic, requested, todo, prev, rate>>
HandlerNoSignal ==
  /\ interrupted # None
  /\ interrupted' = None
  /\ index' = "C" /\ periodic' = FALSE
  /\ UNCHANGED <<reg, requested, rtc_signal, todo, prev, rate, ticked>>
Handler ==
  /\ interrupted # None
  /\ interrupted' = None
  /\ rtc_signal' = 1
  /\ index' = "C" /\ periodic' = FALSE
  /\ ticked' = [p \in Procs |-> TRUE]
  /\ UNCHANGED <<reg, requested, todo, prev, rate>>

Access(p) ==
  \/ SetIndex(p) \/ ReadData(p) \/ WritePie(p) \/ WriteRate(p) \/ ClearSignal(p)
  \/ Wait(p) \/ Take(p)
Next ==
  \/ \E p \in Procs : \/ RtcOpen(p) \/ RtcWrite(p) \/ RtcRead(p) \/ Access(p)
                      \/ Interrupt(p)
  \/ Period \/ Handler

(* The chip keeps its period, the controller delivers, and a process that   *)
(* can make its next access is scheduled again and again.                   *)
Fairness ==
  /\ WF_vars(Period) /\ WF_vars(\E p \in Procs : Interrupt(p)) /\ WF_vars(Handler)
  /\ \A p \in Procs : SF_vars(Access(p))

Spec == Init /\ [][Next]_vars
FairSpec == Spec /\ Fairness

-----------------------------------------------------------------------------
IsTail(code, s) == \E i \in 0 .. Len(code) : s = SubSeq(code, i + 1, Len(code))
TypeOK ==
  /\ index \in {"A", "B", "C"}
  /\ reg \in [{"A", "B"} -> 0 .. 127]
  /\ periodic \in BOOLEAN /\ requested \in BOOLEAN
  /\ interrupted \in Procs \cup {None}
  /\ rtc_signal \in {0, 1}
  /\ \A p \in Procs : \E code \in {OpenCode, WriteCode, ReadCode} : IsTail(code, todo[p])
  /\ prev \in [Procs -> 0 .. 127]
  /\ rate \in [Procs -> 0 .. INIT_BASERATE]
  /\ ticked \in [Procs -> BOOLEAN]

(* The line of the RTC is edge triggered: while the flag of C is set a      *)
(* request is on its way or a handler that will read C is on some stack.    *)
(* Otherwise no RTC interrupt would ever come again.                        *)
LineServed == periodic => requested \/ interrupted # None

(* rtc_read returns only when a handler has run since its process last      *)
(* cleared the signal, although rtc_signal is one for all processes.        *)
ReadWaits == [][\A p \in Procs : Take(p) => ticked[p]]_vars

(* rtc.c:75 "rate must be above 2 and not over 15".                         *)
RateLegal == reg.A % 16 \in 3 .. 15

(* rtc.c:59 rtc_open is to "initialize the rtc with a certain frequency     *)
(* periodic interrupts": from the boot on they are enabled.                 *)
InterruptsOn == Bit6(reg.B) = 1

Inv == TypeOK /\ InterruptsOn

(* A read ends.                                                             *)
ReadServed == \A p \in Procs : todo[p] = ReadCode ~> todo[p] = <<>>

-----------------------------------------------------------------------------
(* What a comment says and the code does not do.                            *)

(* rtc.c:114 "0 - if rtc_write was successful", rtc.c:116 "change the       *)
(* freqency of rtc": it returns 0 only with its rate in register A.         *)
RateWritten == [][\A p \in Procs : WriteRate(p) => reg'.A % 16 = rate[p]]_vars

(* rtc.c:77 and 139 "get initial value of register A", rtc.h:20 "value to   *)
(* and with prev (initial value of reg a) to make new": the divider stays.  *)
DividerKept == reg.A \div 16 = 2
=============================================================================
