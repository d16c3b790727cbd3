-------------------------------- MODULE Clock --------------------------------
(***************************************************************************)
(* The system timer: the interrupt that set_system_timer_irq keeps arming  *)
(* (src/os/driver/timer.c, irq_handler in src/os/lib/handler.c), and the   *)
(* busy wait of _sleep (src/os/lib/sleep.c) on a counter that is read in   *)
(* two halves.                                                             *)
(*                                                                         *)
(* The counter runs on between any two steps of the processor.  A handler, *)
(* and _sleep is one, runs with interrupts masked.                         *)
(***************************************************************************)
EXTENDS Integers

CONSTANTS
  Word,     \* 2^32, values of an u_int and of the halves of the counter
  Milli,    \* 1000, ticks of a millisecond
  Delay,    \* 1000000, the argument of set_system_timer_irq in main
  Slack,    \* ticks that may pass between the read of CLO and the write of C3
  MaxSleep, \* bound on the arguments of sleep
  MaxNow    \* bound on the counter

ASSUME ClockAssumption ==
  /\ Word \in Nat \ {0} /\ Milli \in Nat \ {0} /\ Delay \in Nat \ {0}
  /\ Slack \in Nat /\ MaxSleep \in Nat /\ MaxNow \in Nat
  /\ Delay < Word /\ Slack < Delay

VARIABLES
  now,          \* the counter, CHI and CLO together
  c3,           \* compare register 3
  irq,          \* its match bit in CS
  saved_delay,  \* static, in set_system_timer_irq
  pc,           \* where the processor is
  hi,           \* the last CHI read by get_system_timer
  lo,           \* the last CLO read by set_system_timer_irq
  read,         \* auxiliary: the counter when lo was read
  time,         \* local of _sleep: when it will end
  asked, begun, \* auxiliary: ticks asked of _sleep, and when
  torn          \* auxiliary: a carry fell into the first reading of _sleep

timer == <<c3, irq, saved_delay, lo, read>>
sleep == <<hi, time, asked, begun, torn>>
vars == <<now, pc, timer, sleep>>

Goto(from, to) == pc = from /\ pc' = to
-----------------------------------------------------------------------------
Tick ==
  /\ now < MaxNow
  /\ pc = "write" => now - read < Slack
  /\ now' = now + 1
  /\ irq' = (irq \/ c3 = (now + 1) % Word)
  /\ UNCHANGED <<pc, c3, saved_delay, lo, read, sleep>>
-----------------------------------------------------------------------------
(* set_system_timer_irq, from main with a delay, then from irq_handler     *)
(* with 0 for the same delay again.                                        *)

(* Mutant of SaveDelay: the 0 is saved as well.                            *)
SaveAnyDelay(delay) == saved_delay' = delay

SaveDelay(delay) == saved_delay' = IF delay # 0 THEN delay ELSE saved_delay

set_system_timer_irq(delay) ==
  /\ SaveDelay(delay)
  /\ lo' = now % Word
  /\ read' = now
  /\ UNCHANGED <<now, c3, irq, sleep>>

WriteC3 ==
  /\ Goto("write", "run")
  /\ c3' = (saved_delay + lo) % Word
  /\ UNCHANGED <<now, irq, saved_delay, lo, read, sleep>>

main == Goto("main", "write") /\ set_system_timer_irq(Delay)

(* irq_handler: clr_timer_irq, _sched_yield, set_system_timer_irq(0).      *)
clr_timer_irq ==
  /\ irq
  /\ Goto("run", "handler")
  /\ irq' = FALSE
  /\ UNCHANGED <<now, c3, saved_delay, lo, read, sleep>>

Rearm == Goto("handler", "write") /\ set_system_timer_irq(0)
-----------------------------------------------------------------------------
(* get_system_timer, one half after the other.                             *)
ReadCHI(from, to) ==
  /\ Goto(from, to)
  /\ hi' = now \div Word
  /\ UNCHANGED <<now, timer, time, asked, begun, torn>>

Reading == (hi * Word) + (now % Word)

(* A program calls sleep: the product is an u_int.                         *)
Ticks(ms) == (ms * Milli) % Word

_sleep(ms) ==
  /\ Goto("run", "firstCHI")
  /\ asked' = ms * Milli
  /\ begun' = now
  /\ UNCHANGED <<now, timer, hi, time, torn>>

(* Mutant of Deadline: the end is computed as an u_int.                    *)
DeadlineWord == (Reading + asked) % Word

Deadline == Reading + (asked % Word)

FirstCLO ==
  /\ Goto("firstCLO", "CHI")
  /\ time' = Deadline
  /\ torn' = (hi # now \div Word)
  /\ UNCHANGED <<now, timer, hi, asked, begun>>

(* Mutant of LoopCHI: the high half is not read again.                     *)
LoopOldCHI == Goto("CHI", "CLO") /\ UNCHANGED <<now, timer, sleep>>

LoopCHI == ReadCHI("CHI", "CLO")

LoopCLO ==
  /\ pc = "CLO"
  /\ pc' = IF Reading < time THEN "CHI" ELSE "return"
  /\ UNCHANGED <<now, timer, sleep>>

(* Back in the program; the timer may have matched meanwhile.              *)
Return == Goto("return", "run") /\ UNCHANGED <<now, timer, sleep>>
-----------------------------------------------------------------------------
(* main has initialised everything else; what was in the timer's registers *)
(* is unknown.                                                             *)
Init ==
  /\ now = 0 /\ c3 \in 0 .. Word - 1 /\ irq \in BOOLEAN
  /\ saved_delay = 0
  /\ pc = "main"
  /\ hi = 0 /\ lo = 0 /\ read = 0
  /\ time = 0 /\ asked = 0 /\ begun = 0 /\ torn = FALSE

Processor ==
  \/ main \/ WriteC3 \/ clr_timer_irq \/ Rearm
  \/ ReadCHI("firstCHI", "firstCLO") \/ FirstCLO \/ LoopCHI \/ LoopCLO \/ Return

Next ==
  \/ Tick \/ Processor
  \/ \E ms \in 0 .. MaxSleep : _sleep(ms)

Spec == Init /\ [][Next]_vars

(* Neither the counter nor the processor stops.                            *)
FairSpec == Spec /\ WF_vars(Tick) /\ WF_vars(Processor)
-----------------------------------------------------------------------------
(***************************************************************************)
(* Properties                                                              *)
(***************************************************************************)

(* The ranges of the variables; a register has the width of a word.        *)
TypeOK ==
  /\ now \in 0 .. MaxNow /\ read \in 0 .. now /\ begun \in 0 .. now
  /\ c3 \in 0 .. Word - 1 /\ lo \in 0 .. Word - 1
  /\ irq \in BOOLEAN /\ torn \in BOOLEAN
  /\ saved_delay \in {0, Delay}
  /\ pc \in {"main", "run", "handler", "write", "firstCHI", "firstCLO",
             "CHI", "CLO", "return"}
  /\ hi \in Nat /\ time \in Nat /\ asked \in Nat

(* _sleep does not return before the time it was asked to wait has passed, *)
(* although it may combine halves of two different counter values, with    *)
(* exactly two exceptions: the product does not fit an u_int, or a carry   *)
(* falls into the first reading.  In the loop a carry does no harm.        *)
SleepLongEnough ==
  pc = "return" => now - begun >= asked \/ asked >= Word \/ torn

(* Whenever interrupts are open, and during every sleep, the next timer    *)
(* interrupt is pending or at most one period ahead: it is never armed for *)
(* a moment that is over, which would come back only after a whole word.   *)
TimerArmed ==
  pc \in {"run", "firstCHI", "firstCLO", "CHI", "CLO", "return"} =>
    irq \/ (c3 - now) % Word \in 1 .. Delay

(* A sleep whose end the (bounded) counter reaches does end.               *)
SleepReturns == (pc = "CHI" /\ time <= MaxNow) ~> (pc = "return")
=============================================================================
