----------------------------- MODULE ClockProofs -----------------------------
(***************************************************************************)
(* Proofs about Clock, for every width of a word, period and length of a   *)
(* sleep: the timer is always armed, and _sleep waits long enough except   *)
(* in the two cases SleepLongEnough names.                                 *)
(***************************************************************************)
EXTENDS Clock, TLAPS

(* A counter is made of its two halves.                                    *)
LEMMA Halves ==
  ASSUME NEW n \in Nat, NEW w \in Nat \ {0}
  PROVE  /\ n = w * (n \div w) + (n % w)
         /\ n % w \in 0 .. w - 1
         /\ n \div w \in Nat
OBVIOUS

(* An old high half with a new low half is a time that is over.            *)
LEMMA ReadingInPast ==
  ASSUME NEW n \in Nat, NEW w \in Nat \ {0}, NEW h \in Nat, h <= n \div w
  PROVE  /\ (h * w) + (n % w) \in Nat
         /\ (h * w) + (n % w) <= n
         /\ h = n \div w => (h * w) + (n % w) = n
<1>1. /\ n = w * (n \div w) + (n % w) /\ n % w \in 0 .. w - 1
      /\ n \div w \in Nat
  BY Halves
<1> DEFINE q == n \div w
<1> DEFINE r == n % w
<1> HIDE DEF q, r
<1>2. q \in Nat /\ r \in Nat /\ n = w * q + r /\ h <= q
  BY <1>1 DEF q, r
<1>3. h * w <= q * w /\ h * w \in Nat
  BY <1>2
<1>4. (h * w) + r \in Nat /\ (h * w) + r <= n /\ (h = q => (h * w) + r = n)
  BY <1>2, <1>3
<1> QED BY <1>4 DEF q, r

(* The high half does not go back.                                         *)
LEMMA HighGrows ==
  ASSUME NEW n \in Nat, NEW w \in Nat \ {0}
  PROVE  n \div w <= (n + 1) \div w
OBVIOUS

(* A remainder is what is left over a multiple.                            *)
LEMMA Remainder ==
  ASSUME NEW w \in Nat \ {0}, NEW q \in Int, NEW i \in 0 .. w - 1
  PROVE  ((w * q) + i) % w = i
OBVIOUS

(* Every difference is a multiple of the word and a remainder.             *)
LEMMA Quotient ==
  ASSUME NEW w \in Nat \ {0}, NEW a \in Int
  PROVE  \E q \in Int : a = (w * q) + (a % w) /\ a % w \in 0 .. w - 1
<1>1. a = (w * (a \div w)) + (a % w) /\ a % w \in 0 .. w - 1 /\ a \div w \in Int
  OBVIOUS
<1> QED BY <1>1

(* The distance to the compare register, one tick later.                   *)
LEMMA Distance ==
  ASSUME NEW n \in Nat, NEW w \in Nat \ {0}, NEW c \in 0 .. w - 1,
         (c - n) % w # 0, c # (n + 1) % w
  PROVE  (c - (n + 1)) % w = ((c - n) % w) - 1 /\ (c - n) % w # 1
<1> DEFINE r == (c - n) % w
<1>1. PICK q \in Int : c - n = (w * q) + r /\ r \in 0 .. w - 1
  BY Quotient, c - n \in Int
<1>2. r # 0 BY DEF r
<1> HIDE DEF r
<1>3. c - (n + 1) = (w * q) + (r - 1) /\ r - 1 \in 0 .. w - 1
  BY <1>1, <1>2
<1>4. (c - (n + 1)) % w = r - 1
  BY <1>3, Remainder
<1>5. r # 1
  <2>1. SUFFICES ASSUME r = 1 PROVE FALSE
    OBVIOUS
  <2>2. n + 1 = (w * (-q)) + c
    BY <2>1, <1>1
  <2>3. (n + 1) % w = c
    BY <2>2, Remainder, -q \in Int
  <2> QED BY <2>3
<1> QED BY <1>4, <1>5 DEF r

(* A register set d ahead of a value read k ticks ago is d - k ahead.      *)
LEMMA SetAhead ==
  ASSUME NEW r \in Nat, NEW k \in Nat, NEW w \in Nat \ {0}, NEW d \in Nat,
         k < d, d < w
  PROVE  (((d + (r % w)) % w) - (r + k)) % w = d - k
<1> DEFINE l == r % w
<1> DEFINE m == (d + l) % w
<1>1. PICK p \in Int : r = (w * p) + l /\ l \in 0 .. w - 1
  BY Quotient, r \in Int
<1>2. PICK q \in Int : d + l = (w * q) + m /\ m \in 0 .. w - 1
  <2>1. d + l \in Int BY <1>1
  <2> QED BY <2>1, Quotient
<1> HIDE DEF l, m
<1>3. m - (r + k) = (w * (-(p + q))) + (d - k) /\ d - k \in 0 .. w - 1
  BY <1>1, <1>2
<1>4. (m - (r + k)) % w = d - k
  BY <1>3, Remainder, -(p + q) \in Int
<1> QED BY <1>4 DEF l, m
-----------------------------------------------------------------------------
(* Where the armed timer is claimed; the rest is the handler.              *)
Armed == pc \in {"run", "firstCHI", "firstCLO", "CHI", "CLO", "return"}

(* What _sleep knows at each of its steps.                                 *)
SleepInv ==
  /\ pc \in {"firstCLO", "CLO"} => hi <= now \div Word
  /\ pc \in {"CHI", "CLO", "return"} =>
       time >= begun + asked \/ asked >= Word \/ torn
  /\ pc = "return" => now >= time

(* What set_system_timer_irq knows between its read and its write.         *)
TimerInv ==
  /\ pc # "main" => saved_delay = Delay
  /\ pc = "write" => lo = read % Word /\ now - read <= Slack
  /\ TimerArmed

IInv == TypeOK /\ SleepInv /\ TimerInv

LEMMA InitInv == Init => IInv
<1> SUFFICES ASSUME Init PROVE IInv
  OBVIOUS
<1>1. 0 \in 0 .. MaxNow /\ 0 \in 0 .. Word - 1 /\ 0 \in 0 .. 0
  BY ClockAssumption
<1>2. TypeOK
  BY <1>1 DEF Init, TypeOK
<1>3. SleepInv /\ TimerInv
  BY DEF Init, SleepInv, TimerInv, TimerArmed
<1> QED BY <1>2, <1>3 DEF IInv

(* A tick of the counter.                                                  *)
LEMMA TickInv == IInv /\ Tick => IInv'
<1> SUFFICES ASSUME IInv, Tick PROVE IInv'
  OBVIOUS
<1>1. /\ now \in Nat /\ now' = now + 1 /\ now' \in 0 .. MaxNow
      /\ Word \in Nat \ {0} /\ c3 \in 0 .. Word - 1
  BY ClockAssumption DEF IInv, TypeOK, Tick
<1>2. /\ UNCHANGED <<pc, c3, saved_delay, lo, read, hi, time, asked, begun, torn>>
      /\ irq' \in BOOLEAN
      /\ pc = "write" => now - read < Slack
  BY DEF Tick, sleep
<1>3. ~irq' => ~irq /\ c3 # (now + 1) % Word
  BY DEF Tick, IInv, TypeOK
<1>4. TypeOK'
  <2>1. read \in 0 .. now' /\ begun \in 0 .. now'
    BY <1>1 DEF IInv, TypeOK
  <2> QED BY <1>1, <1>2, <2>1 DEF IInv, TypeOK
<1>5. SleepInv'
  <2>1. now \div Word <= now' \div Word
    BY <1>1, HighGrows
  <2>2. now \div Word \in Nat /\ now' \div Word \in Nat
    BY <1>1, Halves, now + 1 \in Nat
  <2>3. hi \in Nat /\ time \in Nat /\ SleepInv
    BY DEF IInv, TypeOK
  <2> DEFINE old == now \div Word
  <2> DEFINE new == now' \div Word
  <2>4. old \in Nat /\ new \in Nat /\ old <= new
        /\ (pc \in {"firstCLO", "CLO"} => hi <= old)
    BY <2>1, <2>2, <2>3 DEF SleepInv
  <2> HIDE DEF old, new
  <2>5. pc \in {"firstCLO", "CLO"} => hi <= new
    BY ONLY <2>3, <2>4
  <2>6. pc = "return" => now' >= time
    BY <2>3, <1>1 DEF SleepInv
  <2> QED BY <2>3, <2>5, <2>6, <1>2 DEF SleepInv, new
<1>6. TimerInv'
  <2>1. pc = "write" => now' - read <= Slack
    <3>1. read \in Nat /\ Slack \in Nat
      BY ClockAssumption DEF IInv, TypeOK
    <3> QED BY ONLY <3>1, <1>1, <1>2
  <2>2. TimerArmed'
    <3> SUFFICES ASSUME Armed, ~irq'
                 PROVE  (c3 - now') % Word \in 1 .. Delay
      BY <1>2 DEF TimerArmed, Armed
    <3> DEFINE d == (c3 - now) % Word
    <3>1. d \in 1 .. Delay
      BY <1>3 DEF IInv, TimerInv, TimerArmed, Armed
    <3>2. d # 0 /\ c3 # (now + 1) % Word
      <4> HIDE DEF d
      <4>1. d # 0 BY ONLY <3>1, ClockAssumption DEF ClockAssumption
      <4> QED BY <4>1, <1>3
    <3>3. (c3 - (now + 1)) % Word = d - 1 /\ d # 1
      BY <3>2, <1>1, Distance, Zenon
    <3> HIDE DEF d
    <3>4. d - 1 \in 1 .. Delay
      BY <3>1, <3>3, ClockAssumption
    <3> QED BY ONLY <3>3, <3>4, <1>1
  <2>3. (pc # "main" => saved_delay = Delay) /\ (pc = "write" => lo = read % Word)
    BY DEF IInv, TimerInv
  <2> QED BY <2>1, <2>2, <2>3, <1>2, Zenon DEF TimerInv
<1> QED BY <1>4, <1>5, <1>6 DEF IInv

(* The timer is set: in main, and after the handler.                       *)
LEMMA TimerSteps == IInv /\ (main \/ clr_timer_irq \/ Rearm) => IInv'
<1> SUFFICES ASSUME IInv, main \/ clr_timer_irq \/ Rearm PROVE IInv'
  OBVIOUS
<1> DEFINE clo == now % Word
<1>1. /\ clo \in 0 .. Word - 1
      /\ now \in Nat /\ now \in 0 .. MaxNow
  <2>1. now \in Nat /\ Word \in Nat \ {0} /\ now \in 0 .. MaxNow
    BY ClockAssumption DEF IInv, TypeOK
  <2> QED BY <2>1, Halves
<1>2. /\ UNCHANGED <<now, c3, hi, time, asked, begun, torn>>
      /\ \/ pc \in {"main", "handler"} /\ pc' = "write" /\ lo' = clo
            /\ read' = now /\ saved_delay' = Delay /\ irq' = irq
         \/ pc = "run" /\ pc' = "handler" /\ irq' = FALSE
            /\ UNCHANGED <<saved_delay, lo, read>>
  <2>1. Delay # 0 /\ (pc # "main" => saved_delay = Delay)
    BY ClockAssumption DEF IInv, TimerInv
  <2> QED BY <2>1 DEF main, clr_timer_irq, Rearm, Goto, set_system_timer_irq,
             SaveDelay, sleep
<1>3. TypeOK'
  <2> HIDE DEF clo
  <2>1. now \in 0 .. now /\ TypeOK
    BY <1>1 DEF IInv
  <2> QED BY ONLY <1>1, <1>2, <2>1 DEF TypeOK
<1>4. SleepInv'
  BY <1>2 DEF SleepInv
<1>5. TimerInv'
  <2>1. now - now <= Slack
    BY <1>1, ClockAssumption
  <2>2. pc' \notin {"run", "firstCHI", "firstCLO", "CHI", "CLO", "return"}
    BY <1>2
  <2>3. TimerArmed'
    BY <2>2 DEF TimerArmed
  <2>4. pc' # "main" => saved_delay' = Delay
    BY <1>2 DEF IInv, TimerInv
  <2>5. pc' = "write" => lo' = read' % Word /\ now' - read' <= Slack
    <3>1. pc' = "write" => lo' = clo /\ read' = now /\ now' = now
      BY <1>2
    <3> QED BY <3>1, <2>1, Zenon
  <2> QED BY <2>3, <2>4, <2>5 DEF TimerInv
<1> QED BY <1>3, <1>4, <1>5 DEF IInv

(* C3 is written while the moment it means is still ahead.                 *)
LEMMA WriteInv == IInv /\ WriteC3 => IInv'
<1> SUFFICES ASSUME IInv, WriteC3 PROVE IInv'
  OBVIOUS
<1>1. /\ now \in Nat /\ read \in Nat /\ read <= now /\ lo = read % Word
      /\ now - read <= Slack /\ saved_delay = Delay
      /\ c3' = (Delay + lo) % Word /\ pc' = "run" /\ pc = "write"
      /\ UNCHANGED <<now, irq, saved_delay, lo, read, sleep>>
  BY DEF IInv, TypeOK, TimerInv, WriteC3, Goto
<1>2. /\ Word \in Nat \ {0} /\ Delay \in Nat /\ Delay < Word
      /\ Slack \in Nat /\ Slack < Delay
  BY ClockAssumption
<1> DEFINE k == now - read
<1>3. k \in Nat /\ k < Delay /\ read + k = now /\ Delay - k \in 1 .. Delay
  BY ONLY <1>1, <1>2
<1>4. (((Delay + (read % Word)) % Word) - (read + k)) % Word = Delay - k
  <2> HIDE DEF k
  <2>1. read \in Nat /\ k \in Nat /\ k < Delay /\ Delay < Word
    BY <1>1, <1>2, <1>3
  <2> QED BY <2>1, <1>2, SetAhead, Zenon
<1>5. (c3' - now) % Word = Delay - k
  BY <1>1, <1>3, <1>4, Zenon
<1>6. c3' \in 0 .. Word - 1
  <2>1. lo \in 0 .. Word - 1
    BY DEF IInv, TypeOK
  <2>2. Delay + lo \in Nat
    BY ONLY <2>1, <1>2
  <2>3. (Delay + lo) % Word \in 0 .. Word - 1
    BY <2>2, <1>2, Halves, Zenon
  <2> QED BY <2>3, <1>1, Zenon
<1>7. TypeOK'
  <2>1. TypeOK BY DEF IInv
  <2> QED BY ONLY <2>1, <1>1, <1>6 DEF TypeOK, sleep
<1>8. TimerArmed'
  <2>1. (c3' - now') % Word \in 1 .. Delay
    BY <1>1, <1>3, <1>5, Zenon
  <2> QED BY <2>1 DEF TimerArmed
<1>9. TimerInv'
  BY <1>1, <1>8 DEF TimerInv
<1>10. SleepInv'
  BY <1>1 DEF SleepInv
<1> QED BY <1>7, <1>9, <1>10 DEF IInv

(* The steps of _sleep leave the timer alone.                              *)
LEMMA SleepSteps ==
  ASSUME IInv,
         \/ \E ms \in 0 .. MaxSleep : _sleep(ms)
         \/ ReadCHI("firstCHI", "firstCLO") \/ FirstCLO \/ LoopCHI \/ LoopCLO
         \/ Return
  PROVE  IInv'
<1> DEFINE epoch == now \div Word
<1>1. now \in Nat /\ Word \in Nat \ {0} /\ epoch \in Nat
  <2>1. now \in Nat /\ Word \in Nat \ {0}
    BY ClockAssumption DEF IInv, TypeOK
  <2> QED BY <2>1, Halves
<1>2. UNCHANGED <<now, c3, irq, saved_delay, lo, read>> /\ Armed /\ Armed'
  BY DEF _sleep, ReadCHI, FirstCLO, LoopCHI, LoopCLO, Return, Goto, Armed, timer
<1>3. TimerInv'
  <2>1. TimerInv /\ pc # "main" /\ pc # "write" /\ pc' # "main" /\ pc' # "write"
    BY <1>2 DEF IInv, Armed
  <2>2. TimerArmed'
    BY <2>1, <1>2 DEF TimerInv, TimerArmed, Armed
  <2> QED BY <2>1, <2>2, <1>2 DEF TimerInv
<1>4. SUFFICES TypeOK' /\ SleepInv'
  BY <1>3 DEF IInv
<1>5. TypeOK /\ SleepInv
  BY DEF IInv
<1>6. CASE \E ms \in 0 .. MaxSleep : _sleep(ms)
  <2>1. PICK ms \in 0 .. MaxSleep : _sleep(ms)
    BY <1>6
  <2> DEFINE product == ms * Milli
  <2>2. product \in Nat
    BY ClockAssumption
  <2>3. /\ pc' = "firstCHI" /\ asked' = product /\ begun' = now
        /\ UNCHANGED <<hi, time, torn>>
    BY <2>1 DEF _sleep, Goto
  <2> HIDE DEF product
  <2>4. now \in 0 .. now BY <1>1
  <2> QED BY ONLY <2>2, <2>3, <2>4, <1>2, <1>5 DEF TypeOK, SleepInv
<1>7. CASE ReadCHI("firstCHI", "firstCLO") \/ LoopCHI
  <2>1. /\ hi' = epoch /\ UNCHANGED <<time, asked, begun, torn>>
        /\ \/ pc = "firstCHI" /\ pc' = "firstCLO"
           \/ pc = "CHI" /\ pc' = "CLO"
    BY <1>7 DEF ReadCHI, LoopCHI, Goto
  <2>2. hi' <= now' \div Word
    <3>1. epoch <= epoch BY <1>1
    <3> QED BY <3>1, <2>1, <1>2
  <2> HIDE DEF epoch
  <2> QED BY ONLY <2>1, <2>2, <1>1, <1>2, <1>5 DEF TypeOK, SleepInv
<1>8. CASE FirstCLO
  <2>1. hi \in Nat /\ hi <= now \div Word /\ asked \in Nat /\ begun \in Nat
        /\ begun <= now /\ pc = "firstCLO"
    BY <1>8, <1>5 DEF TypeOK, SleepInv, FirstCLO, Goto
  <2>2. /\ Reading \in Nat /\ Reading <= now
        /\ hi = now \div Word => Reading = now
    BY <2>1, <1>1, ReadingInPast, Zenon DEF Reading
  <2> DEFINE want == asked % Word
  <2>3. want \in Nat
    BY <2>1, <1>1, Halves
  <2>4. asked < Word => want = asked
    <3>1. asked < Word => asked \in 0 .. Word - 1 /\ asked = (Word * 0) + asked
      BY <2>1, <1>1
    <3> QED BY <3>1, <1>1, Remainder, 0 \in Int
  <2>5. /\ time' = Reading + want /\ torn' = (hi # now \div Word) /\ pc' = "CHI"
        /\ UNCHANGED <<hi, asked, begun>>
    BY <1>8 DEF FirstCLO, Goto, Deadline
  <2> HIDE DEF want, epoch
  <2>6. time' \in Nat /\ torn' \in BOOLEAN
    BY ONLY <2>2, <2>3, <2>5
  <2>7. TypeOK'
    BY ONLY <2>5, <2>6, <1>2, <1>5 DEF TypeOK
  <2>8. ~torn' => Reading = now
    BY ONLY <2>2, <2>5
  <2>9. time' >= begun' + asked' \/ asked' >= Word \/ torn'
    <3>1. SUFFICES ASSUME ~torn', ~(asked' >= Word) PROVE time' >= begun' + asked'
      OBVIOUS
    <3>2. want = asked /\ Reading = now
      BY ONLY <3>1, <2>1, <2>4, <2>5, <2>8, <1>1
    <3> QED BY ONLY <3>2, <2>1, <2>5, <1>1
  <2> QED BY ONLY <2>5, <2>7, <2>9 DEF SleepInv
<1>9. CASE LoopCLO
  <2>1. hi \in Nat /\ hi <= now \div Word /\ time \in Nat
    BY <1>9, <1>5 DEF TypeOK, SleepInv, LoopCLO
  <2>2. Reading \in Nat /\ Reading <= now
    BY <2>1, <1>1, ReadingInPast, Zenon DEF Reading
  <2>3. /\ pc = "CLO" /\ pc' = (IF Reading < time THEN "CHI" ELSE "return")
        /\ UNCHANGED <<hi, time, asked, begun, torn>>
    BY <1>9 DEF LoopCLO, sleep
  <2>4. pc' = "return" => now >= time
    BY ONLY <2>1, <2>2, <2>3, <1>1
  <2>5. pc' \in {"CHI", "return"}
    BY <2>3
  <2>6. TypeOK'
    BY ONLY <2>3, <2>5, <1>2, <1>5 DEF TypeOK
  <2> QED BY ONLY <2>3, <2>4, <2>5, <2>6, <1>2, <1>5 DEF SleepInv
<1>10. CASE Return
  <2>1. pc' = "run" /\ UNCHANGED <<hi, time, asked, begun, torn>>
    BY <1>10 DEF Return, Goto, sleep
  <2> QED BY ONLY <2>1, <1>2, <1>5 DEF TypeOK, SleepInv
<1> QED BY <1>6, <1>7, <1>8, <1>9, <1>10

LEMMA StepInv == IInv /\ [Next]_vars => IInv'
<1> SUFFICES ASSUME IInv, [Next]_vars PROVE IInv'
  OBVIOUS
<1>1. CASE UNCHANGED vars
  BY <1>1 DEF vars, timer, sleep, IInv, TypeOK, SleepInv, TimerInv, TimerArmed
<1>2. CASE Next
  BY <1>2, TickInv, TimerSteps, WriteInv, SleepSteps DEF Next, Processor
<1> QED BY <1>1, <1>2

LEMMA Invariance == Spec => []IInv
BY InitInv, StepInv, PTL DEF Spec

(* The registers keep their width, and the counter readings their order.   *)
THEOREM ClockTypeCorrect == Spec => []TypeOK
<1>1. IInv => TypeOK BY DEF IInv
<1> QED BY <1>1, Invariance, PTL

(* However long a word, a period and a sleep are: _sleep waits for the     *)
(* time it was asked to, unless the product overflows or the first reading *)
(* was torn.                                                               *)
THEOREM SleepLongEnoughCorrect == Spec => []SleepLongEnough
<1>1. IInv => SleepLongEnough
  BY DEF IInv, TypeOK, SleepInv, SleepLongEnough
<1> QED BY <1>1, Invariance, PTL

(* The timer is armed whenever interrupts are open.                        *)
THEOREM TimerArmedCorrect == Spec => []TimerArmed
<1>1. IInv => TimerArmed BY DEF IInv, TimerInv
<1> QED BY <1>1, Invariance, PTL
=============================================================================
