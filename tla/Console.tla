------------------------------- MODULE Console -------------------------------
(***************************************************************************)
(* The console and the two lamps: _printf and _putchar (src/os/lib/        *)
(* print.c), the mini UART (src/os/driver/uart.c) and the pins             *)
(* (src/os/driver/gpio.c), as main, the system calls and the scheduler use *)
(* them.  The kernel runs one operation after the other, interrupts are    *)
(* masked; the transmitter of the UART works beside it.                    *)
(***************************************************************************)
EXTENDS Format, FiniteSets

CONSTANTS
  Fifo,      \* characters the transmitter can hold: 8
  Pin,       \* the pins the board has
  Firmware,  \* functions the firmware may leave the pins at
  Boot,      \* what main does: a sequence of operations
  Scripts    \* what may follow: a set of sequences of operations

ASSUME ConsoleAssumption ==
  /\ Fifo \in Nat \ {0}
  /\ {14, 15, 17, 27} \subseteq Pin
  /\ Firmware \subseteq 0 .. 7
  /\ {"\r", "\n", "p"} \subseteq Char

(* An operation is one of these.                                           *)
UartInit == [op |-> "uart_init"]
OutputInit(n) == [op |-> "gpio_output_init", pin |-> n]
Printf(f, a) == [op |-> "_printf", fmt |-> f, args |-> a]
Putchar(c) == [op |-> "_putchar", char |-> c]
Switch(index) == [op |-> "_sched_yield", index |-> index]

VARIABLES
  todo,     \* operations to come; the first one is running
  scripted, \* the script has been chosen
  fmt,      \* format and arguments left of a running _printf
  args,
  out,      \* what print_str has left to print
  sending,  \* what _putchar has left to send
  fifo,     \* the transmitter
  wire,     \* what has left it
  fsel,     \* GPFSEL0 to GPFSEL5: the function of every pin
  level,    \* the pins set by GPSET and not cleared by GPCLR
  index,    \* the static index of _sched_yield
  writes,   \* writes to GPSET and GPCLR that _sched_yield has left
  panicked,
  text,     \* auxiliary: everything handed to print_str or _putchar
  reset     \* auxiliary: fsel when the kernel started

vars == <<todo, scripted, fmt, args, out, sending, fifo, wire, fsel, level, index, writes,
          panicked, text, reset>>
kernel == <<todo, scripted, panicked>>
printer == <<fmt, args, out, sending, text>>
uart == <<fifo, wire>>
lamps == <<level, index, writes>>
pins == <<fsel, lamps, reset>>

Running(op) == todo # <<>> /\ Head(todo).op = op
Return == todo' = Tail(todo) /\ UNCHANGED scripted
Idle == out = <<>> /\ sending = <<>> /\ writes = <<>>

(* panic: its message, on a line of its own, and then a loop for ever.     *)
_panic ==
  /\ panicked' = TRUE
  /\ todo' = <<Printf(<<>>, <<>>)>>
  /\ fmt' = <<"p", "\n">> /\ args' = <<>>
  /\ UNCHANGED <<scripted, out, text>>
-----------------------------------------------------------------------------
(* A register of functions is read, the three bits of a pin are cleared    *)
(* with &= and set with |=, and it is written back: the other pins stay.   *)
Clear(f, n) == [f EXCEPT ![n] = 0]
SetBit(f, n, bit) == [f EXCEPT ![n] = IF (@ \div bit) % 2 = 1 THEN @ ELSE @ + bit]

(* uart_init: pins 14 and 15 get alternate function 5; the registers of    *)
(* the UART are written once and never read back.                          *)
uart_init ==
  /\ Running("uart_init") /\ Idle
  /\ fsel' = SetBit(Clear(SetBit(Clear(fsel, 14), 14, 2), 15), 15, 2)
  /\ Return
  /\ UNCHANGED <<printer, uart, lamps, reset, panicked>>

(* Mutant of Output: the old function of the pin is not cleared.           *)
OutputOverOld(f, n) == SetBit(f, n, 1)

Output(f, n) == SetBit(Clear(f, n), n, 1)

(* MIN_GPIO to MAX_GPIO, the pins of the header.                           *)
Gpio == 2 .. 27

gpio_output_init ==
  /\ Running("gpio_output_init") /\ Idle
  /\ IF Head(todo).pin \in Gpio
     THEN /\ fsel' = Output(fsel, Head(todo).pin)
          /\ Return
          /\ UNCHANGED <<panicked, fmt, args, out, text>>
     ELSE _panic /\ UNCHANGED fsel
  /\ UNCHANGED <<sending, uart, lamps, reset>>

Set(n) == [reg |-> "GPSET0", pin |-> n]
Clr(n) == [reg |-> "GPCLR0", pin |-> n]

(* Mutant of Lamps: the lamp that was on is not put out.                   *)
LampsOnOnly(i) == IF i % 2 = 1 THEN <<Set(27)>> ELSE <<Set(17)>>

Lamps(i) == IF i % 2 = 1 THEN <<Clr(17), Set(27)>> ELSE <<Set(17), Clr(27)>>

(* _sched_yield shows on the lamps whether the slot it has found is odd,   *)
(* in two writes, the first of which may leave both on or both off.        *)
_sched_yield ==
  /\ Running("_sched_yield") /\ Idle
  /\ index' = Head(todo).index
  /\ writes' = Lamps(index')
  /\ Return
  /\ UNCHANGED <<printer, uart, fsel, level, reset, panicked>>

(* 17 and 27 are in range, so that there is no panic.                      *)
gpio_set ==
  /\ writes # <<>> /\ Head(writes).reg = "GPSET0"
  /\ level' = level \cup {Head(writes).pin}
  /\ writes' = Tail(writes)
  /\ UNCHANGED <<kernel, printer, uart, fsel, index, reset>>

gpio_clr ==
  /\ writes # <<>> /\ Head(writes).reg = "GPCLR0"
  /\ level' = level \ {Head(writes).pin}
  /\ writes' = Tail(writes)
  /\ UNCHANGED <<kernel, printer, uart, fsel, index, reset>>
-----------------------------------------------------------------------------
(* print_str(s, l): a single NUL is the end of an output, not a character. *)
print_str(s) ==
  LET printed == IF s = <<NUL>> THEN <<>> ELSE s
  IN  out' = printed /\ text' = text \o printed

Begin ==
  /\ Running("_printf") /\ fmt = <<>> /\ args = <<>> /\ Idle
  /\ Head(todo).fmt # <<>>
  /\ fmt' = Head(todo).fmt /\ args' = Head(todo).args
  /\ todo' = [todo EXCEPT ![1] = Printf(<<>>, <<>>)]
  /\ UNCHANGED <<scripted, panicked, out, sending, text, uart, pins>>

PlainChar ==
  /\ Running("_printf") /\ Idle
  /\ fmt # <<>> /\ Head(fmt) # "%"
  /\ print_str(<<Head(fmt)>>)
  /\ fmt' = Tail(fmt)
  /\ UNCHANGED <<kernel, args, sending, uart, pins>>

Directed ==
  /\ Running("_printf") /\ Idle
  /\ fmt # <<>> /\ Head(fmt) = "%"
  /\ \E d \in {Directive(Tail(fmt))} :
     IF d.conv \in Conversions
     THEN \E field \in {Convert(d, Head(args))} :
          IF ~field.fits THEN _panic
          ELSE /\ print_str(field.text)
               /\ fmt' = d.rest /\ args' = Tail(args)
               /\ UNCHANGED kernel
     ELSE /\ print_str(IF d.conv = NUL THEN <<>> ELSE <<d.conv>>)
          /\ fmt' = d.rest
          /\ UNCHANGED <<kernel, args>>
  /\ UNCHANGED <<sending, uart, pins>>

PrintfReturns ==
  /\ Running("_printf") /\ Idle
  /\ Head(todo).fmt = <<>> /\ fmt = <<>>
  /\ Return
  /\ args' = <<>>
  /\ UNCHANGED <<panicked, fmt, out, sending, text, uart, pins>>

(* _putchar of the next character: a line feed takes two.                  *)
Bytes(c) == IF c = "\n" THEN <<"\r", "\n">> ELSE <<c>>

putchar_of_print_str ==
  /\ sending = <<>> /\ out # <<>>
  /\ sending' = Bytes(Head(out))
  /\ out' = Tail(out)
  /\ UNCHANGED <<kernel, fmt, args, text, uart, pins>>

(* The system call.                                                        *)
_putchar ==
  /\ Running("_putchar") /\ Idle
  /\ sending' = Bytes(Head(todo).char)
  /\ text' = Append(text, Head(todo).char)
  /\ Return
  /\ UNCHANGED <<panicked, fmt, args, out, uart, pins>>

(* Bits of AUX_MU_LSR_REG: 0x20, the transmitter takes a character; 0x01,  *)
(* one has been received, and nobody types here.                           *)
LsrTransmit == Len(fifo) < Fifo
LsrReceive == FALSE

(* Mutants of uart_send: it does not wait, and a character that finds no   *)
(* room is lost; or it waits for the wrong bit.                            *)
SendAtOnce ==
  /\ sending # <<>>
  /\ fifo' = IF LsrTransmit THEN Append(fifo, Head(sending)) ELSE fifo
  /\ sending' = Tail(sending)
  /\ UNCHANGED <<kernel, fmt, args, out, text, wire, pins>>
SendWhenReceived ==
  /\ sending # <<>> /\ LsrReceive
  /\ fifo' = Append(fifo, Head(sending))
  /\ sending' = Tail(sending)
  /\ UNCHANGED <<kernel, fmt, args, out, text, wire, pins>>

uart_send ==
  /\ sending # <<>> /\ LsrTransmit
  /\ fifo' = Append(fifo, Head(sending))
  /\ sending' = Tail(sending)
  /\ UNCHANGED <<kernel, fmt, args, out, text, wire, pins>>

(* The hardware.                                                           *)
Transmit ==
  /\ fifo # <<>>
  /\ wire' = Append(wire, Head(fifo)) /\ fifo' = Tail(fifo)
  /\ UNCHANGED <<kernel, printer, pins>>

(* Programs run, and call the kernel.                                      *)
Choose ==
  /\ ~scripted /\ ~panicked /\ todo = <<>> /\ Idle
  /\ scripted' = TRUE
  /\ todo' \in Scripts
  /\ UNCHANGED <<panicked, printer, uart, pins>>
-----------------------------------------------------------------------------
Init ==
  /\ todo = Boot /\ scripted = FALSE /\ panicked = FALSE
  /\ fmt = <<>> /\ args = <<>> /\ out = <<>> /\ sending = <<>> /\ text = <<>>
  /\ fifo = <<>> /\ wire = <<>>
  /\ \E f \in Firmware : fsel = [n \in Pin |-> f]
  /\ level = {} /\ index = 0 /\ writes = <<>>
  /\ reset = fsel

Kernel ==
  \/ uart_init \/ gpio_output_init \/ _sched_yield \/ gpio_set \/ gpio_clr
  \/ Begin \/ PlainChar \/ Directed \/ PrintfReturns
  \/ putchar_of_print_str \/ _putchar \/ uart_send
  \/ Choose

Next == Kernel \/ Transmit

(* The kernel is one busy thread, and the transmitter keeps sending.       *)
Spec == Init /\ [][Next]_vars /\ WF_vars(Kernel) /\ WF_vars(Transmit)
-----------------------------------------------------------------------------
(***************************************************************************)
(* What the callers take care of.                                          *)
(***************************************************************************)

(* P holds what may be left of a format, and of its arguments, while they  *)
(* are printed: each directive finds an argument of the type it reads.     *)
Argument(conv) == IF conv = "c" THEN Char ELSE IF conv = "s" THEN Seq(Char) ELSE Int
Left(P, f, a) ==
  LET d == Directive(Tail(f)) IN
  IF Head(f) # "%" THEN <<Tail(f), a>> \in P
  ELSE IF d.conv \in Conversions
       THEN a # <<>> /\ Head(a) \in Argument(d.conv) /\ <<d.rest, Tail(a)>> \in P
       ELSE <<d.rest, a>> \in P
Typed(P) == \A p \in P : p[1] \in Seq(Char) /\ (p[1] # <<>> => Left(P, p[1], p[2]))

(* The operations Op name pins there are, characters, and formats of P.    *)
SensibleCalls(P, Op) ==
  /\ Typed(P)
  /\ Boot \in Seq(Op) /\ Scripts \subseteq Seq(Op)
  /\ \A o \in Op : /\ o.op = "gpio_output_init" => o.pin \in Pin
                   /\ o.op = "_printf" => <<o.fmt, o.args>> \in P
                   /\ o.op = "_putchar" => o.char \in Char

(* main starts the UART and makes the pins of the lamps outputs; no other  *)
(* code writes the functions of the pins.                                  *)
PinsByMain(Op) ==
  /\ Boot \in Seq(Op) /\ Scripts \subseteq Seq(Op)
  /\ \E j \in 1 .. Len(Boot) : Boot[j] = UartInit
  /\ \A n \in {17, 27} : \E j \in 1 .. Len(Boot) : Boot[j] = OutputInit(n)
  /\ \A j \in 1 .. Len(Boot) : Boot[j].op = "gpio_output_init" => Boot[j].pin \in {17, 27}
  /\ \A s \in Scripts : \A j \in 1 .. Len(s) : s[j].op \notin {"uart_init", "gpio_output_init"}
-----------------------------------------------------------------------------
(***************************************************************************)
(* Properties                                                              *)
(***************************************************************************)

(* A directive prints its argument: the text reads back as the value, in   *)
(* the field that was asked for; only what exceeds the buffer panics.      *)
FieldsReadBack ==
  Running("_printf") /\ Idle /\ fmt # <<>> /\ Head(fmt) = "%" =>
    LET d == Directive(Tail(fmt)) IN
    d.conv \in Conversions =>
      LET field == Convert(d, Head(args)) IN
      IF field.fits THEN IsField(field.text, d, Head(args)) /\ Len(field.text) <= PTF_MAX_BUF
      ELSE d.width > PTF_MAX_BUF \/ (d.conv = "s" /\ Len(Head(args)) > PTF_MAX_BUF)

(* What _putchar sends of a text.                                          *)
Sent(s) == FlattenSeq([j \in 1 .. Len(s) |-> Bytes(s[j])])

(* Whatever the transmitter's pace, what was printed arrives complete, in  *)
(* order, and with a carriage return before each line feed.                *)
InOrder == Sent(text) = wire \o fifo \o sending \o Sent(out)

(* The lamp of a slot.                                                     *)
Lamp(i) == IF i % 2 = 1 THEN 27 ELSE 17

(* The console keeps its pins while a lamp gets its own from the same      *)
(* register, and no other pin is touched.  Between two switches the lamp   *)
(* of the running slot is on and the other one off; both are on only until *)
(* the one of an odd slot is put out, the last thing _sched_yield does.    *)
PinsKept ==
  scripted =>
    /\ fsel[14] = 2 /\ fsel[15] = 2 /\ fsel[17] = 1 /\ fsel[27] = 1
    /\ \A n \in Pin \ {14, 15, 17, 27} : fsel[n] = reset[n]
    /\ writes = <<>> => level = {Lamp(index)} \/ (level = {} /\ index = 0)
    /\ level = {17, 27} => writes = <<Clr(27)>>

(* Every operation ends, and its last character leaves the transmitter:    *)
(* after a panic too.                                                      *)
AllPrinted == <>(scripted /\ todo = <<>> /\ Idle /\ fifo = <<>>)
=============================================================================
