------------------------------ MODULE MCConsole ------------------------------
(* Values of the constants of Console for TLC.                             *)
EXTENDS Console

Chars == Printed \cup {"\r", "\n", "p", "i", "E", "l", "x", ".", "%", "a", NUL} \cup
         Conversions

Pins == 14 .. 27

(* The operations of main, its messages cut down to a character or two.    *)
Main == << UartInit, Printf(<<"\n", "i">>, <<>>), OutputInit(17), OutputInit(27),
           Printf(<<"E", "%", "l", "x", ".">>, <<1>>) >>

Numbers ==
  {Printf(<<"%">> \o f \o w \o l \o <<c>>, <<n>>) :
     f \in {<<>>, <<"-">>, <<"0">>, <<"0", "-">>},
     w \in {<<>>, <<"4">>, <<"9">>},
     l \in {<<>>, <<"l">>},
     c \in {"b", "d", "o", "u", "x", "X"},
     n \in {0, 5, 16, 27, 31}}

Words ==
  {Printf(<<"%">> \o f \o w \o <<"c">>, <<c>>) :
     f \in {<<>>, <<"-">>}, w \in {<<>>, <<"3">>, <<"1", "2">>}, c \in {"a", NUL}}
  \cup {Printf(<<"%">> \o f \o w \o <<"s">>, <<s>>) :
     f \in {<<>>, <<"-">>}, w \in {<<>>, <<"3">>},
     s \in {<<>>, <<"a", "\n">>, [j \in 1 .. 9 |-> "a"]}}
  \cup {Printf(f, <<>>) : f \in {<<"%">>, <<"a", "%", "-", "5">>, <<"%", "%">>, <<"%", "l">>}}

Some == {Printf(<<"%", "d", "\n">>, <<31>>), Putchar("a"), Putchar("\n"), Switch(0), Switch(1)}

Calls == {<<o>> : o \in Numbers \cup Words} \cup {<<o, p, q>> : o, p, q \in Some}

(* The operations above are as Console expects them.                       *)
RECURSIVE While(_, _)
While(f, a) ==
  {<<f, a>>} \cup
  IF f = <<>> THEN {}
  ELSE IF Head(f) # "%" THEN While(Tail(f), a)
  ELSE LET d == Directive(Tail(f))
       IN  While(d.rest, IF d.conv \in Conversions THEN Tail(a) ELSE a)

Ops == Range(Main) \cup UNION {Range(s) : s \in Calls}
Printing == UNION {While(o.fmt, o.args) : o \in {p \in Ops : p.op = "_printf"}}

ASSUME SensibleCalls(Printing, Ops)
ASSUME PinsByMain(Ops)
=============================================================================
