------------------------------- MODULE MCBoot -------------------------------
(* Values of the constants of Boot for TLC.                                *)
EXTENDS Boot

Pages == 0 .. (MAXPA - 1)

Header(t, o, v, f, m) == [type |-> t, off |-> o, va |-> v, filesz |-> f, memsz |-> m]

(* One segment anywhere in a page, with or without zeros after it.         *)
One == {Header(1, 3, v, f, f + z) : v \in {0, 1, 4}, f \in {0, 1, 3, 4}, z \in {0, 3}}
       \cup {Header(2, 3, 0, 2, 2)}

(* A second one: behind the first, over it, or too large for the memory.   *)
Two == {Header(1, 7, v, f, m) : v \in {0, 5, 6, 16}, f \in {0, 2, 3}, m \in {3, 30}}

Programs ==
  {[elf |-> e, ph |-> <<>>] : e \in BOOLEAN}
  \cup {[elf |-> TRUE, ph |-> <<s>>] : s \in One}
  \cup {[elf |-> TRUE, ph |-> <<s, t>>] :
          s \in {x \in One : x.filesz \in {2, 3}}, t \in Two}
=============================================================================
