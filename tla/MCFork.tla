------------------------------- MODULE MCFork -------------------------------
(* Values of the constants of Fork for TLC.                                *)
EXTENDS Fork, TLC

CONSTANTS p1, p2, p3, p4, e1, e2

(* Programs pass a page on writable, with the AP bits that leave it to the *)
(* kernel to read, and with the address bits of any other page, writable   *)
(* or read-only.                                                           *)
AnyPerm ==
  [p \in Page |-> [page : {p}, ap : {"RW_ALL", "RO_EL1"}]
                  \cup [page : Page \ {p}, ap : {"RW_ALL", "RO_ALL"}]]

Symmetric == Permutations(Page) \cup Permutations(AS) \cup Permutations(Value)

(* What free and lost pages contain is written before it is read.          *)
Shown == <<live, pte, lost, sent, kernel, [p \in InUse |-> data[p]]>>

(* Bound: one page that is lost, or named by messages and not yet taken    *)
(* for something else.                                                     *)
FewSent == Cardinality(sent \cup lost) <= 1
=============================================================================
