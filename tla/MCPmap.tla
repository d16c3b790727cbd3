------------------------------- MODULE MCPmap -------------------------------
(* Values of the constants of Pmap for TLC.                                *)
EXTENDS Pmap, TLC

CONSTANTS p1, p2, p3, p4, p5, p6, a1, a2

(* Addresses, as their table indices from the directory down.              *)
Addr2(i, j) == 0 :> i @@ 1 :> j
Addr3(i, j, k) == 0 :> i @@ 1 :> j @@ 2 :> k

(* Two addresses under one leaf table and a third under another.           *)
VA2 == {Addr2(0, 0), Addr2(0, 1), Addr2(1, 0)}

(* Three levels; the addresses part below the directory.                   *)
VA3 == {Addr3(0, 0, 0), Addr3(0, 1, 1)}

Boot5 == <<p5, p4, p3, p2, p1>>
Boot6 == <<p6, p5, p4, p3, p2, p1>>
BootRefOnes == [p \in Page |-> 1]

Self == {<<a, a>> : a \in AS}
ParentToo == AS \X AS

SymmetricAll == Permutations(Page) \cup Permutations(AS)
=============================================================================
