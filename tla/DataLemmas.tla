----------------------------- MODULE DataLemmas ----------------------------
(***************************************************************************)
(* Facts about data that the proofs of several components rest on.  First  *)
(* the free lists of the kernel as sequences: page_free_list and           *)
(* env_free_list are both used as stacks, LIST_INSERT_HEAD and LIST_FIRST  *)
(* with LIST_REMOVE.  Then induction over Nat, for what is computed level  *)
(* by level: the walk down a tree of page tables.                          *)
(***************************************************************************)
EXTENDS Integers, Sequences, WellFoundedInduction, TLAPS

NoDup(s) == \A i, j \in 1..Len(s) : s[i] = s[j] => i = j
Elems(s) == {s[i] : i \in 1..Len(s)}

(* Taking the head off a list without duplicates removes one element.      *)
LEMMA PopElems ==
  ASSUME NEW S, NEW s \in Seq(S), s # <<>>, NoDup(s)
  PROVE  /\ Head(s) \in S /\ Head(s) \in Elems(s)
         /\ Tail(s) \in Seq(S) /\ NoDup(Tail(s))
         /\ Elems(Tail(s)) = Elems(s) \ {Head(s)}
<1>1. Len(s) \in Nat \ {0} /\ Head(s) = s[1] /\ Tail(s) \in Seq(S)
  OBVIOUS
<1>2. Len(Tail(s)) = Len(s) - 1 /\ \A i \in 1..Len(Tail(s)) : Tail(s)[i] = s[i + 1]
  BY <1>1
<1>3. NoDup(Tail(s))
  BY <1>1, <1>2 DEF NoDup
<1>4. ASSUME NEW p \in Elems(s) \ {Head(s)} PROVE p \in Elems(Tail(s))
  <2>1. PICK i \in 1..Len(s) : s[i] = p
    BY DEF Elems
  <2>2. i - 1 \in 1..Len(Tail(s)) /\ Tail(s)[i - 1] = p
    BY <1>1, <1>2, <1>4, <2>1
  <2> QED
    BY <2>2 DEF Elems
<1>5. ASSUME NEW p \in Elems(Tail(s)) PROVE p \in Elems(s) \ {Head(s)}
  <2>1. PICK i \in 1..Len(Tail(s)) : Tail(s)[i] = p
    BY DEF Elems
  <2>2. i + 1 \in 1..Len(s) /\ s[i + 1] = p /\ i + 1 # 1
    BY <1>1, <1>2, <2>1
  <2> QED
    BY <1>1, <2>2 DEF Elems, NoDup
<1>6. Head(s) \in S /\ Head(s) \in Elems(s)
  BY <1>1 DEF Elems
<1> QED
  BY <1>1, <1>3, <1>4, <1>5, <1>6

(* Putting a new element at the head of such a list adds it.               *)
LEMMA PushElems ==
  ASSUME NEW S, NEW s \in Seq(S), NEW p \in S, p \notin Elems(s), NoDup(s)
  PROVE  /\ <<p>> \o s \in Seq(S) /\ NoDup(<<p>> \o s)
         /\ Elems(<<p>> \o s) = Elems(s) \cup {p}
<1> DEFINE r == <<p>> \o s
<1>1. r \in Seq(S) /\ Len(s) \in Nat /\ Len(r) = Len(s) + 1
  OBVIOUS
<1>2. r[1] = p /\ \A i \in 2..Len(r) : r[i] = s[i - 1] /\ i - 1 \in 1..Len(s)
  BY <1>1
<1>3. NoDup(r)
  BY <1>1, <1>2 DEF NoDup, Elems
<1>4. Elems(r) \subseteq Elems(s) \cup {p}
  BY <1>1, <1>2 DEF Elems
<1>5. p \in Elems(r)
  BY <1>1, <1>2 DEF Elems
<1>6. ASSUME NEW i \in 1..Len(s) PROVE s[i] \in Elems(r)
  <2>1. i + 1 \in 1..Len(r) /\ r[i + 1] = s[i]
    BY <1>1, <1>2
  <2> QED
    BY <1>1, <2>1 DEF Elems
<1> QED
  BY <1>1, <1>3, <1>4, <1>5, <1>6 DEF Elems

(* Every set of natural numbers that is not empty has a least member.       *)
LEMMA NatWF == \A T \in SUBSET Nat : T # {} => \E x \in T : \A y \in T : x <= y
<1> DEFINE R == OpToRel(<, Nat)
<1>1. IsWellFoundedOn(R, Nat)
  BY NatLessThanWellFounded
<1>2. \A x, y \in Nat : x < y => <<x, y>> \in R
  BY DEF OpToRel
<1> HIDE DEF R
<1> SUFFICES ASSUME NEW T \in SUBSET Nat, T # {} PROVE \E x \in T : \A y \in T : x <= y
  OBVIOUS
<1>3. \E x \in T : \A y \in T : ~ (<<y, x>> \in R)
  BY <1>1, WFMin
<1>4. PICK x \in T : \A y \in T : ~ (<<y, x>> \in R)
  BY <1>3
<1>5. ASSUME NEW y \in T PROVE x <= y
  <2>1. ~(<<y, x>> \in R)
    BY <1>4
  <2>2. x \in Nat /\ y \in Nat
    OBVIOUS
  <2>3. ~(y < x)
    BY <1>2, <2>1, <2>2
  <2> QED BY <2>2, <2>3
<1> QED BY <1>5

(* Induction, as a fact on sets: a set that holds zero and with every       *)
(* number the next one holds all of Nat.                                    *)
LEMMA NatInd ==
  ASSUME NEW S, 0 \in S, \A n \in Nat : n \in S => n + 1 \in S
  PROVE  Nat \subseteq S
<1> SUFFICES ASSUME ~(Nat \subseteq S) PROVE FALSE
  OBVIOUS
<1>1. PICK x \in Nat \ S : \A y \in Nat \ S : x <= y
  <2>1. Nat \ S \in SUBSET Nat /\ Nat \ S # {}
    OBVIOUS
  <2> QED BY <2>1, NatWF
<1>2. x # 0 /\ x - 1 \in Nat
  BY <1>1
<1>3. x - 1 \in S
  BY <1>1, <1>2
<1>4. (x - 1) + 1 \in S
  BY <1>2, <1>3
<1> QED BY <1>1, <1>4

(* One step of a recursion on 1 .. N stays in V; f is what that recursion   *)
(* computes.                                                                *)
Steps(step, V, N) == \A n \in 1 .. N, v \in V : step[n][v] \in V
IsRec(f, base, step, V, N) ==
  /\ f \in [0 .. N -> V]
  /\ f[0] = base
  /\ \A n \in 1 .. N : f[n] = step[n][f[n - 1]]

(* A recursion from base by steps that stay in V has a function that        *)
(* satisfies it: what a walk down the page tables computes is defined.      *)
LEMMA RecExists ==
  ASSUME NEW V, NEW base \in V, NEW step, NEW N \in Nat, Steps(step, V, N)
  PROVE  \E f : IsRec(f, base, step, V, N)
<1>0. \A n \in 1 .. N, v \in V : step[n][v] \in V
  BY DEF Steps
<1> DEFINE Upto(n) == \E f \in [0 .. n -> V] :
                       f[0] = base /\ \A k \in 1 .. n : f[k] = step[k][f[k - 1]]
           S == {n \in Nat : n <= N => Upto(n)}
<1>1. 0 \in S
  <2> DEFINE f == [k \in 0 .. 0 |-> base]
  <2>1. f \in [0 .. 0 -> V] /\ f[0] = base /\ 1 .. 0 = {}
    OBVIOUS
  <2> QED BY <2>1
<1>2. ASSUME NEW n \in Nat, n \in S PROVE n + 1 \in S
  <2> SUFFICES ASSUME n + 1 <= N PROVE Upto(n + 1)
    BY <1>2
  <2>1. PICK f \in [0 .. n -> V] :
          f[0] = base /\ \A k \in 1 .. n : f[k] = step[k][f[k - 1]]
    BY <1>2
  <2> DEFINE g == [k \in 0 .. n + 1 |-> IF k = n + 1 THEN step[k][f[n]] ELSE f[k]]
  <2>2. g \in [0 .. n + 1 -> V]
    <3>1. n + 1 \in 1 .. N /\ f[n] \in V
      BY <2>1
    <3>2. step[n + 1][f[n]] \in V
      BY <3>1, <1>0
    <3> QED BY <3>2, <2>1
  <2>3. g[0] = base
    BY <2>1
  <2>4. \A k \in 1 .. n + 1 : g[k] = step[k][g[k - 1]]
    <3> TAKE k \in 1 .. n + 1
    <3>1. CASE k = n + 1
      <4>1. g[k] = step[k][f[n]]
        BY <3>1
      <4>2. g[k - 1] = f[n]
        BY <3>1
      <4> QED BY <4>1, <4>2
    <3>2. CASE k # n + 1
      <4>1. k \in 1 .. n /\ g[k] = f[k] /\ g[k - 1] = f[k - 1]
        BY <3>2
      <4> QED BY <4>1, <2>1
    <3> QED BY <3>1, <3>2
  <2> HIDE DEF g
  <2> QED BY <2>2, <2>3, <2>4
<1> HIDE DEF S
<1>3. Nat \subseteq S
  BY <1>1, <1>2, NatInd
<1>4. Upto(N)
  BY <1>3 DEF S
<1> QED BY <1>4 DEF IsRec
=============================================================================
