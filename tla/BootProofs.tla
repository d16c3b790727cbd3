----------------------------- MODULE BootProofs -----------------------------
(***************************************************************************)
(* From the macros of queue.h to the first program, for memories and       *)
(* tables of any size.  The pointer assignments of the macros implement a  *)
(* sequence: what page_free_list and env_free_list rely on, and the models *)
(* of Pmap and Env take as given when they treat the lists as sequences.   *)
(* The tables that vm_init builds map the machine on itself and stay,      *)
(* every page above the kernel is either free or the program's, and what   *)
(* load_elf has read of the program stays in place until it is all there.  *)
(***************************************************************************)
EXTENDS Boot, SequenceTheorems, FiniteSetTheorems, DataLemmas, TLAPS

(* What an assignment leaves in each field.                                *)
LEMMA AssignFields ==
  ASSUME NEW l \in List, NEW x \in Element \cup {NULL}, NEW a \in Element \cup {HEAD},
         NEW m, m = Assign(l, a, x)
  PROVE  /\ m \in List
         /\ m.first = IF a = HEAD THEN x ELSE l.first
         /\ \A y \in Element : m.next[y] = IF a = y THEN x ELSE l.next[y]
         /\ \A y \in Element : m.prev[y] = l.prev[y]
<1>1. CASE a = HEAD
  BY <1>1, QueueAssumption DEF Assign, List
<1>2. CASE a # HEAD
  BY <1>2, QueueAssumption DEF Assign, List
<1> QED BY <1>1, <1>2

(* The same for le_prev.                                                   *)
LEMMA SetPrevFields ==
  ASSUME NEW l \in List, NEW x \in Element, NEW a \in Element \cup {NULL, HEAD},
         NEW m, m = SetPrev(l, x, a)
  PROVE  /\ m \in List
         /\ m.first = l.first
         /\ \A y \in Element : m.next[y] = l.next[y]
         /\ \A y \in Element : m.prev[y] = IF y = x THEN a ELSE l.prev[y]
BY QueueAssumption DEF SetPrev, List

(* LIST_INIT makes the empty list.                                         *)
THEOREM InitEmpties ==
  ASSUME NEW l \in List
  PROVE  LIST_INIT(l) \in List /\ Represents(LIST_INIT(l), <<>>)
<1>1. LIST_INIT(l) \in List /\ LIST_INIT(l).first = NULL
  BY AssignFields DEF LIST_INIT
<1> QED BY <1>1 DEF Represents

(* LIST_INSERT_HEAD puts a new element in front.                           *)
THEOREM InsertHeadPushes ==
  ASSUME NEW l \in List, NEW s \in Seq(Element), Represents(l, s),
         NEW x \in Element, \A i \in 1 .. Len(s) : s[i] # x
  PROVE  /\ LIST_INSERT_HEAD(l, x) \in List
         /\ Represents(LIST_INSERT_HEAD(l, x), <<x>> \o s)
<1> DEFINE a == Assign(l, x, LIST_FIRST(l))
<1> DEFINE b == IF LIST_NEXT(a, x) # NULL THEN SetPrev(a, LIST_FIRST(a), x) ELSE a
<1> DEFINE c == Assign(b, HEAD, x)
<1> DEFINE d == SetPrev(c, x, HEAD)
<1> DEFINE t == <<x>> \o s
<1>1. LIST_INSERT_HEAD(l, x) = d
  BY DEF LIST_INSERT_HEAD
<1>2. l.first \in Element \cup {NULL} /\ l.first = IF s = <<>> THEN NULL ELSE s[1]
  BY DEF List, Represents
<1>3. /\ a \in List /\ a.first = l.first
      /\ \A y \in Element : a.next[y] = IF y = x THEN l.first ELSE l.next[y]
      /\ \A y \in Element : a.prev[y] = l.prev[y]
  <2>1. a = Assign(l, x, l.first)
    BY DEF LIST_FIRST
  <2> HIDE DEF a
  <2>2. x # HEAD /\ x \in Element \cup {HEAD}
    BY QueueAssumption
  <2> QED BY ONLY <1>2, <2>1, <2>2, l \in List, x \in Element DEF Assign, List
<1> HIDE DEF a
<1>4. /\ b \in List /\ b.first = l.first
      /\ \A y \in Element : b.next[y] = a.next[y]
      /\ \A y \in Element : b.prev[y] = IF y = l.first THEN x ELSE l.prev[y]
  <2>1. LIST_NEXT(a, x) = l.first /\ LIST_FIRST(a) = l.first
    BY <1>3 DEF LIST_NEXT, LIST_FIRST
  <2>2. b = IF l.first # NULL THEN SetPrev(a, l.first, x) ELSE a
    BY <2>1
  <2> HIDE DEF b
  <2>3. CASE l.first = NULL
    BY <2>2, <2>3, <1>3, QueueAssumption
  <2>4. CASE l.first # NULL
    <3>1. l.first \in Element /\ x \in Element \cup {NULL, HEAD} /\ b = SetPrev(a, l.first, x)
      BY <2>2, <2>4, <1>2
    <3>2. /\ b \in List /\ b.first = a.first
          /\ \A y \in Element : b.next[y] = a.next[y]
          /\ \A y \in Element : b.prev[y] = IF y = l.first THEN x ELSE a.prev[y]
      BY ONLY <3>1, <1>3 DEF SetPrev, List
    <3> QED BY ONLY <3>2, <1>3
  <2> QED BY <2>3, <2>4
<1> HIDE DEF b
<1>5. /\ c \in List /\ c.first = x
      /\ \A y \in Element : c.next[y] = b.next[y] /\ c.prev[y] = b.prev[y]
  BY <1>4, AssignFields, QueueAssumption
<1> HIDE DEF c
<1>6. /\ d \in List /\ d.first = x
      /\ \A y \in Element : d.next[y] = IF y = x THEN l.first ELSE l.next[y]
      /\ \A y \in Element : d.prev[y] = IF y = x THEN HEAD
                                        ELSE IF y = l.first THEN x ELSE l.prev[y]
  <2>1. /\ d \in List /\ d.first = c.first
        /\ \A y \in Element : d.next[y] = c.next[y]
        /\ \A y \in Element : d.prev[y] = IF y = x THEN HEAD ELSE c.prev[y]
    BY ONLY <1>5, x \in Element DEF SetPrev, List
  <2> HIDE DEF d
  <2> QED BY ONLY <1>3, <1>4, <1>5, <2>1
<1> HIDE DEF d
<1>7. /\ Len(s) \in Nat /\ Len(t) = Len(s) + 1 /\ t[1] = x /\ t # <<>>
      /\ \A i \in 2 .. Len(t) : t[i] = s[i - 1] /\ i - 1 \in 1 .. Len(s)
      /\ \A i \in 1 .. Len(s) : s[i] \in Element
  OBVIOUS
<1> HIDE DEF t
<1>8. s = <<>> <=> Len(s) = 0
  OBVIOUS
<1>9. /\ \A i, j \in 1 .. Len(s) : s[i] = s[j] => i = j
      /\ \A i \in 1 .. Len(s) : l.next[s[i]] = IF i = Len(s) THEN NULL ELSE s[i + 1]
      /\ \A i \in 1 .. Len(s) : l.prev[s[i]] = IF i = 1 THEN HEAD ELSE s[i - 1]
  BY DEF Represents
<1>10. \A i, j \in 1 .. Len(t) : t[i] = t[j] => i = j
  <2> SUFFICES ASSUME NEW i \in 1 .. Len(t), NEW j \in 1 .. Len(t), t[i] = t[j]
               PROVE  i = j
    OBVIOUS
  <2>1. \A k \in 1 .. Len(t) :
          k # 1 => t[k] = s[k - 1] /\ k - 1 \in 1 .. Len(s) /\ t[k] # x
    <3> TAKE k \in 1 .. Len(t)
    <3>1. HAVE k # 1
    <3>2. k \in 2 .. Len(t)
      BY ONLY <3>1, <1>7, k \in 1 .. Len(t)
    <3> QED BY <3>2, <1>7
  <2>2. CASE i = 1 \/ j = 1
    BY ONLY <2>1, <2>2, <1>7, t[i] = t[j], i \in 1 .. Len(t), j \in 1 .. Len(t)
  <2>3. CASE i # 1 /\ j # 1
    <3>1. s[i - 1] = s[j - 1] /\ i - 1 \in 1 .. Len(s) /\ j - 1 \in 1 .. Len(s)
      BY <2>1, <2>3
    <3>2. i - 1 = j - 1
      BY ONLY <3>1, <1>9
    <3> QED BY <3>2
  <2> QED BY <2>2, <2>3
<1>11. ASSUME NEW i \in 1 .. Len(t)
       PROVE  d.next[t[i]] = IF i = Len(t) THEN NULL ELSE t[i + 1]
  <2>1. CASE i = 1
    BY ONLY <2>1, <1>2, <1>6, <1>7, <1>8, x \in Element
  <2>2. CASE i # 1
    <3> DEFINE k == i - 1
    <3>1. k \in 1 .. Len(s) /\ t[i] = s[k] /\ s[k] # x /\ s[k] \in Element
      BY <2>2, <1>7
    <3>2. d.next[t[i]] = IF k = Len(s) THEN NULL ELSE s[k + 1]
      <4>1. d.next[s[k]] = l.next[s[k]]
        BY ONLY <3>1, <1>6
      <4> QED BY ONLY <4>1, <3>1, <1>9
    <3>3. i # Len(t) => t[i + 1] = s[k + 1]
      BY <2>2, <1>7
    <3>4. i = Len(t) <=> k = Len(s)
      BY <1>7
    <3> QED BY ONLY <3>2, <3>3, <3>4
  <2> QED BY <2>1, <2>2
<1>12. ASSUME NEW i \in 1 .. Len(t)
       PROVE  d.prev[t[i]] = IF i = 1 THEN HEAD ELSE t[i - 1]
  <2>1. CASE i = 1
    BY ONLY <2>1, <1>6, <1>7, x \in Element
  <2>2. CASE i # 1
    <3> DEFINE k == i - 1
    <3>1. k \in 1 .. Len(s) /\ t[i] = s[k] /\ s[k] # x /\ s[k] \in Element
      BY <2>2, <1>7
    <3>2. s # <<>> /\ l.first = s[1] /\ 1 \in 1 .. Len(s)
      BY ONLY <3>1, <1>2, <1>7, <1>8
    <3>3. CASE k = 1
      BY ONLY <3>1, <3>2, <3>3, <1>6, <1>7
    <3>4. CASE k # 1
      <4>1. s[k] # l.first
        BY ONLY <3>1, <3>2, <3>4, <1>9
      <4>2. t[i - 1] = s[k - 1]
        BY ONLY <3>1, <3>4, <1>7
      <4> QED BY ONLY <4>1, <4>2, <3>1, <3>4, <1>6, <1>9, <2>2
    <3> QED BY <3>3, <3>4
  <2> QED BY <2>1, <2>2
<1>13. Represents(d, t)
  BY <1>6, <1>7, <1>10, <1>11, <1>12 DEF Represents
<1> QED BY <1>1, <1>6, <1>13 DEF t

(* LIST_REMOVE of the first element leaves the rest: what page_alloc and   *)
(* env_alloc do, the only removals of the kernel.                          *)
THEOREM RemoveDrops ==
  ASSUME NEW l \in List, NEW s \in Seq(Element), Represents(l, s), s # <<>>
  PROVE  /\ LIST_REMOVE(l, LIST_FIRST(l)) \in List
         /\ Represents(LIST_REMOVE(l, LIST_FIRST(l)), Tail(s))
<1> DEFINE x == s[1]
<1> DEFINE n == l.next[x]
<1> DEFINE a == IF n # NULL THEN SetPrev(l, n, l.prev[x]) ELSE l
<1> DEFINE d == Assign(a, a.prev[x], a.next[x])
<1> DEFINE t == Tail(s)
<1>1. /\ Len(s) \in Nat /\ Len(s) # 0 /\ x \in Element /\ 1 \in 1 .. Len(s)
      /\ \A i \in 1 .. Len(s) : s[i] \in Element
      /\ Len(t) = Len(s) - 1
      /\ \A i \in 1 .. Len(t) : t[i] = s[i + 1]
      /\ t = <<>> <=> Len(t) = 0
  <2>1. t \in Seq(Element) /\ Len(t) = Len(s) - 1
        /\ \A i \in 1 .. Len(t) : t[i] = s[i + 1]
    BY HeadTailProperties
  <2>2. Len(s) \in Nat /\ Len(s) # 0 /\ 1 \in 1 .. Len(s)
    OBVIOUS
  <2>3. \A i \in 1 .. Len(s) : s[i] \in Element
    OBVIOUS
  <2>4. t = <<>> <=> Len(t) = 0
    <3> HIDE DEF t
    <3> QED BY <2>1
  <2> QED BY <2>1, <2>2, <2>3, <2>4
<1>2. /\ \A i, j \in 1 .. Len(s) : s[i] = s[j] => i = j
      /\ l.first = x
      /\ \A i \in 1 .. Len(s) : l.next[s[i]] = IF i = Len(s) THEN NULL ELSE s[i + 1]
      /\ \A i \in 1 .. Len(s) : l.prev[s[i]] = IF i = 1 THEN HEAD ELSE s[i - 1]
  BY DEF Represents
<1>3. LIST_REMOVE(l, LIST_FIRST(l)) = d
  BY <1>2 DEF LIST_REMOVE, LIST_FIRST, LIST_NEXT
<1> HIDE DEF x, t
<1>4. /\ l.prev[x] = HEAD
      /\ n = IF Len(s) = 1 THEN NULL ELSE s[2]
      /\ Len(s) # 1 => 2 \in 1 .. Len(s) /\ n \in Element /\ n # x
  BY <1>1, <1>2 DEF x
<1>5. /\ a \in List /\ a.first = x
      /\ \A y \in Element : a.next[y] = l.next[y]
      /\ \A y \in Element : a.prev[y] = IF y = n THEN HEAD ELSE l.prev[y]
  <2>1. CASE Len(s) = 1
    <3>1. a = l /\ n \notin Element
      BY <1>4, <2>1, QueueAssumption
    <3> HIDE DEF a, n
    <3> QED BY <3>1, <1>2
  <2>2. CASE Len(s) # 1
    <3>1. n \in Element /\ a = SetPrev(l, n, HEAD)
      BY <1>4, <2>2, QueueAssumption
    <3> HIDE DEF a, n
    <3> QED BY ONLY <3>1, l \in List, <1>2 DEF SetPrev, List
  <2> QED BY <2>1, <2>2
<1> HIDE DEF a
<1>6. d = Assign(a, HEAD, n)
  <2>1. x # n
    BY <1>1, <1>4, QueueAssumption
  <2>2. a.next[x] = n /\ a.prev[x] = HEAD
    BY <1>1, <1>4, <1>5, <2>1
  <2> QED BY <2>2
<1> HIDE DEF d, n
<1>7. /\ d \in List /\ d.first = n
      /\ \A y \in Element : d.next[y] = a.next[y] /\ d.prev[y] = a.prev[y]
  <2>1. n \in Element \cup {NULL}
    BY <1>1, <1>4
  <2> QED BY ONLY <1>5, <1>6, <2>1 DEF Assign, List
<1>8. \A i, j \in 1 .. Len(t) : t[i] = t[j] => i = j
  <2> SUFFICES ASSUME NEW i \in 1 .. Len(t), NEW j \in 1 .. Len(t), t[i] = t[j]
               PROVE  i = j
    OBVIOUS
  <2>1. s[i + 1] = s[j + 1] /\ i + 1 \in 1 .. Len(s) /\ j + 1 \in 1 .. Len(s)
    BY <1>1
  <2>2. i + 1 = j + 1
    BY ONLY <2>1, <1>2
  <2> QED BY <2>2
<1>9. d.first = IF t = <<>> THEN NULL ELSE t[1]
  <2>1. CASE Len(s) = 1
    BY <2>1, <1>1, <1>4, <1>7
  <2>2. CASE Len(s) # 1
    <3>1. t # <<>> /\ 1 \in 1 .. Len(t)
      BY <1>1, <2>2
    <3>2. t[1] = s[2]
      BY <3>1, <1>1
    <3> QED BY <3>1, <3>2, <2>2, <1>4, <1>7
  <2> QED BY <2>1, <2>2
<1>10. ASSUME NEW i \in 1 .. Len(t)
       PROVE  /\ d.next[t[i]] = IF i = Len(t) THEN NULL ELSE t[i + 1]
              /\ d.prev[t[i]] = IF i = 1 THEN HEAD ELSE t[i - 1]
  <2> DEFINE k == i + 1
  <2>1. k \in 1 .. Len(s) /\ k # 1 /\ t[i] = s[k] /\ s[k] \in Element
    BY <1>1
  <2>2. d.next[t[i]] = IF k = Len(s) THEN NULL ELSE s[k + 1]
    <3>1. d.next[s[k]] = a.next[s[k]] /\ a.next[s[k]] = l.next[s[k]]
      BY ONLY <2>1, <1>5, <1>7
    <3>2. l.next[s[k]] = IF k = Len(s) THEN NULL ELSE s[k + 1]
      BY ONLY <2>1, <1>2
    <3> QED BY ONLY <2>1, <3>1, <3>2
  <2>3. d.next[t[i]] = IF i = Len(t) THEN NULL ELSE t[i + 1]
    <3>1. i = Len(t) <=> k = Len(s)
      BY <1>1
    <3>2. i # Len(t) => t[i + 1] = s[k + 1]
      <4>1. HAVE i # Len(t)
      <4>2. i + 1 \in 1 .. Len(t)
        BY <4>1, <1>1
      <4> QED BY <4>2, <1>1
    <3> QED BY ONLY <2>2, <3>1, <3>2
  <2>4. d.prev[t[i]] = IF s[k] = n THEN HEAD ELSE s[k - 1]
    <3>1. d.prev[s[k]] = a.prev[s[k]]
      BY ONLY <2>1, <1>7
    <3>2. a.prev[s[k]] = IF s[k] = n THEN HEAD ELSE l.prev[s[k]]
      BY ONLY <2>1, <1>5
    <3>3. l.prev[s[k]] = s[k - 1]
      BY ONLY <2>1, <1>2
    <3> QED BY ONLY <2>1, <3>1, <3>2, <3>3
  <2>5. Len(s) # 1 /\ 2 \in 1 .. Len(s) /\ n = s[2]
    BY <2>1, <1>1, <1>4
  <2>6. s[k] = n <=> i = 1
    BY ONLY <2>1, <2>5, <1>2, i \in 1 .. Len(t), k = i + 1, <1>1
  <2>7. i # 1 => t[i - 1] = s[k - 1]
    <3>1. HAVE i # 1
    <3>2. i - 1 \in 1 .. Len(t)
      BY <3>1, <1>1
    <3>3. t[i - 1] = s[i - 1 + 1]
      BY <3>2, <1>1
    <3> QED BY <3>2, <3>3, <1>1
  <2>8. d.prev[t[i]] = IF i = 1 THEN HEAD ELSE t[i - 1]
    BY ONLY <2>4, <2>6, <2>7
  <2> QED BY <2>3, <2>8
<1>11. Represents(d, t)
  BY <1>8, <1>9, <1>10 DEF Represents
<1> QED BY <1>3, <1>7, <1>11 DEF t

-----------------------------------------------------------------------------
(***************************************************************************)
(* The tables of the kernel.  boot_map_segment maps addresses in order, so *)
(* the tables of a level are numbered: entry x of a level is in its table  *)
(* number Up(x), at index x % PTE2PT.  Level 4 is the directory alone, the *)
(* entries of level 1 are pages.                                           *)
(***************************************************************************)

(* The number of the table of level k that the walk to x goes through.     *)
Num(k, x) == CASE k = 0 -> x
               [] k = 1 -> Up(x)
               [] k = 2 -> Up(Up(x))
               [] k = 3 -> Up(Up(Up(x)))

LastPage == 2 * MAXPA - 1

(* The tables that map every page, and the directory, fit in front of the  *)
(* array of page descriptors, and two entries of a directory suffice, for  *)
(* the kernel and for the program.                                         *)
LayoutFits ==
  /\ KSTACKTOP + 4 + Num(1, LastPage) + Num(2, LastPage) + Num(3, LastPage) <= KERNEL_PAGES
  /\ Num(3, LastPage) <= 1
  /\ Num(3, USTACKTOP - 1) <= 1

Entry == [at : Nat \cup {BadPointer},
          attr : {"invalid", "table", "NORMAL", "DEVICE", "RW_ALL"}]
Tables == [Element -> [Index -> Entry]]

(* What entry x of level j is, when L[j][q] is the page of table q there.  *)
Content(L, j, x) ==
  IF j = 1 THEN [at |-> x, attr |-> Attribute(x)] ELSE Link(L[j - 1][x])

Places == [1 .. 4 -> [Nat -> Nat]]
Counts == [0 .. 4 -> Nat]

(* n[j] tables of level j, or n[0] mapped pages; b is boot_alloc's freemem.*)
Sized(b, n) ==
  /\ n[4] = 1
  /\ \A k \in 1 .. 3 : n[k] <= Num(k, LastPage) + 1
  /\ b = KSTACKTOP + 1 + n[1] + n[2] + n[3]
Placed(b, n, L) ==
  /\ L[4][0] = KSTACKTOP
  /\ \A j \in 1 .. 4, q \in Nat : q < n[j] => L[j][q] \in KSTACKTOP .. (b - 1)
  /\ \A p \in KSTACKTOP .. (b - 1) : \E j \in 1 .. 4, q \in Nat : q < n[j] /\ L[j][q] = p
Apart(n, L) ==
  \A j, l \in 1 .. 4, q, r \in Nat :
    q < n[j] /\ r < n[l] /\ L[j][q] = L[l][r] => j = l /\ q = r
Cover(n) == \A j \in 1 .. 4, x \in Nat : x < n[j - 1] => Up(x) < n[j]
Filled(t, n, L) ==
  \A j \in 1 .. 4, x \in Nat :
    Up(x) < n[j] =>
      t[L[j][Up(x)]][x % PTE2PT] = IF x < n[j - 1] THEN Content(L, j, x) ELSE Invalid

Shape(t, b, n, L) ==
  Sized(b, n) /\ Placed(b, n, L) /\ Apart(n, L) /\ Cover(n) /\ Filled(t, n, L)

-----------------------------------------------------------------------------
(* Up and % take a number apart.                                           *)
LEMMA UpFacts ==
  ASSUME NEW x \in Nat
  PROVE  /\ Up(x) \in Nat /\ x % PTE2PT \in Index
         /\ x = PTE2PT * Up(x) + (x % PTE2PT)
BY BootAssumption DEF Up, Index

(* Up is monotonic: addresses in order go through tables in order.         *)
LEMMA UpMono ==
  ASSUME NEW a \in Nat, NEW b \in Nat, a <= b
  PROVE  Up(a) <= Up(b)
<1> DEFINE d == Up(a)
           e == Up(b)
<1>1. d \in Nat /\ e \in Nat /\ a % PTE2PT \in 0..(PTE2PT-1) /\ b % PTE2PT \in 0..(PTE2PT-1) /\ a = PTE2PT * d + (a % PTE2PT) /\ b = PTE2PT * e + (b % PTE2PT)
  BY UpFacts DEF Index
<1> HIDE DEF d, e
<1> SUFFICES ASSUME e + 1 <= d PROVE FALSE
  BY <1>1 DEF d, e
<1>2. PTE2PT * (e + 1) <= PTE2PT * d
  BY <1>1, BootAssumption
<1>3. PTE2PT * (e + 1) = PTE2PT * e + PTE2PT
  BY <1>1, BootAssumption
<1> DEFINE u == PTE2PT * d
           v == PTE2PT * e
<1>4. u \in Nat /\ v \in Nat /\ PTE2PT \in Nat /\ v + PTE2PT <= u
  BY <1>1, <1>2, <1>3, BootAssumption
<1>5. a = u + (a % PTE2PT) /\ b = v + (b % PTE2PT)
  BY <1>1
<1> HIDE DEF u, v
<1> QED BY ONLY <1>1, <1>4, <1>5, a <= b, a \in Nat, b \in Nat

(* The next entry is in the same table or in the next one.                 *)
LEMMA UpNext ==
  ASSUME NEW a \in Nat
  PROVE  Up(a + 1) \in {Up(a), Up(a) + 1}
BY BootAssumption DEF Up

(* A table number and an index make one entry.                             *)
LEMMA UpOf ==
  ASSUME NEW q \in Nat, NEW i \in Index
  PROVE  \E x \in Nat : Up(x) = q /\ x % PTE2PT = i
<1> DEFINE x == PTE2PT * q + i
           d == Up(x)
           r == x % PTE2PT
<1>1. x \in Nat /\ i \in 0 .. (PTE2PT - 1)
  BY BootAssumption DEF Index
<1>2. d \in Nat /\ r \in 0 .. (PTE2PT - 1) /\ x = PTE2PT * d + r
  BY <1>1, UpFacts DEF Index
<1>3. PTE2PT * d + r = PTE2PT * q + i
  BY <1>2
<1> HIDE DEF d, r
<1>4. ~(d < q)
  <2> SUFFICES ASSUME d + 1 <= q PROVE FALSE
    BY <1>2
  <2>1. PTE2PT * (d + 1) <= PTE2PT * q
    BY <1>2, BootAssumption
  <2>2. PTE2PT * (d + 1) = PTE2PT * d + PTE2PT
    BY <1>2, BootAssumption
  <2> QED BY <2>1, <2>2, <1>1, <1>2, <1>3, BootAssumption
<1>5. ~(q < d)
  <2> SUFFICES ASSUME q + 1 <= d PROVE FALSE
    BY <1>2
  <2>1. PTE2PT * (q + 1) <= PTE2PT * d
    BY <1>2, BootAssumption
  <2>2. PTE2PT * (q + 1) = PTE2PT * q + PTE2PT
    BY BootAssumption
  <2> QED BY <2>1, <2>2, <1>1, <1>2, <1>3, BootAssumption
<1>6. d = q
  BY <1>2, <1>4, <1>5
<1>7. r = i
  BY <1>1, <1>2, <1>3, <1>6, BootAssumption
<1> QED BY <1>1, <1>6, <1>7 DEF d, r

(* The entries of the first table.                                         *)
LEMMA UpSmall ==
  ASSUME NEW x \in Nat, x < PTE2PT
  PROVE  Up(x) = 0 /\ x % PTE2PT = x
BY BootAssumption DEF Up

(* Two entries of one table with one index are one.                        *)
LEMMA UpOne ==
  ASSUME NEW x \in Nat, NEW y \in Nat, Up(x) = Up(y), x % PTE2PT = y % PTE2PT
  PROVE  x = y
BY UpFacts

(* The tables of a walk, level by level, and those of the walk to the next *)
(* page.                                                                   *)
LEMMA NumFacts ==
  ASSUME NEW x \in Nat, NEW k \in 0 .. 3
  PROVE  /\ Num(k, x) \in Nat
         /\ k < 3 => Num(k + 1, x) = Up(Num(k, x))
         /\ Num(k, x + 1) \in {Num(k, x), Num(k, x) + 1}
<1>1. Up(x) \in Nat /\ Up(Up(x)) \in Nat /\ Up(Up(Up(x))) \in Nat
  BY UpFacts
<1>2. Up(x + 1) \in {Up(x), Up(x) + 1}
  BY UpNext
<1>3. Up(Up(x + 1)) \in {Up(Up(x)), Up(Up(x)) + 1}
  BY <1>1, <1>2, UpNext
<1>4. Up(Up(Up(x + 1))) \in {Up(Up(Up(x))), Up(Up(Up(x))) + 1}
  BY <1>1, <1>3, UpNext
<1>5. k = 0 \/ k = 1 \/ k = 2 \/ k = 3
  OBVIOUS
<1> QED BY <1>1, <1>2, <1>3, <1>4, <1>5 DEF Num

(* The tables of a walk to a larger address have larger numbers.           *)
LEMMA NumMono ==
  ASSUME NEW x \in Nat, NEW y \in Nat, x <= y, NEW k \in 0 .. 3
  PROVE  Num(k, x) <= Num(k, y)
<1>1. Up(x) \in Nat /\ Up(Up(x)) \in Nat /\ Up(y) \in Nat /\ Up(Up(y)) \in Nat
  BY UpFacts
<1>2. Up(x) <= Up(y)
  BY UpMono
<1>3. Up(Up(x)) <= Up(Up(y))
  BY <1>1, <1>2, UpMono
<1>4. Up(Up(Up(x))) <= Up(Up(Up(y)))
  BY <1>1, <1>3, UpMono
<1>5. k = 0 \/ k = 1 \/ k = 2 \/ k = 3
  OBVIOUS
<1> QED BY <1>2, <1>3, <1>4, <1>5 DEF Num

(* The last page and the tables above it are numbers.                      *)
LEMMA LastNat == LastPage \in Nat /\ \A k \in 0 .. 3 : Num(k, LastPage) \in Nat
<1>1. LastPage \in Nat
  BY BootAssumption DEF LastPage
<1> QED BY <1>1, NumFacts

(* boot_alloc never reaches the array of page descriptors.                 *)
LEMMA SizedBound ==
  ASSUME LayoutFits, NEW n \in Counts, NEW b, Sized(b, n)
  PROVE  /\ b \in Nat /\ KSTACKTOP < b /\ b <= KERNEL_PAGES
         /\ \A p \in KSTACKTOP .. b : p \in Element /\ p < TIMESTACKTOP
<1>1. n[1] \in Nat /\ n[2] \in Nat /\ n[3] \in Nat /\ KSTACKTOP \in Nat
      /\ KERNEL_PAGES \in Nat /\ TIMESTACKTOP \in Nat /\ MAXPA \in Nat
  BY BootAssumption DEF Counts
<1>2. n[1] <= Num(1, LastPage) + 1 /\ n[2] <= Num(2, LastPage) + 1 /\ n[3] <= Num(3, LastPage) + 1
  BY DEF Sized
<1>3. Num(1, LastPage) \in Nat /\ Num(2, LastPage) \in Nat /\ Num(3, LastPage) \in Nat
  BY LastNat
<1>4. b \in Nat /\ KSTACKTOP < b /\ b <= KERNEL_PAGES
  BY <1>1, <1>2, <1>3 DEF LayoutFits, Sized
<1> QED BY <1>1, <1>3, <1>4, BootAssumption DEF LayoutFits

(* Entry x of level j is in a table of the kernel.                         *)
LEMMA TableOf ==
  ASSUME LayoutFits, NEW n \in Counts, NEW L \in Places, NEW b, Sized(b, n), Placed(b, n, L),
         NEW j \in 1 .. 4, NEW q \in Nat, q < n[j]
  PROVE  L[j][q] \in KSTACKTOP .. (b - 1) /\ L[j][q] \in Element /\ L[j][q] # b
<1>1. b \in Nat /\ L[j][q] \in KSTACKTOP .. (b - 1)
  BY SizedBound DEF Placed
<1>2. L[j][q] \in KSTACKTOP .. b
  BY <1>1, BootAssumption
<1> QED BY <1>1, <1>2, SizedBound

(* The walk m is at table number q of level j.                             *)
Walked(m, n, L, j, q) ==
  /\ m.table \in Tables /\ n \in Counts /\ L \in Places
  /\ Shape(m.table, m.freemem, n, L)
  /\ q < n[j]
  /\ m = [freemem |-> m.freemem, table |-> m.table, at |-> L[j][q]]

(* One level of boot_pgdir_walk to entry x, whose table is there: it goes  *)
(* on to the table number x below, a new one if x is the first entry that  *)
(* is not there.                                                           *)
Ready(m, n, L, k, x) ==
  Walked(m, n, L, k + 1, Up(x)) /\ x <= n[k] /\ x <= Num(k, LastPage)
Stepped(m, n, k, x) ==
  \E d, M : /\ Walked(BootStep(m, x % PTE2PT), d, M, k, x)
            /\ d = [n EXCEPT ![k] = IF x < n[k] THEN n[k] ELSE x + 1]

(* BootStep keeps the shape, whether it finds the table or makes it.       *)
LEMMA BootStepShapes ==
  ASSUME LayoutFits, NEW m, NEW n, NEW L, NEW k \in 1 .. 3, NEW x \in Nat,
         Ready(m, n, L, k, x)
  PROVE  Stepped(m, n, k, x)
<1> DEFINE t == m.table
           b == m.freemem
           r == BootStep(m, x % PTE2PT)
<1>a. /\ n \in Counts /\ L \in Places /\ t \in Tables /\ Shape(t, b, n, L)
      /\ m = [freemem |-> b, table |-> t, at |-> L[k + 1][Up(x)]]
      /\ Up(x) < n[k + 1] /\ x <= n[k] /\ x <= Num(k, LastPage)
  BY DEF Ready, Walked
<1> HIDE DEF t, b, r
<1> USE <1>a
<1> DEFINE A == L[k + 1][Up(x)]
           i == x % PTE2PT
<1>0. Up(x) < n[k + 1] /\ m.at = A
  OBVIOUS
<1>1. Sized(b, n) /\ Placed(b, n, L) /\ Apart(n, L) /\ Cover(n) /\ Filled(t, n, L)
  BY DEF Shape
<1>2. k + 1 \in 1 .. 4 /\ k \in 1 .. 4 /\ k \in 0 .. 4 /\ k # 4 /\ Up(x) \in Nat /\ i \in Index
  BY UpFacts
<1>3. A \in KSTACKTOP .. (b - 1) /\ A \in Element /\ A # b
  BY <1>0, <1>1, <1>2, TableOf
<1>4. t[A][i] = IF x < n[k] THEN Link(L[k][x]) ELSE Invalid
  <2>1. t[A][i] = IF x < n[(k + 1) - 1] THEN Content(L, k + 1, x) ELSE Invalid
    BY <1>0, <1>1, <1>2 DEF Filled
  <2>2. Content(L, k + 1, x) = Link(L[k][x])
    BY DEF Content
  <2> QED BY <2>1, <2>2
<1>5. m.at = A /\ m.table = t /\ m.freemem = b
  OBVIOUS
<1> HIDE DEF A, i
<1>6. r = BootStep(m, i)
  BY DEF i, r
<1> SUFFICES \E d, M : Walked(r, d, M, k, x) /\ d = [n EXCEPT ![k] = IF x < n[k] THEN n[k] ELSE x + 1]
  BY DEF r, Stepped
<1>7. CASE x < n[k]
  <2>1. t[A][i] # Invalid /\ t[A][i].at = L[k][x]
    BY <1>4, <1>7 DEF Link, Invalid
  <2>2. r = [m EXCEPT !.at = L[k][x]]
    BY <1>3, <1>5, <1>6, <2>1 DEF BootStep
  <2>3. n = [n EXCEPT ![k] = n[k]]
    BY <1>2 DEF Counts
  <2>4. r.table = t /\ r.freemem = b /\ r = [freemem |-> b, table |-> t, at |-> L[k][x]]
    BY <2>2
  <2> QED BY <1>7, <2>3, <2>4 DEF Walked
<1>8. CASE ~(x < n[k])
  <2> DEFINE d == [n EXCEPT ![k] = x + 1]
             M == [L EXCEPT ![k] = [L[k] EXCEPT ![x] = b]]
             t1 == [t EXCEPT ![b] = Cleared]
             t2 == [t1 EXCEPT ![A] = [t1[A] EXCEPT ![i] = Link(b)]]
  <2>1. x = n[k]
    BY <1>2, <1>8 DEF Counts
  <2>2. d \in Counts /\ M \in Places
    <3>1. b \in Nat
      BY <1>1, SizedBound
    <3> QED BY <3>1 DEF Counts, Places
  <2>3. /\ \A j \in 0 .. 4 : d[j] = IF j = k THEN x + 1 ELSE n[j]
        /\ \A j \in 1 .. 4, q \in Nat : M[j][q] = IF j = k /\ q = x THEN b ELSE L[j][q]
    BY <1>2 DEF Counts, Places
  <2>4. b \in Nat /\ KSTACKTOP \in Nat /\ Sized(b + 1, d)
    <3>1. b \in Nat /\ KSTACKTOP \in Nat /\ n[1] \in Nat /\ n[2] \in Nat /\ n[3] \in Nat
      BY <1>1, SizedBound, BootAssumption DEF Counts
    <3>2. k = 1 \/ k = 2 \/ k = 3
      OBVIOUS
    <3>3. d[4] = n[4] /\ \A j \in 1 .. 3 : d[j] = IF j = k THEN n[j] + 1 ELSE n[j]
      BY <2>1, <2>3
    <3> HIDE DEF d
    <3>4. \A j \in 1 .. 3 : d[j] <= Num(j, LastPage) + 1
      BY <1>1, <2>1, <3>3, LastNat DEF Sized
    <3>5. b + 1 = KSTACKTOP + 1 + d[1] + d[2] + d[3]
      BY <1>1, <3>1, <3>2, <3>3 DEF Sized
    <3> QED BY <1>1, <3>1, <3>3, <3>4, <3>5 DEF Sized
  <2>5. b \in Element /\ b + 1 < MAXPA
    <3>1. b + 1 <= KERNEL_PAGES /\ b \in Nat
      BY <2>2, <2>4, SizedBound
    <3> QED BY <3>1, BootAssumption
  <2>6. r = [freemem |-> b + 1, table |-> t2, at |-> b]
    <3>1. t[A][i] = Invalid
      BY <1>4, <1>8
    <3>2. boot_alloc(m) = [freemem |-> b + 1, table |-> t1, at |-> b]
      BY <1>5, <2>4, <2>5, BootAssumption DEF boot_alloc
    <3>3. r = [boot_alloc(m) EXCEPT !.table[A][i] = Link(boot_alloc(m).at)]
      BY <1>3, <1>5, <1>6, <3>1 DEF BootStep
    <3> HIDE DEF t1
    <3> QED BY <3>2, <3>3
  <2>7. /\ t2 \in Tables
        /\ \A p \in Element, y \in Index :
             t2[p][y] = IF p = A /\ y = i THEN Link(b)
                        ELSE IF p = b THEN Invalid ELSE t[p][y]
    <3>1. Link(b) \in Entry /\ Invalid \in Entry
      BY <2>4 DEF Link, Invalid, Entry
    <3>2. Cleared \in [Index -> Entry] /\ \A y \in Index : Cleared[y] = Invalid
      BY <3>1 DEF Cleared
    <3>3. t1 \in Tables /\ t1[b] = Cleared /\ \A p \in Element : p # b => t1[p] = t[p]
      BY <2>5, <3>2 DEF Tables
    <3> HIDE DEF t1
    <3>4. t1[A] \in [Index -> Entry]
      BY <1>3, <3>3 DEF Tables
    <3>5. t2 \in Tables /\ t2[A] = [t1[A] EXCEPT ![i] = Link(b)]
          /\ \A p \in Element : p # A => t2[p] = t1[p]
      BY <1>2, <1>3, <3>1, <3>3, <3>4 DEF Tables
    <3>6. \A y \in Index : t2[A][y] = IF y = i THEN Link(b) ELSE t1[A][y]
      BY <3>4, <3>5
    <3> HIDE DEF t2
    <3>7. ASSUME NEW p \in Element, NEW y \in Index
          PROVE  t2[p][y] = IF p = A /\ y = i THEN Link(b)
                            ELSE IF p = b THEN Invalid ELSE t[p][y]
      <4>1. CASE p = A
        BY <1>3, <3>3, <3>6, <4>1
      <4>2. CASE p # A
        BY <3>2, <3>3, <3>5, <4>2
      <4> QED BY <4>1, <4>2
    <3> QED BY <3>5, <3>7
  <2> HIDE DEF d, M, t1, t2
  <2>8. Placed(b + 1, d, M)
    <3>1. M[4][0] = KSTACKTOP
      BY <1>1, <1>2, <2>3 DEF Placed
    <3>2. ASSUME NEW j \in 1 .. 4, NEW q \in Nat, q < d[j]
          PROVE  M[j][q] \in KSTACKTOP .. ((b + 1) - 1)
      <4>1. CASE j = k /\ q = x
        <5>1. M[j][q] = b
          BY <2>3, <4>1
        <5>2. KSTACKTOP < b
          BY <1>1, SizedBound
        <5> QED BY <2>4, <5>1, <5>2
      <4>2. CASE ~(j = k /\ q = x)
        <5>1. q < n[j]
          BY <2>1, <2>3, <3>2, <4>2
        <5>2. L[j][q] \in KSTACKTOP .. (b - 1) /\ M[j][q] = L[j][q]
          BY <1>1, <2>3, <4>2, <5>1 DEF Placed
        <5> QED BY <2>4, <5>2
      <4> QED BY <4>1, <4>2
    <3>3. ASSUME NEW p \in KSTACKTOP .. ((b + 1) - 1)
          PROVE  \E j \in 1 .. 4, q \in Nat : q < d[j] /\ M[j][q] = p
      <4>1. CASE p = b
        <5>1. x < d[k] /\ M[k][x] = b
          BY <1>2, <2>3
        <5> QED BY <1>2, <4>1, <5>1
      <4>2. CASE p # b
        <5>1. p \in KSTACKTOP .. (b - 1)
          BY <2>4, <4>2
        <5>2. PICK j \in 1 .. 4, q \in Nat : q < n[j] /\ L[j][q] = p
          BY <1>1, <5>1 DEF Placed
        <5>3. ~(j = k /\ q = x)
          BY <2>1, <5>2
        <5>4. q < d[j] /\ M[j][q] = p
          BY <2>1, <2>3, <5>2, <5>3
        <5> QED BY <5>4
      <4> QED BY <4>1, <4>2
    <3> QED BY <3>1, <3>2, <3>3 DEF Placed
  <2>9. Apart(d, M)
    <3> SUFFICES ASSUME NEW j \in 1 .. 4, NEW l \in 1 .. 4, NEW q \in Nat, NEW s \in Nat,
                        q < d[j], s < d[l], M[j][q] = M[l][s]
                 PROVE  j = l /\ q = s
      BY DEF Apart
    <3>1. ~(j = k /\ q = x) => q < n[j] /\ M[j][q] = L[j][q] /\ L[j][q] # b
      <4>1. HAVE ~(j = k /\ q = x)
      <4>2. q < n[j] /\ M[j][q] = L[j][q]
        BY <2>1, <2>3, <4>1
      <4> QED BY <1>1, <4>2, TableOf
    <3>2. ~(l = k /\ s = x) => s < n[l] /\ M[l][s] = L[l][s] /\ L[l][s] # b
      <4>1. HAVE ~(l = k /\ s = x)
      <4>2. s < n[l] /\ M[l][s] = L[l][s]
        BY <2>1, <2>3, <4>1
      <4> QED BY <1>1, <4>2, TableOf
    <3>3. (j = k /\ q = x) => M[j][q] = b
      BY <2>3
    <3>4. (l = k /\ s = x) => M[l][s] = b
      BY <2>3
    <3>5. ~(j = k /\ q = x) /\ ~(l = k /\ s = x) => j = l /\ q = s
      BY <1>1, <3>1, <3>2 DEF Apart
    <3> QED BY <3>1, <3>2, <3>3, <3>4, <3>5
  <2>10. Cover(d)
    <3> SUFFICES ASSUME NEW j \in 1 .. 4, NEW y \in Nat, y < d[j - 1]
                 PROVE  Up(y) < d[j]
      BY DEF Cover
    <3>1. j - 1 \in 0 .. 4 /\ j \in 0 .. 4 /\ n[j] \in Nat /\ n[j] <= d[j] /\ Up(y) \in Nat
          /\ d[j] \in Nat
      BY <1>2, <2>1, <2>2, <2>3, UpFacts DEF Counts
    <3>2. CASE j - 1 = k /\ y = x
      <4>1. j = k + 1 /\ Up(y) < n[j]
        BY <3>2
      <4> QED BY <3>1, <4>1
    <3>3. CASE ~(j - 1 = k /\ y = x)
      <4>1. y < n[j - 1]
        BY <2>1, <2>3, <3>1, <3>3
      <4>2. Up(y) < n[j]
        BY <1>1, <4>1 DEF Cover
      <4> QED BY <3>1, <4>2
    <3> QED BY <3>2, <3>3
  <2>11. Filled(t2, d, M)
    <3> SUFFICES ASSUME NEW j \in 1 .. 4, NEW y \in Nat, Up(y) < d[j]
                 PROVE  t2[M[j][Up(y)]][y % PTE2PT]
                          = IF y < d[j - 1] THEN Content(M, j, y) ELSE Invalid
      BY DEF Filled
    <3>1. j - 1 \in 0 .. 4 /\ j \in 0 .. 4 /\ Up(y) \in Nat /\ y % PTE2PT \in Index
      BY UpFacts
    <3>2. CASE j = k /\ Up(y) = x
      <4>1. M[j][Up(y)] = b
        BY <2>3, <3>1, <3>2
      <4>2. t2[b][y % PTE2PT] = Invalid
        BY <1>3, <2>5, <2>7, <3>1
      <4>3. ~(y < n[j - 1])
        <5>1. y < n[j - 1] => Up(y) < n[j]
          BY <1>1 DEF Cover
        <5> QED BY <2>1, <3>2, <5>1
      <4>4. d[j - 1] = n[j - 1]
        BY <2>3, <3>1, <3>2
      <4> QED BY <4>1, <4>2, <4>3, <4>4
    <3>3. CASE ~(j = k /\ Up(y) = x)
      <4> DEFINE p == L[j][Up(y)]
      <4>1. Up(y) < n[j] /\ M[j][Up(y)] = p
        BY <2>1, <2>3, <3>1, <3>3
      <4>2. p \in Element /\ p # b
        BY <1>1, <3>1, <4>1, TableOf
      <4>3. t[p][y % PTE2PT] = IF y < n[j - 1] THEN Content(L, j, y) ELSE Invalid
        BY <1>1, <4>1 DEF Filled
      <4>4. CASE p = A /\ y % PTE2PT = i
        <5>1. j = k + 1 /\ Up(y) = Up(x)
          BY <1>1, <1>2, <3>1, <4>1, <4>4 DEF Apart, A
        <5>2. y = x
          BY <4>4, <5>1, UpOne DEF i
        <5>3. t2[p][y % PTE2PT] = Link(b)
          BY <2>7, <3>1, <4>2, <4>4
        <5>4. j - 1 = k /\ j # 1 /\ y < d[j - 1] /\ M[j - 1][y] = b
          BY <1>2, <2>3, <5>1, <5>2
        <5>5. Content(M, j, y) = Link(b)
          BY <5>4 DEF Content
        <5> QED BY <4>1, <5>3, <5>4, <5>5
      <4>5. CASE ~(p = A /\ y % PTE2PT = i)
        <5>1. t2[p][y % PTE2PT] = t[p][y % PTE2PT]
          BY <2>7, <3>1, <4>2, <4>5
        <5>2. ~(j - 1 = k /\ y = x)
          BY <4>5 DEF A, i
        <5>3. y < d[j - 1] <=> y < n[j - 1]
          BY <2>1, <2>3, <3>1, <5>2
        <5>4. Content(M, j, y) = Content(L, j, y)
          <6>1. CASE j = 1
            BY <6>1 DEF Content
          <6>2. CASE j # 1
            <7>1. j - 1 \in 1 .. 4 /\ M[j - 1][y] = L[j - 1][y]
              BY <2>3, <5>2, <6>2
            <7> QED BY <6>2, <7>1 DEF Content
          <6> QED BY <6>1, <6>2
        <5> HIDE DEF p
        <5> QED BY <4>1, <4>3, <5>1, <5>3, <5>4
      <4> QED BY <4>4, <4>5
    <3> QED BY <3>2, <3>3
  <2>12. r.freemem = b + 1 /\ r.table = t2 /\ M[k][x] = b
    BY <1>2, <2>3, <2>6
  <2>13. Shape(r.table, r.freemem, d, M)
    BY <2>4, <2>8, <2>9, <2>10, <2>11, <2>12 DEF Shape
  <2>14. d = [n EXCEPT ![k] = IF x < n[k] THEN n[k] ELSE x + 1]
    BY <1>8 DEF d
  <2>15. x < d[k] /\ r = [freemem |-> r.freemem, table |-> r.table, at |-> M[k][x]]
    BY <1>2, <2>3, <2>6, <2>12
  <2> QED BY <2>2, <2>7, <2>12, <2>13, <2>14, <2>15 DEF Walked
<1> QED BY <1>7, <1>8

(* The entry that boot_map_segment makes for the next page.                *)
LEMMA EntryShapes ==
  ASSUME LayoutFits, NEW t \in Tables, NEW n \in Counts, NEW L \in Places, NEW b,
         Shape(t, b, n, L), Up(n[0]) < n[1],
         NEW x, x = n[0],
         NEW u, u = [t EXCEPT ![L[1][Up(x)]][x % PTE2PT] = [at |-> x, attr |-> Attribute(x)]],
         NEW d, d = [n EXCEPT ![0] = x + 1]
  PROVE  u \in Tables /\ d \in Counts /\ Shape(u, b, d, L)
<1> DEFINE A == L[1][Up(x)]
           i == x % PTE2PT
           e == [at |-> x, attr |-> Attribute(x)]
<1>1. Sized(b, n) /\ Placed(b, n, L) /\ Apart(n, L) /\ Cover(n) /\ Filled(t, n, L)
  BY DEF Shape
<1>2. x \in Nat /\ d \in Counts /\ \A j \in 0 .. 4 : d[j] = IF j = 0 THEN x + 1 ELSE n[j]
  BY DEF Counts
<1>3. Up(x) \in Nat /\ i \in Index /\ Up(x) < n[1]
  BY <1>2, UpFacts
<1>4. A \in Element
  BY <1>1, <1>3, TableOf
<1>5. e \in Entry /\ e = Content(L, 1, x)
  BY <1>2 DEF Entry, Attribute, Content
<1>6. u = [t EXCEPT ![A] = [t[A] EXCEPT ![i] = e]]
  BY DEF Tables
<1> HIDE DEF A, i, e
<1>7. u \in Tables /\ \A p \in Element, y \in Index :
                         u[p][y] = IF p = A /\ y = i THEN e ELSE t[p][y]
  <2>1. t[A] \in [Index -> Entry]
    BY <1>4 DEF Tables
  <2>2. u \in Tables /\ u[A] = [t[A] EXCEPT ![i] = e] /\ \A p \in Element : p # A => u[p] = t[p]
    <3>1. [t[A] EXCEPT ![i] = e] \in [Index -> Entry]
      BY <1>3, <1>5, <2>1
    <3> QED BY ONLY t \in Tables, <1>4, <1>6, <3>1 DEF Tables
  <2>3. \A y \in Index : u[A][y] = IF y = i THEN e ELSE t[A][y]
    BY <2>1, <2>2
  <2> QED BY <2>2, <2>3
<1>8. \A j \in 1 .. 4 : d[j] = n[j]
  BY <1>2
<1>9. Sized(b, d)
  <2>1. d[4] = n[4] /\ d[1] = n[1] /\ d[2] = n[2] /\ d[3] = n[3]
    BY <1>8
  <2>2. \A k \in 1 .. 3 : d[k] = n[k]
    BY <1>8
  <2> QED BY <1>1, <2>1, <2>2 DEF Sized
<1>10. Placed(b, d, L)
  BY <1>1, <1>8 DEF Placed
<1>11. Apart(d, L)
  BY <1>1, <1>8 DEF Apart
<1>12. Cover(d)
  <2> SUFFICES ASSUME NEW j \in 1 .. 4, NEW y \in Nat, y < d[j - 1]
               PROVE  Up(y) < d[j]
    BY DEF Cover
  <2>1. CASE j = 1 /\ y = x
    BY <1>3, <1>8, <2>1
  <2>2. CASE ~(j = 1 /\ y = x)
    <3>1. y < n[j - 1]
      BY <1>2, <2>2
    <3> QED BY <1>1, <1>8, <3>1 DEF Cover
  <2> QED BY <2>1, <2>2
<1>13. Filled(u, d, L)
  <2> SUFFICES ASSUME NEW j \in 1 .. 4, NEW y \in Nat, Up(y) < d[j]
               PROVE  u[L[j][Up(y)]][y % PTE2PT]
                        = IF y < d[j - 1] THEN Content(L, j, y) ELSE Invalid
    BY DEF Filled
  <2> DEFINE p == L[j][Up(y)]
  <2>1. Up(y) \in Nat /\ y % PTE2PT \in Index /\ Up(y) < n[j]
    BY <1>8, UpFacts
  <2>2. p \in Element
    BY <1>1, <2>1, TableOf
  <2>3. t[p][y % PTE2PT] = IF y < n[j - 1] THEN Content(L, j, y) ELSE Invalid
    BY <1>1, <2>1 DEF Filled
  <2>4. CASE p = A /\ y % PTE2PT = i
    <3>1. j = 1 /\ Up(y) = Up(x)
      BY <1>1, <1>3, <2>1, <2>4 DEF Apart, A
    <3>2. y = x
      BY <1>2, <2>4, <3>1, UpOne DEF i
    <3>3. u[p][y % PTE2PT] = e
      BY <1>7, <2>1, <2>2, <2>4
    <3>4. y < d[j - 1]
      BY <1>2, <3>1, <3>2
    <3> QED BY <1>5, <3>1, <3>2, <3>3, <3>4
  <2>5. CASE ~(p = A /\ y % PTE2PT = i)
    <3>1. u[p][y % PTE2PT] = t[p][y % PTE2PT]
      BY <1>7, <2>1, <2>2, <2>5
    <3>2. ~(j = 1 /\ y = x)
      BY <2>5 DEF A, i
    <3>3. y < d[j - 1] <=> y < n[j - 1]
      BY <1>2, <3>2
    <3> HIDE DEF p
    <3> QED BY <2>3, <3>1, <3>3 DEF p
  <2> QED BY <2>4, <2>5
<1> QED BY <1>2, <1>7, <1>9, <1>10, <1>11, <1>12, <1>13 DEF Shape

(* Between two rounds of the loop, the tables are those of the pages that  *)
(* have been mapped.                                                       *)
Counted(n) == \A k \in 0 .. 3 : n[k] = IF n[0] = 0 THEN 0 ELSE Num(k, n[0] - 1) + 1

(* The indices of boot_pgdir_walk are those of the numbered tables.        *)
LEMMA RootIndex ==
  ASSUME LayoutFits, NEW x \in Nat, x <= LastPage
  PROVE  /\ \A k \in 0 .. 3 : Num(k, x) <= Num(k, LastPage) /\ Num(k, x) \in Nat
         /\ Up(Num(3, x)) = 0 /\ PT0X(x) = Num(3, x) % PTE2PT
         /\ PT1X(x) = Num(2, x) % PTE2PT /\ Num(3, x) = Up(Num(2, x))
         /\ PT2X(x) = Num(1, x) % PTE2PT /\ Num(2, x) = Up(Num(1, x))
         /\ PT3X(x) = x % PTE2PT         /\ Num(1, x) = Up(x)
<1>1. \A k \in 0 .. 3 : Num(k, x) <= Num(k, LastPage) /\ Num(k, x) \in Nat
  BY LastNat, NumMono, NumFacts
<1>2. Num(3, x) \in {0, 1}
  BY <1>1, LastNat DEF LayoutFits
<1>3. Up(Num(3, x)) = 0 /\ Num(3, x) % PTE2PT = Num(3, x)
  BY <1>2, UpSmall, BootAssumption
<1>4. Num(3, x) % 2 = Num(3, x)
  BY <1>2
<1> QED BY <1>1, <1>3, <1>4 DEF Num, PT0X, PT1X, PT2X, PT3X

(* One round of boot_map_segment.                                          *)
LEMMA RoundShapes ==
  ASSUME LayoutFits, NEW t \in Tables, NEW n \in Counts, NEW L \in Places, NEW b,
         Shape(t, b, n, L), Counted(n), n[0] < 2 * MAXPA,
         NEW x, x = n[0],
         NEW w, w = boot_pgdir_walk([freemem |-> b, table |-> t, at |-> KSTACKTOP], x),
         NEW u, u = [w.table EXCEPT ![w.at][PT3X(x)] = [at |-> x, attr |-> Attribute(x)]]
  PROVE  /\ w.at \in Element
         /\ \E d \in Counts, M \in Places :
              Shape(u, w.freemem, d, M) /\ Counted(d) /\ d[0] = x + 1 /\ u \in Tables
<1>1. x \in Nat /\ x <= LastPage
  BY BootAssumption DEF Counts, LastPage
<1> DEFINE c1 == Num(1, x)
           c2 == Num(2, x)
           c3 == Num(3, x)
<1>2. /\ c1 \in Nat /\ c2 \in Nat /\ c3 \in Nat
      /\ c1 <= Num(1, LastPage) /\ c2 <= Num(2, LastPage) /\ c3 <= Num(3, LastPage)
      /\ Up(c3) = 0 /\ PT0X(x) = c3 % PTE2PT
      /\ PT1X(x) = c2 % PTE2PT /\ c3 = Up(c2)
      /\ PT2X(x) = c1 % PTE2PT /\ c2 = Up(c1)
      /\ PT3X(x) = x % PTE2PT  /\ c1 = Up(x)
  BY <1>1, RootIndex
<1>3. \A k \in 0 .. 3 : Num(k, x) <= n[k] /\ n[k] <= Num(k, x) + 1 /\ n[k] \in Nat
  <2> TAKE k \in 0 .. 3
  <2>1. n[k] \in Nat /\ n[k] = IF x = 0 THEN 0 ELSE Num(k, x - 1) + 1
    BY DEF Counted, Counts
  <2>2. CASE x = 0
    <3>1. Up(0) = 0
      <4>1. 0 \in Nat /\ 0 < PTE2PT
        BY BootAssumption
      <4> QED BY <4>1, UpSmall
    <3>2. Num(k, x) = 0
      BY <2>2, <3>1 DEF Num
    <3> QED BY <2>1, <2>2, <3>2
  <2>3. CASE x # 0
    <3>1. x - 1 \in Nat /\ (x - 1) + 1 = x
      BY <1>1, <2>3
    <3>2. Num(k, x - 1) \in Nat /\ Num(k, x) \in {Num(k, x - 1), Num(k, x - 1) + 1}
      BY <3>1, NumFacts
    <3> QED BY <2>1, <2>3, <3>2
  <2> QED BY <2>2, <2>3
<1>4. /\ c1 <= n[1] /\ c2 <= n[2] /\ c3 <= n[3]
      /\ n[1] <= c1 + 1 /\ n[2] <= c2 + 1 /\ n[3] <= c3 + 1
      /\ n[1] \in Nat /\ n[2] \in Nat /\ n[3] \in Nat /\ n[4] = 1
  BY <1>3 DEF Shape, Sized
<1> HIDE DEF c1, c2, c3
<1> DEFINE m0 == [freemem |-> b, table |-> t, at |-> KSTACKTOP]
           m1 == BootStep(m0, PT0X(x))
           m2 == BootStep(m1, PT1X(x))
           m3 == BootStep(m2, PT2X(x))
<1>5. w = m3
  BY DEF boot_pgdir_walk
<1>6. PICK d1, L1 : Walked(m1, d1, L1, 3, c3) /\ d1 = [n EXCEPT ![3] = c3 + 1]
  <2>1. L[4][0] = KSTACKTOP
    BY DEF Shape, Placed
  <2>2. Walked(m0, n, L, 4, Up(c3))
    BY <1>2, <1>4, <2>1 DEF Walked
  <2>3. c3 <= n[3] /\ n[3] <= c3 + 1 /\ n[3] \in Nat
    BY <1>4
  <2> HIDE DEF m0
  <2>4. m1 = BootStep(m0, c3 % PTE2PT)
    BY <1>2
  <2>5. c3 \in Nat /\ c3 <= Num(3, LastPage)
    BY <1>2
  <2> HIDE DEF m1
  <2>6. Stepped(m0, n, 3, c3)
    <3>1. Ready(m0, n, L, 3, c3)
      BY <2>2, <2>3, <2>5 DEF Ready
    <3> QED BY <2>5, <3>1, BootStepShapes
  <2>7. (IF c3 < n[3] THEN n[3] ELSE c3 + 1) = c3 + 1
    BY <2>3, <2>5
  <2> QED BY <2>4, <2>6, <2>7 DEF Stepped
<1> HIDE DEF m1, m0
<1>7. d1[4] = 1 /\ d1[3] = c3 + 1 /\ d1[2] = n[2] /\ d1[1] = n[1] /\ d1[0] = x
  BY <1>4, <1>6 DEF Counts
<1>8. PICK d2, L2 : Walked(m2, d2, L2, 2, c2) /\ d2 = [d1 EXCEPT ![2] = c2 + 1]
  <2>2. Walked(m1, d1, L1, 3, Up(c2))
    BY <1>2, <1>6
  <2>3. c2 <= d1[2] /\ d1[2] <= c2 + 1 /\ d1[2] \in Nat
    BY <1>4, <1>7
  <2>4. m2 = BootStep(m1, c2 % PTE2PT)
    BY <1>2
  <2>5. c2 \in Nat /\ c2 <= Num(2, LastPage)
    BY <1>2
  <2> HIDE DEF m2
  <2>6. Stepped(m1, d1, 2, c2)
    <3>1. Ready(m1, d1, L1, 2, c2)
      BY <2>2, <2>3, <2>5 DEF Ready
    <3> QED BY <2>5, <3>1, BootStepShapes
  <2>7. (IF c2 < d1[2] THEN d1[2] ELSE c2 + 1) = c2 + 1
    BY <2>3, <2>5
  <2> QED BY <2>4, <2>6, <2>7 DEF Stepped
<1> HIDE DEF m2
<1>9. d2[4] = 1 /\ d2[3] = c3 + 1 /\ d2[2] = c2 + 1 /\ d2[1] = n[1] /\ d2[0] = x
  BY <1>6, <1>7, <1>8 DEF Counts, Walked
<1>10. PICK d3, L3 : Walked(m3, d3, L3, 1, c1) /\ d3 = [d2 EXCEPT ![1] = c1 + 1]
  <2>2. Walked(m2, d2, L2, 2, Up(c1))
    BY <1>2, <1>8
  <2>3. c1 <= d2[1] /\ d2[1] <= c1 + 1 /\ d2[1] \in Nat
    BY <1>4, <1>9
  <2>4. m3 = BootStep(m2, c1 % PTE2PT)
    BY <1>2
  <2>5. c1 \in Nat /\ c1 <= Num(1, LastPage)
    BY <1>2
  <2> HIDE DEF m3
  <2>6. Stepped(m2, d2, 1, c1)
    <3>1. Ready(m2, d2, L2, 1, c1)
      BY <2>2, <2>3, <2>5 DEF Ready
    <3> QED BY <2>5, <3>1, BootStepShapes
  <2>7. (IF c1 < d2[1] THEN d2[1] ELSE c1 + 1) = c1 + 1
    BY <2>3, <2>5
  <2> QED BY <2>4, <2>6, <2>7 DEF Stepped
<1> HIDE DEF m3
<1>11. d3[4] = 1 /\ d3[3] = c3 + 1 /\ d3[2] = c2 + 1 /\ d3[1] = c1 + 1 /\ d3[0] = x
  BY <1>8, <1>9, <1>10 DEF Counts, Walked
<1>12. w.at = L3[1][Up(x)] /\ Up(x) < d3[1] /\ Up(x) \in Nat
  BY <1>2, <1>5, <1>10, <1>11 DEF Walked
<1>a. /\ d3 \in Counts /\ L3 \in Places /\ m3.table \in Tables
      /\ Shape(m3.table, m3.freemem, d3, L3)
  BY <1>10 DEF Walked
<1>13. w.at \in Element
  <2>1. Sized(m3.freemem, d3) /\ Placed(m3.freemem, d3, L3)
    BY <1>a DEF Shape
  <2> QED BY <1>a, <1>12, <2>1, TableOf
<1> DEFINE d == [d3 EXCEPT ![0] = x + 1]
<1>14. u \in Tables /\ d \in Counts /\ Shape(u, w.freemem, d, L3)
  <2>1. u = [m3.table EXCEPT ![L3[1][Up(x)]][x % PTE2PT] = [at |-> x, attr |-> Attribute(x)]]
    BY <1>2, <1>5, <1>12
  <2> HIDE DEF d
  <2> QED BY <1>5, <1>a, <1>11, <1>12, <2>1, EntryShapes DEF d
<1>15. Counted(d) /\ d[0] = x + 1
  <2>1. d[0] = x + 1 /\ d[1] = c1 + 1 /\ d[2] = c2 + 1 /\ d[3] = c3 + 1
    BY <1>a, <1>11 DEF Counts
  <2>2. (x + 1) - 1 = x /\ x + 1 # 0 /\ Num(0, x) = x
    BY <1>1 DEF Num
  <2> HIDE DEF d
  <2> QED BY <2>1, <2>2 DEF Counted, c1, c2, c3
<1> HIDE DEF d
<1> QED BY <1>a, <1>13, <1>14, <1>15

(* vm_init's page for the directory.                                       *)
LEMMA DirectoryShapes ==
  ASSUME LayoutFits, NEW t \in Tables,
         NEW a, a = boot_alloc([freemem |-> KSTACKTOP, table |-> t, at |-> BadPointer])
  PROVE  /\ a.at = KSTACKTOP /\ a.table \in Tables
         /\ \E n \in Counts, L \in Places :
              Shape(a.table, a.freemem, n, L) /\ Counted(n) /\ n[0] = 0
<1>1. KSTACKTOP \in Element /\ KSTACKTOP + 1 < MAXPA /\ KSTACKTOP \in Nat
  <2>1. PICK x, y, z : x = Num(1, LastPage) /\ y = Num(2, LastPage) /\ z = Num(3, LastPage)
    OBVIOUS
  <2>2. x \in Nat /\ y \in Nat /\ z \in Nat
    BY <2>1, LastNat
  <2>3. KSTACKTOP + 4 + x + y + z <= KERNEL_PAGES
    BY <2>1 DEF LayoutFits
  <2>4. /\ KSTACKTOP \in Nat /\ KERNEL_PAGES \in Nat /\ TIMESTACKTOP \in Nat /\ MAXPA \in Nat
        /\ KERNEL_PAGES < TIMESTACKTOP /\ TIMESTACKTOP < MAXPA /\ Element = 0 .. (MAXPA - 1)
    BY BootAssumption
  <2> QED BY <2>2, <2>3, <2>4
<1>2. Invalid \in Entry
  BY DEF Invalid, Entry
<1>3. a = [freemem |-> KSTACKTOP + 1, table |-> [t EXCEPT ![KSTACKTOP] = Cleared], at |-> KSTACKTOP]
  BY <1>1, BootAssumption DEF boot_alloc
<1>4. a.table \in Tables /\ \A y \in Index : a.table[KSTACKTOP][y] = Invalid
  BY <1>1, <1>2, <1>3 DEF Tables, Cleared
<1> DEFINE n == [j \in 0 .. 4 |-> IF j = 4 THEN 1 ELSE 0]
           L == [j \in 1 .. 4 |-> [q \in Nat |-> KSTACKTOP]]
<1>5. /\ n \in Counts /\ n[0] = 0 /\ n[1] = 0 /\ n[2] = 0 /\ n[3] = 0 /\ n[4] = 1
      /\ \A j \in 0 .. 4 : n[j] = IF j = 4 THEN 1 ELSE 0
  BY DEF Counts
<1>6. L \in Places /\ \A j \in 1 .. 4, q \in Nat : L[j][q] = KSTACKTOP
  BY <1>1 DEF Places
<1> HIDE DEF n, L
<1>7. Sized(KSTACKTOP + 1, n)
  BY <1>1, <1>5, LastNat DEF Sized
<1>8. Placed(KSTACKTOP + 1, n, L)
  <2>1. \A p \in KSTACKTOP .. ((KSTACKTOP + 1) - 1) : 0 < n[4] /\ L[4][0] = p
    BY <1>1, <1>5, <1>6
  <2> QED BY <1>1, <1>5, <1>6, <2>1 DEF Placed
<1>9. Apart(n, L)
  BY <1>5 DEF Apart
<1>10. Cover(n)
  BY <1>5 DEF Cover
<1>11. Filled(a.table, n, L)
  <2> SUFFICES ASSUME NEW j \in 1 .. 4, NEW x \in Nat, Up(x) < n[j]
               PROVE  a.table[L[j][Up(x)]][x % PTE2PT]
                        = IF x < n[j - 1] THEN Content(L, j, x) ELSE Invalid
    BY DEF Filled
  <2>1. Up(x) \in Nat /\ x % PTE2PT \in Index
    BY UpFacts
  <2>2. j = 4
    BY <1>5, <2>1
  <2>3. L[j][Up(x)] = KSTACKTOP /\ ~(x < n[j - 1])
    BY <1>5, <1>6, <2>1, <2>2
  <2> QED BY <1>4, <2>1, <2>3
<1>12. Counted(n)
  BY <1>5 DEF Counted
<1> QED BY <1>3, <1>4, <1>5, <1>6, <1>7, <1>8, <1>9, <1>10, <1>11, <1>12 DEF Shape

(* The pages above the kernel have no part in its tables.                  *)
LEMMA ShapeStays ==
  ASSUME LayoutFits, NEW t \in Tables, NEW n \in Counts, NEW L \in Places, NEW b,
         Shape(t, b, n, L),
         NEW u, \A p \in Element : p < TIMESTACKTOP => u[p] = t[p]
  PROVE  Shape(u, b, n, L)
<1>1. Sized(b, n) /\ Placed(b, n, L)
  BY DEF Shape
<1>2. Filled(u, n, L)
  <2> SUFFICES ASSUME NEW j \in 1 .. 4, NEW x \in Nat, Up(x) < n[j]
               PROVE  u[L[j][Up(x)]][x % PTE2PT]
                        = IF x < n[j - 1] THEN Content(L, j, x) ELSE Invalid
    BY DEF Filled
  <2>1. Up(x) \in Nat
    BY UpFacts
  <2>2. b \in Nat /\ KSTACKTOP \in Nat /\ b <= KERNEL_PAGES
    BY <1>1, SizedBound, BootAssumption
  <2>3. L[j][Up(x)] \in Element /\ L[j][Up(x)] \in KSTACKTOP .. (b - 1)
    BY <1>1, <2>1, TableOf
  <2>4. L[j][Up(x)] < TIMESTACKTOP
    BY <2>2, <2>3, BootAssumption
  <2>5. u[L[j][Up(x)]] = t[L[j][Up(x)]]
    BY <2>3, <2>4
  <2> QED BY <2>5 DEF Shape, Filled
<1> QED BY <1>2 DEF Shape

(* One step down for the entry x of level k + 1.                           *)
LEMMA FollowShapes ==
  ASSUME LayoutFits, NEW t \in Tables, NEW n \in Counts, NEW L \in Places, NEW b,
         Shape(t, b, n, L), NEW k \in 1 .. 3, NEW x \in Nat,
         NEW p, p = IF Up(x) < n[k + 1] THEN L[k + 1][Up(x)] ELSE BadPointer
  PROVE  Follow(t, p, x % PTE2PT) = IF x < n[k] THEN L[k][x] ELSE BadPointer
<1>1. Sized(b, n) /\ Placed(b, n, L) /\ Cover(n) /\ Filled(t, n, L)
  BY DEF Shape
<1>2. k + 1 \in 1 .. 4 /\ (k + 1) - 1 = k /\ Up(x) \in Nat
  BY UpFacts
<1>3. CASE Up(x) < n[k + 1]
  <2>1. p \in Element
    BY <1>1, <1>2, <1>3, TableOf
  <2>2. t[p][x % PTE2PT] = IF x < n[k] THEN Content(L, k + 1, x) ELSE Invalid
    BY <1>1, <1>2, <1>3 DEF Filled
  <2>3. Content(L, k + 1, x) = Link(L[k][x])
    BY <1>2 DEF Content
  <2> QED BY <2>1, <2>2, <2>3 DEF Follow, Link, Invalid
<1>4. CASE ~(Up(x) < n[k + 1])
  <2>1. ~(x < n[k])
    <3>1. x < n[(k + 1) - 1] => Up(x) < n[k + 1]
      BY <1>1, <1>2 DEF Cover
    <3> QED BY <1>2, <1>4, <3>1
  <2> QED BY <1>4, <2>1, BootAssumption DEF Follow
<1> QED BY <1>3, <1>4

(* What the kernel's tables say of an address.                             *)
LEMMA LookupShapes ==
  ASSUME LayoutFits, NEW t \in Tables, NEW n \in Counts, NEW L \in Places, NEW b,
         Shape(t, b, n, L), NEW x \in Nat, x <= LastPage
  PROVE  Lookup(t, KSTACKTOP, x)
           = IF x < n[0] THEN [at |-> x, attr |-> Attribute(x)] ELSE Invalid
<1> DEFINE c1 == Num(1, x)
           c2 == Num(2, x)
           c3 == Num(3, x)
           At(k, c) == IF c < n[k] THEN L[k][c] ELSE BadPointer
<1>1. /\ c1 \in Nat /\ c2 \in Nat /\ c3 \in Nat
      /\ Up(c3) = 0 /\ PT0X(x) = c3 % PTE2PT
      /\ PT1X(x) = c2 % PTE2PT /\ c3 = Up(c2)
      /\ PT2X(x) = c1 % PTE2PT /\ c2 = Up(c1)
      /\ PT3X(x) = x % PTE2PT  /\ c1 = Up(x)
  BY RootIndex
<1>2. Sized(b, n) /\ Placed(b, n, L) /\ Cover(n) /\ Filled(t, n, L)
  BY DEF Shape
<1> HIDE DEF c1, c2, c3
<1>3. Follow(t, KSTACKTOP, PT0X(x)) = At(3, c3)
  <2>1. KSTACKTOP = IF Up(c3) < n[3 + 1] THEN L[3 + 1][Up(c3)] ELSE BadPointer
    BY <1>1, <1>2 DEF Sized, Placed
  <2>2. 3 \in 1 .. 3
    OBVIOUS
  <2> QED BY <1>1, <2>1, <2>2, FollowShapes
<1>4. Follow(t, At(3, c3), PT1X(x)) = At(2, c2)
  <2>1. At(3, c3) = IF Up(c2) < n[2 + 1] THEN L[2 + 1][Up(c2)] ELSE BadPointer
    BY <1>1
  <2>2. 2 \in 1 .. 3
    OBVIOUS
  <2> QED BY <1>1, <2>1, <2>2, FollowShapes
<1>5. Follow(t, At(2, c2), PT2X(x)) = At(1, c1)
  <2>1. At(2, c2) = IF Up(c1) < n[1 + 1] THEN L[1 + 1][Up(c1)] ELSE BadPointer
    BY <1>1
  <2>2. 1 \in 1 .. 3
    OBVIOUS
  <2> QED BY <1>1, <2>1, <2>2, FollowShapes
<1>6. Lookup(t, KSTACKTOP, x) = IF At(1, c1) \in Element THEN t[At(1, c1)][x % PTE2PT] ELSE Invalid
  BY <1>1, <1>3, <1>4, <1>5 DEF Lookup
<1>7. CASE c1 < n[1]
  <2>1. At(1, c1) = L[1][c1] /\ L[1][c1] \in Element
    BY <1>1, <1>2, <1>7, TableOf
  <2>2. 1 \in 1 .. 4 /\ 1 - 1 = 0
    OBVIOUS
  <2>3. t[L[1][c1]][x % PTE2PT] = IF x < n[0] THEN Content(L, 1, x) ELSE Invalid
    BY <1>1, <1>2, <1>7, <2>2 DEF Filled
  <2> QED BY <1>6, <2>1, <2>3 DEF Content
<1>8. CASE ~(c1 < n[1])
  <2>1. x < n[0] => Up(x) < n[1]
    BY <1>2 DEF Cover
  <2> QED BY <1>1, <1>6, <1>8, <2>1, BootAssumption
<1> QED BY <1>7, <1>8

(* Every entry that leads to a table of the kernel is the only one.        *)
LEMMA TablesApart ==
  ASSUME LayoutFits, NEW t \in Tables, NEW n \in Counts, NEW L \in Places, NEW b,
         Shape(t, b, n, L),
         NEW p \in KSTACKTOP .. (b - 1), NEW q \in KSTACKTOP .. (b - 1),
         NEW x \in Index, NEW y \in Index,
         t[p][x].attr = "table", t[p][x] = t[q][y]
  PROVE  p = q /\ x = y
<1>1. Sized(b, n) /\ Placed(b, n, L) /\ Apart(n, L) /\ Cover(n) /\ Filled(t, n, L)
  BY DEF Shape
<1>2. ASSUME NEW s \in KSTACKTOP .. (b - 1), NEW i \in Index, t[s][i].attr = "table"
      PROVE  \E j \in 2 .. 4, z \in Nat :
               /\ s = L[j][Up(z)] /\ i = z % PTE2PT
               /\ z < n[j - 1] /\ t[s][i].at = L[j - 1][z]
  <2>1. PICK j \in 1 .. 4, r \in Nat : r < n[j] /\ L[j][r] = s
    BY <1>1 DEF Placed
  <2>2. PICK z \in Nat : Up(z) = r /\ z % PTE2PT = i
    BY UpOf
  <2>3. t[s][i] = IF z < n[j - 1] THEN Content(L, j, z) ELSE Invalid
    BY <1>1, <2>1, <2>2 DEF Filled
  <2>4. z < n[j - 1] /\ t[s][i] = Content(L, j, z)
    BY <1>2, <2>3 DEF Invalid
  <2>5. j # 1
    BY <1>2, <2>4 DEF Content, Attribute
  <2>6. j \in 2 .. 4 /\ t[s][i] = Link(L[j - 1][z])
    BY <2>4, <2>5 DEF Content
  <2> QED BY <2>1, <2>2, <2>4, <2>6 DEF Link
<1>3. PICK j \in 2 .. 4, z \in Nat :
        /\ p = L[j][Up(z)] /\ x = z % PTE2PT
        /\ z < n[j - 1] /\ t[p][x].at = L[j - 1][z]
  BY <1>2
<1>4. PICK l \in 2 .. 4, v \in Nat :
        /\ q = L[l][Up(v)] /\ y = v % PTE2PT
        /\ v < n[l - 1] /\ t[q][y].at = L[l - 1][v]
  BY <1>2
<1>5. j - 1 \in 1 .. 4 /\ l - 1 \in 1 .. 4
  OBVIOUS
<1>6. j - 1 = l - 1 /\ z = v
  BY <1>1, <1>3, <1>4, <1>5 DEF Apart
<1> QED BY <1>3, <1>4, <1>6

-----------------------------------------------------------------------------
(***************************************************************************)
(* The pages above the kernel.                                             *)
(***************************************************************************)
Upper == TIMESTACKTOP .. (MAXPA - 1)

(* The pages of F, and no others, are on the list l.                       *)
Heap(l, F) ==
  /\ l \in List
  /\ \E s \in Seq(Element) : Represents(l, s) /\ F = {s[n] : n \in 1 .. Len(s)}

(* What is below the directory root: every entry of a used page leads to a *)
(* used page one level lower, and no two entries to the same one.  The     *)
(* pages of loose have been allocated, but nothing leads to them yet.      *)
Tree(t, F, lv, root, loose) ==
  /\ F \subseteq Upper /\ root \in Upper \ F /\ loose \subseteq Upper \ F
  /\ root \notin loose
  /\ lv \in [Element -> 0 .. 4] /\ lv[root] = 4
  /\ \A p \in Upper \ F, x \in Index :
       t[p][x] # Invalid =>
         /\ t[p][x].at \in Upper \ F /\ t[p][x].at # root /\ t[p][x].at \notin loose
         /\ lv[p] = lv[t[p][x].at] + 1
  /\ \A p, q \in Upper \ F, x, y \in Index :
       t[p][x] # Invalid /\ t[q][y] # Invalid /\ t[p][x].at = t[q][y].at => p = q /\ x = y

(* And no other used page is without an entry that leads to it.            *)
Parents(t, F, root, loose) ==
  \A p \in Upper \ F : p # root /\ p \notin loose =>
    \E q \in Upper \ F, x \in Index : t[q][x] # Invalid /\ t[q][x].at = p

IsKernel(k) ==
  k = [list |-> k.list, table |-> k.table, bytes |-> k.bytes, ref |-> k.ref, at |-> k.at]

Mem(k, F, lv, root, loose, all) ==
  /\ IsKernel(k) /\ k.table \in Tables /\ Heap(k.list, F)
  /\ Tree(k.table, F, lv, root, loose)
  /\ all => Parents(k.table, F, root, loose)

Contents == [Element -> [0 .. (BY2PG - 1) -> Int]]

(* From k to r pages were taken off the list only: what is in use keeps    *)
(* its contents, and each table the entries it has.                        *)
Kept(k, r, F, G) ==
  /\ G \subseteq F
  /\ \A q \in Upper \ F, y \in Index :
       k.table[q][y] # Invalid => r.table[q][y] = k.table[q][y]
  /\ k.bytes \in Contents =>
       r.bytes \in Contents /\ \A q \in Element \ F : r.bytes[q] = k.bytes[q]

(* The tables u are the tables t below the pages of programs.              *)
SameBelow(t, u) == \A p \in Element : p < TIMESTACKTOP => u[p] = t[p]

-----------------------------------------------------------------------------
(* The pages above the kernel are pages.                                   *)
LEMMA UpperElement ==
  Upper \subseteq Element /\ NULL \notin Upper /\ BadPointer \notin Upper
BY BootAssumption, QueueAssumption DEF Upper

(* LIST_FIRST and LIST_REMOVE on the list of the pages F.                  *)
LEMMA HeapPop ==
  ASSUME NEW l, NEW F, Heap(l, F)
  PROVE  /\ F \subseteq Element
         /\ LIST_FIRST(l) = NULL => F = {}
         /\ LIST_FIRST(l) # NULL =>
              /\ LIST_FIRST(l) \in F
              /\ Heap(LIST_REMOVE(l, LIST_FIRST(l)), F \ {LIST_FIRST(l)})
<1>1. PICK s \in Seq(Element) : Represents(l, s) /\ F = {s[n] : n \in 1 .. Len(s)}
  BY DEF Heap
<1>2. l \in List /\ Len(s) \in Nat
  BY DEF Heap
<1>3. F \subseteq Element
  BY <1>1
<1>4. CASE s = <<>>
  <2>1. l.first = NULL
    BY <1>1, <1>4 DEF Represents
  <2>2. F = {}
    BY <1>1, <1>4
  <2> QED BY <1>3, <2>1, <2>2 DEF LIST_FIRST
<1>5. CASE s # <<>>
  <2> DEFINE t == Tail(s)
  <2>1. /\ Len(s) # 0 /\ 1 \in 1 .. Len(s) /\ t \in Seq(Element) /\ Len(t) = Len(s) - 1
        /\ \A n \in 1 .. Len(t) : t[n] = s[n + 1]
    BY <1>5, HeadTailProperties
  <2>2. LIST_FIRST(l) = s[1] /\ s[1] \in Element /\ s[1] \in F
    <3>1. LIST_FIRST(l) = s[1]
      BY <1>1, <1>5 DEF Represents, LIST_FIRST
    <3>2. s[1] \in Element
      BY ONLY s \in Seq(Element), <1>5
    <3>3. s[1] \in F
      BY <1>1, <2>1
    <3> QED BY <3>1, <3>2, <3>3
  <2>3. LIST_FIRST(l) # NULL
    BY <2>2, QueueAssumption
  <2>4. LIST_REMOVE(l, LIST_FIRST(l)) \in List /\ Represents(LIST_REMOVE(l, LIST_FIRST(l)), t)
    BY <1>1, <1>2, <1>5, RemoveDrops
  <2> HIDE DEF t
  <2>5. F \ {s[1]} = {t[n] : n \in 1 .. Len(t)}
    <3>1. ASSUME NEW p \in F \ {s[1]} PROVE p \in {t[n] : n \in 1 .. Len(t)}
      <4>1. PICK n \in 1 .. Len(s) : s[n] = p
        BY <1>1
      <4>2. n # 1
        BY <3>1, <4>1
      <4>3. n - 1 \in 1 .. Len(t) /\ t[n - 1] = s[(n - 1) + 1]
        BY <1>2, <2>1, <4>2
      <4> QED BY <4>1, <4>3
    <3>2. ASSUME NEW n \in 1 .. Len(t) PROVE t[n] \in F \ {s[1]}
      <4>1. n + 1 \in 1 .. Len(s) /\ t[n] = s[n + 1] /\ n + 1 # 1
        BY <1>2, <2>1
      <4>2. s[n + 1] # s[1]
        BY <1>1, <2>1, <4>1 DEF Represents
      <4> QED BY <1>1, <4>1, <4>2
    <3> QED BY <3>1, <3>2
  <2> QED BY <1>3, <2>1, <2>2, <2>3, <2>4, <2>5 DEF Heap
<1> QED BY <1>4, <1>5

(* LIST_INSERT_HEAD of a page that is not on it.                           *)
LEMMA HeapPush ==
  ASSUME NEW l, NEW F, Heap(l, F), NEW x \in Element \ F
  PROVE  Heap(LIST_INSERT_HEAD(l, x), F \cup {x})
<1>1. PICK s \in Seq(Element) : Represents(l, s) /\ F = {s[n] : n \in 1 .. Len(s)}
  BY DEF Heap
<1>2. l \in List /\ Len(s) \in Nat
  BY DEF Heap
<1>3. \A n \in 1 .. Len(s) : s[n] # x
  BY <1>1
<1> DEFINE t == <<x>> \o s
<1>4. LIST_INSERT_HEAD(l, x) \in List /\ Represents(LIST_INSERT_HEAD(l, x), t)
  BY <1>1, <1>2, <1>3, InsertHeadPushes
<1>5. /\ t \in Seq(Element) /\ Len(t) = Len(s) + 1 /\ t[1] = x
      /\ \A n \in 1 .. Len(s) : t[n + 1] = s[n]
      /\ \A n \in 2 .. Len(t) : t[n] = s[n - 1] /\ n - 1 \in 1 .. Len(s)
  OBVIOUS
<1> HIDE DEF t
<1>6. F \cup {x} = {t[n] : n \in 1 .. Len(t)}
  <2>1. 1 \in 1 .. Len(t)
    BY <1>2, <1>5
  <2>2. ASSUME NEW p \in F PROVE p \in {t[n] : n \in 1 .. Len(t)}
    <3>1. PICK n \in 1 .. Len(s) : s[n] = p
      BY <1>1
    <3>2. n + 1 \in 1 .. Len(t) /\ t[n + 1] = p
      BY <1>2, <1>5, <3>1
    <3> QED BY <3>2
  <2>3. ASSUME NEW n \in 1 .. Len(t) PROVE t[n] \in F \cup {x}
    <3>1. CASE n = 1
      BY <1>5, <3>1
    <3>2. CASE n # 1
      <4>1. n \in 2 .. Len(t)
        BY <3>2
      <4> QED BY <1>1, <1>5, <4>1
    <3> QED BY <3>1, <3>2
  <2> QED BY <1>5, <2>1, <2>2, <2>3
<1> QED BY <1>4, <1>5, <1>6 DEF Heap

(* page_alloc takes a page off the list and clears it.                     *)
LEMMA AllocTakes ==
  ASSUME NEW k, IsKernel(k), k.table \in Tables, NEW F, Heap(k.list, F),
         NEW a, a = page_alloc(k)
  PROVE  /\ a.at = NULL => F = {} /\ a = [k EXCEPT !.at = NULL]
         /\ a.at # NULL =>
              /\ a.at \in F /\ a.at \in Element /\ IsKernel(a) /\ a.table \in Tables
              /\ Heap(a.list, F \ {a.at})
              /\ a.table[a.at] = Cleared
              /\ \A q \in Element : q # a.at => a.table[q] = k.table[q]
<1>1. k = [list |-> k.list, table |-> k.table, bytes |-> k.bytes, ref |-> k.ref, at |-> k.at]
  BY DEF IsKernel
<1> DEFINE p == LIST_FIRST(k.list)
<1>2. CASE p = NULL
  <2>1. a = [k EXCEPT !.at = NULL]
    BY <1>2 DEF page_alloc
  <2>2. a.at = NULL
    BY <1>1, <2>1
  <2> QED BY <1>2, <2>1, <2>2, HeapPop
<1>3. CASE p # NULL
  <2>1. a = [list |-> LIST_REMOVE(k.list, p), at |-> p,
             table |-> [k.table EXCEPT ![p] = Cleared],
             bytes |-> [k.bytes EXCEPT ![p] = ClearedBytes],
             ref |-> [k.ref EXCEPT ![p] = 0]]
    BY <1>3 DEF page_alloc
  <2>2. p \in F /\ p \in Element /\ Heap(LIST_REMOVE(k.list, p), F \ {p})
    BY <1>3, HeapPop
  <2> HIDE DEF p
  <2>3. Cleared \in [Index -> Entry]
    BY DEF Cleared, Invalid, Entry
  <2>4. a.at = p /\ a.list = LIST_REMOVE(k.list, p) /\ a.table = [k.table EXCEPT ![p] = Cleared]
    BY <2>1
  <2>5. IsKernel(a)
    BY <2>1 DEF IsKernel
  <2>6. a.table \in Tables /\ a.table[p] = Cleared /\ \A q \in Element : q # p => a.table[q] = k.table[q]
    BY <2>2, <2>3, <2>4 DEF Tables
  <2> QED BY <1>3, <2>2, <2>4, <2>5, <2>6
<1> QED BY <1>2, <1>3

(* A page p gets a level; an entry of the page p is written.               *)
SetLevel(lv, p, v) == [lv EXCEPT ![p] = v]
SetEntry(t, p, i, e) == [t EXCEPT ![p][i] = e]

(* A page taken off the list is loose, at any level.                       *)
LEMMA AllocTree ==
  ASSUME NEW k, NEW F, NEW lv, NEW root, NEW loose, NEW all,
         Mem(k, F, lv, root, loose, all), NEW v \in 0 .. 4,
         NEW a, a = page_alloc(k), a.at # NULL
  PROVE  Mem(a, F \ {a.at}, SetLevel(lv, a.at, v), root, loose \cup {a.at}, all)
<1> DEFINE p == a.at
           t == k.table
           u == a.table
           G == F \ {p}
           lw == SetLevel(lv, p, v)
<1>1. /\ p \in F /\ p \in Element /\ IsKernel(a) /\ u \in Tables /\ Heap(a.list, G)
      /\ u[p] = Cleared /\ \A q \in Element : q # p => u[q] = t[q]
  BY AllocTakes DEF Mem
<1>2. Tree(t, F, lv, root, loose)
  BY DEF Mem
<1>3. Upper \ G = (Upper \ F) \cup {p} /\ p \notin Upper \ F /\ p \in Upper
  BY <1>1, <1>2 DEF Tree
<1>4. \A x \in Index : u[p][x] = Invalid
  BY <1>1 DEF Cleared
<1>5. lw \in [Element -> 0 .. 4] /\ \A q \in Element : q # p => lw[q] = lv[q]
  BY <1>1, <1>2 DEF Tree, SetLevel
<1>6. \A q \in Upper \ F : q \in Element /\ q # p /\ u[q] = t[q] /\ lw[q] = lv[q]
  BY <1>1, <1>3, <1>5, UpperElement
<1> HIDE DEF p, t, u, G, lw
<1>7. Tree(u, G, lw, root, loose \cup {p})
  <2>1. /\ G \subseteq Upper /\ root \in Upper \ G /\ loose \cup {p} \subseteq Upper \ G
        /\ root \notin loose \cup {p} /\ lw \in [Element -> 0 .. 4] /\ lw[root] = 4
    BY <1>2, <1>3, <1>5, <1>6 DEF Tree, G
  <2>2. ASSUME NEW q \in Upper \ G, NEW x \in Index, u[q][x] # Invalid
        PROVE  /\ u[q][x].at \in Upper \ G /\ u[q][x].at # root /\ u[q][x].at \notin loose \cup {p}
               /\ lw[q] = lw[u[q][x].at] + 1
    <3>1. q \in Upper \ F /\ u[q] = t[q] /\ lw[q] = lv[q]
      BY <1>3, <1>4, <1>6, <2>2
    <3>2. t[q][x].at \in Upper \ F /\ t[q][x].at # root /\ t[q][x].at \notin loose
          /\ lv[q] = lv[t[q][x].at] + 1
      BY <1>2, <2>2, <3>1 DEF Tree
    <3> QED BY <1>3, <1>6, <3>1, <3>2
  <2>3. ASSUME NEW q \in Upper \ G, NEW r \in Upper \ G, NEW x \in Index, NEW y \in Index,
               u[q][x] # Invalid, u[r][y] # Invalid, u[q][x].at = u[r][y].at
        PROVE  q = r /\ x = y
    <3>1. q \in Upper \ F /\ u[q] = t[q] /\ r \in Upper \ F /\ u[r] = t[r]
      BY <1>3, <1>4, <1>6, <2>3
    <3> QED BY <1>2, <2>3, <3>1 DEF Tree
  <2> QED BY <2>1, <2>2, <2>3 DEF Tree
<1>8. ASSUME all PROVE Parents(u, G, root, loose \cup {p})
  <2> SUFFICES ASSUME NEW q \in Upper \ G, q # root, q \notin loose \cup {p}
               PROVE  \E r \in Upper \ G, x \in Index : u[r][x] # Invalid /\ u[r][x].at = q
    BY DEF Parents
  <2>1. q \in Upper \ F /\ q \notin loose
    BY <1>3
  <2>2. PICK r \in Upper \ F, x \in Index : t[r][x] # Invalid /\ t[r][x].at = q
    BY <1>8, <2>1 DEF Mem, Parents, t
  <2> QED BY <1>3, <1>6, <2>2
<1> QED BY <1>1, <1>7, <1>8 DEF Mem, p, t, u, G, lw

(* What an entry of a table of the program leads to.                       *)
LEMMA TreeDown ==
  ASSUME NEW t, NEW F, NEW lv, NEW root, NEW loose, Tree(t, F, lv, root, loose),
         NEW p \in Upper \ F, NEW x \in Index, t[p][x] # Invalid
  PROVE  /\ t[p][x].at \in Upper \ F /\ t[p][x].at # root /\ t[p][x].at \notin loose
         /\ lv[p] = lv[t[p][x].at] + 1
BY DEF Tree

(* No page but p differs between the tables t and u.                       *)
SameBut(t, u, p) == \A q \in Element : q # p => u[q] = t[q]

(* The entry x of the used page p is made e, which leads to a loose page   *)
(* one level lower.                                                        *)
Linking(t, F, lv, loose, p, x, e, u, rest) ==
  /\ p \in Upper \ F /\ x \in Index /\ t[p][x] = Invalid
  /\ e \in Entry /\ e # Invalid /\ e.at \in loose /\ lv[p] = lv[e.at] + 1
  /\ u = SetEntry(t, p, x, e) /\ rest = loose \ {e.at}

(* Linking a loose page keeps the tree.                                    *)
LEMMA LinkTree ==
  ASSUME NEW t \in Tables, NEW F, NEW lv, NEW root, NEW loose, Tree(t, F, lv, root, loose),
         NEW p, NEW x, NEW e, NEW u, NEW rest, Linking(t, F, lv, loose, p, x, e, u, rest)
  PROVE  /\ u \in Tables /\ Tree(u, F, lv, root, rest) /\ SameBut(t, u, p)
         /\ Parents(t, F, root, loose) => Parents(u, F, root, rest)
<1>a. /\ p \in Upper \ F /\ x \in Index /\ t[p][x] = Invalid
      /\ e \in Entry /\ e # Invalid /\ e.at \in loose /\ lv[p] = lv[e.at] + 1
      /\ u = SetEntry(t, p, x, e) /\ rest = loose \ {e.at}
  BY DEF Linking
<1> USE <1>a
<1> DEFINE c == e.at
<1>1. p \in Element
  BY UpperElement
<1>2. /\ u \in Tables
      /\ \A q \in Element : q # p => u[q] = t[q]
      /\ \A y \in Index : u[p][y] = IF y = x THEN e ELSE t[p][y]
  <2>1. t[p] \in [Index -> Entry] /\ u = [t EXCEPT ![p] = [t[p] EXCEPT ![x] = e]]
    BY <1>1 DEF Tables, SetEntry
  <2>2. [t[p] EXCEPT ![x] = e] \in [Index -> Entry]
    BY <2>1
  <2>3. u \in Tables /\ u[p] = [t[p] EXCEPT ![x] = e] /\ \A q \in Element : q # p => u[q] = t[q]
    BY ONLY <1>1, <2>1, <2>2, t \in Tables DEF Tables
  <2>4. \A y \in Index : u[p][y] = IF y = x THEN e ELSE t[p][y]
    BY ONLY <2>1, <2>3
  <2> QED BY <2>3, <2>4
<1>3. \A q \in Upper \ F, y \in Index : u[q][y] = IF q = p /\ y = x THEN e ELSE t[q][y]
  BY <1>2, UpperElement
<1>4. c \in Upper \ F /\ c # root /\ c \in loose
  BY DEF Tree
<1> HIDE DEF c
<1>5. Tree(u, F, lv, root, loose \ {c})
  <2>1. /\ F \subseteq Upper /\ root \in Upper \ F /\ loose \ {c} \subseteq Upper \ F
        /\ root \notin loose \ {c} /\ lv \in [Element -> 0 .. 4] /\ lv[root] = 4
    BY DEF Tree
  <2>2. ASSUME NEW q \in Upper \ F, NEW y \in Index, u[q][y] # Invalid
        PROVE  /\ u[q][y].at \in Upper \ F /\ u[q][y].at # root /\ u[q][y].at \notin loose \ {c}
               /\ lv[q] = lv[u[q][y].at] + 1
    <3>1. CASE q = p /\ y = x
      BY <1>3, <1>4, <3>1 DEF c
    <3>2. CASE ~(q = p /\ y = x)
      <4>1. u[q][y] = t[q][y]
        BY <1>3, <3>2
      <4> QED BY <2>2, <4>1, TreeDown
    <3> QED BY <3>1, <3>2
  <2>3. ASSUME NEW q \in Upper \ F, NEW r \in Upper \ F, NEW y \in Index, NEW z \in Index,
               u[q][y] # Invalid, u[r][z] # Invalid, u[q][y].at = u[r][z].at
        PROVE  q = r /\ y = z
    <3>1. ~(q = p /\ y = x) => t[q][y] = u[q][y] /\ t[q][y].at # c
      BY <1>3, <1>4, <2>3, TreeDown
    <3>2. ~(r = p /\ z = x) => t[r][z] = u[r][z] /\ t[r][z].at # c
      BY <1>3, <1>4, <2>3, TreeDown
    <3>3. (q = p /\ y = x) => u[q][y].at = c
      BY <1>3 DEF c
    <3>4. (r = p /\ z = x) => u[r][z].at = c
      BY <1>3 DEF c
    <3>5. ~(q = p /\ y = x) /\ ~(r = p /\ z = x) => q = r /\ y = z
      BY <2>3, <3>1, <3>2 DEF Tree
    <3> QED BY <2>3, <3>1, <3>2, <3>3, <3>4, <3>5
  <2> QED BY <2>1, <2>2, <2>3 DEF Tree
<1>6. ASSUME Parents(t, F, root, loose) PROVE Parents(u, F, root, loose \ {c})
  <2> SUFFICES ASSUME NEW q \in Upper \ F, q # root, q \notin loose \ {c}
               PROVE  \E r \in Upper \ F, y \in Index : u[r][y] # Invalid /\ u[r][y].at = q
    BY DEF Parents
  <2>1. CASE q = c
    BY <1>3, <2>1 DEF c
  <2>2. CASE q # c
    <3>1. PICK r \in Upper \ F, y \in Index : t[r][y] # Invalid /\ t[r][y].at = q
      BY <1>6, <2>2 DEF Parents
    <3>2. u[r][y] = t[r][y]
      BY <1>3, <3>1
    <3> QED BY <3>1, <3>2
  <2> QED BY <2>1, <2>2
<1> QED BY <1>2, <1>5, <1>6 DEF c, SameBut

(* A walk is at the page q of the tables it started with, or has left them *)
(* for a new table.                                                        *)
Tracks(k0, k, q) ==
  \/ q \in Element /\ k = [k0 EXCEPT !.at = q]
  \/ q = BadPointer /\ k.table[k.at] = Cleared

(* An entry of a table and a reference count change, and nothing else.     *)
Put(k, p, i, e, c) == [k EXCEPT !.table[p][i] = e, !.ref[c] = @ + 1]

(* The fields of the kernel's record after such a write.                   *)
LEMMA EntryPut ==
  ASSUME NEW k, IsKernel(k), NEW p, NEW i, NEW e, NEW c,
         NEW r, r = Put(k, p, i, e, c)
  PROVE  /\ r.list = k.list /\ r.at = k.at /\ r.bytes = k.bytes /\ IsKernel(r)
         /\ r.table = SetEntry(k.table, p, i, e)
<1> DEFINE T == [k.table EXCEPT ![p][i] = e]
           R == [k.ref EXCEPT ![c] = @ + 1]
<1>1. k = [list |-> k.list, table |-> k.table, bytes |-> k.bytes, ref |-> k.ref, at |-> k.at]
  BY DEF IsKernel
<1>2. r = [[k EXCEPT !.table = T] EXCEPT !.ref = R]
  <2>1. DOMAIN k = {"list", "table", "bytes", "ref", "at"}
    BY <1>1
  <2> QED BY <2>1 DEF Put
<1> HIDE DEF T, R
<1>3. r = [list |-> k.list, table |-> T, bytes |-> k.bytes, ref |-> R, at |-> k.at]
  BY ONLY <1>1, <1>2
<1> QED BY <1>3 DEF IsKernel, T, SetEntry

(* Following the machine from one record to a later one.                   *)
LEMMA KeptSame ==
  ASSUME NEW k, NEW r, NEW F, r.table = k.table, r.bytes = k.bytes
  PROVE  Kept(k, r, F, F)
BY DEF Kept

(* The pages that were in use stay so.                                     *)
LEMMA KeptTrans ==
  ASSUME NEW k, NEW r, NEW s, NEW F, NEW G, NEW H, Kept(k, r, F, G), Kept(r, s, G, H)
  PROVE  Kept(k, s, F, H)
<1>1. H \subseteq F /\ Upper \ F \subseteq Upper \ G /\ Element \ F \subseteq Element \ G
  BY DEF Kept
<1>2. ASSUME NEW q \in Upper \ F, NEW y \in Index, k.table[q][y] # Invalid
      PROVE  s.table[q][y] = k.table[q][y]
  <2>1. r.table[q][y] = k.table[q][y]
    BY <1>2 DEF Kept
  <2> QED BY <1>1, <1>2, <2>1 DEF Kept
<1>3. ASSUME k.bytes \in Contents
      PROVE  s.bytes \in Contents /\ \A q \in Element \ F : s.bytes[q] = k.bytes[q]
  <2>1. r.bytes \in Contents /\ \A q \in Element \ F : r.bytes[q] = k.bytes[q]
    BY <1>3 DEF Kept
  <2>2. s.bytes \in Contents /\ \A q \in Element \ G : s.bytes[q] = r.bytes[q]
    BY <2>1 DEF Kept
  <2> QED BY <1>1, <2>1, <2>2
<1> QED BY <1>1, <1>2, <1>3 DEF Kept

(* page_alloc clears the page it takes.                                    *)
LEMMA AllocBytes ==
  ASSUME NEW k, NEW a, a = page_alloc(k), a.at # NULL, IsKernel(k)
  PROVE  a.bytes = [k.bytes EXCEPT ![a.at] = ClearedBytes]
<1> DEFINE p == LIST_FIRST(k.list)
<1>1. CASE p = NULL
  <2>1. a = [k EXCEPT !.at = NULL]
    BY <1>1 DEF page_alloc
  <2>2. k = [list |-> k.list, table |-> k.table, bytes |-> k.bytes, ref |-> k.ref, at |-> k.at]
    BY DEF IsKernel
  <2> QED BY <2>1, <2>2
<1>2. CASE p # NULL
  <2>1. a = [list |-> LIST_REMOVE(k.list, p), at |-> p,
             table |-> [k.table EXCEPT ![p] = Cleared],
             bytes |-> [k.bytes EXCEPT ![p] = ClearedBytes],
             ref |-> [k.ref EXCEPT ![p] = 0]]
    BY <1>2 DEF page_alloc
  <2> HIDE DEF p
  <2> QED BY <2>1
<1> QED BY <1>1, <1>2

(* The page taken was free.                                                *)
LEMMA AllocKeeps ==
  ASSUME NEW k, IsKernel(k), k.table \in Tables, NEW F, Heap(k.list, F),
         NEW a, a = page_alloc(k), a.at # NULL
  PROVE  Kept(k, a, F, F \ {a.at})
<1>1. /\ a.at \in F /\ a.at \in Element
      /\ \A q \in Element : q # a.at => a.table[q] = k.table[q]
  BY AllocTakes
<1>2. \A q \in Upper \ F : a.table[q] = k.table[q]
  BY <1>1, UpperElement
<1>3. ClearedBytes \in [0 .. (BY2PG - 1) -> Int]
  BY DEF ClearedBytes, Zero
<1>4. k.bytes \in Contents =>
        a.bytes \in Contents /\ \A q \in Element \ F : a.bytes[q] = k.bytes[q]
  <2>1. a.bytes = [k.bytes EXCEPT ![a.at] = ClearedBytes]
    BY AllocBytes
  <2> QED BY <1>1, <1>3, <2>1 DEF Contents
<1> QED BY <1>2, <1>4 DEF Kept

(* An entry that was not there is made.                                    *)
LEMMA PutKeeps ==
  ASSUME NEW k, IsKernel(k), k.table \in Tables, NEW F, NEW p \in Upper \ F, NEW x \in Index,
         k.table[p][x] = Invalid, NEW e, NEW c, NEW r, r = Put(k, p, x, e, c)
  PROVE  /\ Kept(k, r, F, F) /\ r.table[p][x] = e
<1>1. r.bytes = k.bytes /\ r.table = SetEntry(k.table, p, x, e)
  BY EntryPut
<1>2. p \in Element /\ k.table[p] \in [Index -> Entry]
  BY UpperElement DEF Tables
<1>3. r.table = [k.table EXCEPT ![p] = [k.table[p] EXCEPT ![x] = e]]
  BY <1>1 DEF SetEntry
<1>4. r.table[p] = [k.table[p] EXCEPT ![x] = e] /\ \A q \in Element : q # p => r.table[q] = k.table[q]
  BY <1>2, <1>3 DEF Tables
<1>5. \A y \in Index : r.table[p][y] = IF y = x THEN e ELSE k.table[p][y]
  BY <1>2, <1>4
<1>6. \A q \in Upper \ F, y \in Index :
        k.table[q][y] # Invalid => r.table[q][y] = k.table[q][y]
  BY <1>4, <1>5, UpperElement
<1> QED BY <1>1, <1>5, <1>6 DEF Kept

(* A level of a walk keeps what is in use, and goes where the table it     *)
(* leaves behind leads.                                                    *)
Descends(k, r, i, F, G) ==
  Kept(k, r, F, G) /\ (r.at # NULL => k.at # NULL /\ r.at = Follow(r.table, k.at, i))

(* One level of pgdir_walk, from a table of level l: it ends at one of     *)
(* level l - 1, or at NULL with no page left.                              *)
WalksTo(k0, k, q, m, F, lv, root, loose, all, l) ==
  /\ Mem(k, F, lv, root, loose, all)
  /\ SameBelow(k0.table, k.table)
  /\ \A p \in loose \cup {root} : lv[p] = m[p]
  /\ k.at = NULL => F = {}
  /\ k.at # NULL => k.at \in Upper \ F /\ lv[k.at] = l /\ Tracks(k0, k, q)

(* One level of pgdir_walk keeps the tree and goes one level down.         *)
LEMMA WalkStepTree ==
  ASSUME NEW k0, IsKernel(k0), NEW k, NEW q, NEW m, NEW F, NEW lv, NEW root, NEW loose, NEW all,
         NEW l \in 2 .. 4, WalksTo(k0, k, q, m, F, lv, root, loose, all, l),
         NEW i \in Index, NEW r, r = WalkStep(k, i)
  PROVE  \E G, lw : /\ WalksTo(k0, r, Follow(k0.table, q, i), m, G, lw, root, loose, all, l - 1)
                    /\ Descends(k, r, i, F, G)
<1> DEFINE t == k.table
<1>1. /\ Mem(k, F, lv, root, loose, all) /\ t \in Tables /\ Tree(t, F, lv, root, loose)
      /\ IsKernel(k) /\ SameBelow(k0.table, t)
      /\ \A p \in loose \cup {root} : lv[p] = m[p]
  BY DEF WalksTo, Mem
<1>2. CASE k.at = NULL
  <2>1. r = k
    BY <1>2 DEF WalkStep
  <2>2. Descends(k, r, i, F, F)
    BY <1>2, <2>1, KeptSame DEF Descends
  <2> QED BY <1>2, <2>1, <2>2 DEF WalksTo
<1>3. CASE k.at # NULL /\ t[k.at][i] # Invalid
  <2> DEFINE c == t[k.at][i].at
  <2>1. k.at \in Upper \ F /\ lv[k.at] = l /\ Tracks(k0, k, q)
    BY <1>3 DEF WalksTo
  <2>2. r = [k EXCEPT !.at = c]
    BY <1>3 DEF WalkStep
  <2>3. c \in Upper \ F /\ c # NULL /\ c \in Element
    BY <1>1, <1>3, <2>1, TreeDown, UpperElement
  <2>4. lv[c] = l - 1
    <3>1. lv[k.at] = lv[c] + 1 /\ lv[c] \in 0 .. 4
      BY <1>1, <1>3, <2>1, <2>3, TreeDown DEF Tree
    <3>2. PICK v : v = lv[c]
      OBVIOUS
    <3> HIDE DEF c
    <3> QED BY ONLY <2>1, <3>1, <3>2
  <2>5. q \in Element /\ k = [k0 EXCEPT !.at = q]
    <3>1. t[k.at] # Cleared
      BY <1>3 DEF Cleared
    <3> QED BY <2>1, <3>1 DEF Tracks
  <2>6. k0 = [list |-> k0.list, table |-> k0.table, bytes |-> k0.bytes, ref |-> k0.ref, at |-> k0.at]
    BY DEF IsKernel
  <2>7. k.at = q /\ k.table = k0.table /\ k.list = k0.list
    BY <2>5, <2>6
  <2>8. Follow(k0.table, q, i) = c
    BY <2>5, <2>7 DEF Follow
  <2>9. /\ r = [k0 EXCEPT !.at = c] /\ r.at = c /\ r.table = t /\ r.list = k.list
        /\ r.bytes = k.bytes /\ IsKernel(r)
    BY <2>2, <2>5, <2>6, <2>7 DEF IsKernel
  <2>12. Descends(k, r, i, F, F)
    <3>1. Follow(r.table, k.at, i) = c
      BY <2>5, <2>7, <2>9 DEF Follow
    <3>2. Kept(k, r, F, F)
      BY <2>9, KeptSame
    <3> QED BY <1>3, <2>9, <3>1, <3>2 DEF Descends
  <2> HIDE DEF c
  <2>10. Tracks(k0, r, Follow(k0.table, q, i))
    BY <2>3, <2>8, <2>9 DEF Tracks
  <2>11. Mem(r, F, lv, root, loose, all)
    BY <1>1, <2>9 DEF Mem
  <2> QED BY <1>1, <2>3, <2>4, <2>9, <2>10, <2>11, <2>12 DEF WalksTo
<1>4. CASE k.at # NULL /\ t[k.at][i] = Invalid
  <2> DEFINE a == page_alloc(k)
  <2>1. k.at \in Upper \ F /\ lv[k.at] = l /\ Tracks(k0, k, q) /\ k.at \in Element
    BY <1>4, UpperElement DEF WalksTo
  <2>2. CASE a.at = NULL
    <3>1. r = a
      BY <1>4, <2>2 DEF WalkStep
    <3>2. F = {} /\ a = [k EXCEPT !.at = NULL]
      BY <1>1, <2>2, AllocTakes DEF Mem
    <3>3. k = [list |-> k.list, table |-> k.table, bytes |-> k.bytes, ref |-> k.ref, at |-> k.at]
      BY <1>1 DEF IsKernel
    <3>4. r.at = NULL /\ r.table = t /\ r.list = k.list /\ r.bytes = k.bytes /\ IsKernel(r)
      BY <3>1, <3>2, <3>3 DEF IsKernel
    <3>5. Mem(r, F, lv, root, loose, all)
      BY <1>1, <3>4 DEF Mem
    <3>6. Descends(k, r, i, F, F)
      BY <3>4, KeptSame DEF Descends
    <3> QED BY <1>1, <3>2, <3>4, <3>5, <3>6 DEF WalksTo
  <2>3. CASE a.at # NULL
    <3>0. /\ Mem(a, F \ {a.at}, SetLevel(lv, a.at, l - 1), root, loose \cup {a.at}, all)
          /\ a.at \in F /\ a.table[a.at] = Cleared
          /\ \A p \in Element : p # a.at => a.table[p] = k.table[p]
          /\ Kept(k, a, F, F \ {a.at})
      <4>1. PICK v \in 0 .. 4 : v = l - 1
        OBVIOUS
      <4>2. a = page_alloc(k)
        OBVIOUS
      <4> HIDE DEF a
      <4>3. Mem(a, F \ {a.at}, SetLevel(lv, a.at, v), root, loose \cup {a.at}, all)
        BY <1>1, <2>3, <4>2, AllocTree
      <4>4. /\ a.at \in F /\ a.table[a.at] = Cleared
            /\ \A p \in Element : p # a.at => a.table[p] = k.table[p]
        BY <1>1, <2>3, <4>2, AllocTakes DEF Mem
      <4>5. Kept(k, a, F, F \ {a.at})
        BY <1>1, <2>3, <4>2, AllocKeeps DEF Mem
      <4> QED BY <4>1, <4>3, <4>4, <4>5
    <3> DEFINE c == a.at
               G == F \ {c}
               lw == SetLevel(lv, c, l - 1)
               u == a.table
    <3>1. r = [a EXCEPT !.table[k.at][i] = Link(c), !.ref[c] = @ + 1]
      BY <1>4, <2>3 DEF WalkStep
    <3>2. /\ Mem(a, G, lw, root, loose \cup {c}, all)
          /\ c \in F /\ u[c] = Cleared /\ \A p \in Element : p # c => u[p] = t[p]
          /\ Kept(k, a, F, G)
      BY <3>0
    <3>3. c \in Upper /\ c # k.at /\ c # root /\ c \notin loose /\ c \in Element
      BY <1>1, <2>1, <3>2, UpperElement DEF Tree
    <3>4. lw[c] = l - 1 /\ \A p \in Upper : p # c => lw[p] = lv[p]
      BY <1>1, <3>3, UpperElement DEF Tree, SetLevel
    <3>5. a = [list |-> a.list, table |-> u, bytes |-> a.bytes, ref |-> a.ref, at |-> c]
      BY <3>2 DEF Mem, IsKernel
    <3> HIDE DEF a, c, G, lw, u
    <3>6. /\ r.list = a.list /\ r.at = c /\ IsKernel(r)
          /\ r.table = SetEntry(u, k.at, i, Link(c))
      <4>1. IsKernel(a)
        BY <3>2 DEF Mem
      <4>2. r = Put(a, k.at, i, Link(c), c)
        BY <3>1 DEF Put
      <4>3. /\ r.list = a.list /\ r.at = a.at /\ IsKernel(r)
            /\ r.table = SetEntry(a.table, k.at, i, Link(c))
        BY <4>1, <4>2, EntryPut
      <4> QED BY <4>3 DEF c, u
    <3>7. /\ Link(c) \in Entry /\ Link(c) # Invalid /\ Link(c).at = c
          /\ u \in Tables /\ Tree(u, G, lw, root, loose \cup {c})
          /\ k.at \in Upper \ G /\ u[k.at][i] = Invalid /\ lw[k.at] = lw[c] + 1
      <4>1. c \in Nat
        BY <3>3, BootAssumption
      <4>2. k.at \in Upper \ G
        BY <2>1 DEF G
      <4>3. u[k.at][i] = Invalid
        BY <1>4, <2>1, <3>2, <3>3
      <4>4. lw[k.at] = l /\ lw[c] + 1 = l
        BY <2>1, <3>3, <3>4
      <4>5. Link(c) \in Entry /\ Link(c) # Invalid /\ Link(c).at = c
        BY <4>1 DEF Link, Entry, Invalid
      <4>6. u \in Tables /\ Tree(u, G, lw, root, loose \cup {c})
        BY <3>2 DEF Mem, u
      <4> QED BY <4>2, <4>3, <4>4, <4>5, <4>6
    <3>8. /\ r.table \in Tables /\ Tree(r.table, G, lw, root, loose)
          /\ SameBut(u, r.table, k.at)
          /\ Parents(u, G, root, loose \cup {c}) => Parents(r.table, G, root, loose)
      <4>1. PICK d : d = loose \cup {c}
        OBVIOUS
      <4>2. Linking(u, G, lw, d, k.at, i, Link(c), r.table, loose)
        BY <3>3, <3>6, <3>7, <4>1 DEF Linking
      <4>3. Tree(u, G, lw, root, d)
        BY <3>7, <4>1
      <4> QED BY <3>7, <4>1, <4>2, <4>3, LinkTree
    <3>10. Mem(r, G, lw, root, loose, all)
      BY <3>2, <3>6, <3>8 DEF Mem, u
    <3>11. SameBelow(k0.table, r.table)
      <4>1. \A p \in Element : p < TIMESTACKTOP => p # c /\ p # k.at
        BY <2>1, <3>3, BootAssumption DEF Upper
      <4> QED BY <1>1, <3>2, <3>8, <4>1 DEF SameBelow, SameBut
    <3>12. r.at \in Upper \ G /\ r.at # NULL /\ lw[r.at] = l - 1
      BY <3>3, <3>4, <3>6, UpperElement DEF G
    <3>13. Tracks(k0, r, Follow(k0.table, q, i))
      <4>1. r.table[r.at] = Cleared
        BY <3>2, <3>3, <3>6, <3>8 DEF SameBut
      <4>2. Follow(k0.table, q, i) = BadPointer
        <5>1. CASE q \in Element /\ k = [k0 EXCEPT !.at = q]
          <6>1. k0 = [list |-> k0.list, table |-> k0.table, bytes |-> k0.bytes, ref |-> k0.ref, at |-> k0.at]
            BY DEF IsKernel
          <6>2. k.at = q /\ k.table = k0.table
            BY <5>1, <6>1
          <6> QED BY <1>4, <5>1, <6>2 DEF Follow, Invalid
        <5>2. CASE q = BadPointer
          BY <5>2, BootAssumption DEF Follow
        <5> QED BY <2>1, <5>1, <5>2 DEF Tracks
      <4> QED BY <4>1, <4>2 DEF Tracks
    <3>14. \A p \in loose \cup {root} : lw[p] = m[p]
      <4>1. \A p \in loose \cup {root} : p # c /\ p \in Upper
        BY <1>1, <3>3 DEF Tree
      <4> QED BY <1>1, <3>4, <4>1
    <3>15. Descends(k, r, i, F, G)
      <4>1. r = Put(a, k.at, i, Link(c), c)
        BY <3>1 DEF Put
      <4>2. IsKernel(a) /\ a.table \in Tables /\ a.table[k.at][i] = Invalid
        BY <3>2, <3>7 DEF Mem, u
      <4>3. Kept(a, r, G, G) /\ r.table[k.at][i] = Link(c)
        BY <3>7, <4>1, <4>2, PutKeeps
      <4>4. Kept(k, r, F, G)
        BY <3>2, <4>3, KeptTrans
      <4>5. Follow(r.table, k.at, i) = r.at
        BY <2>1, <3>6, <4>3 DEF Follow, Link
      <4> QED BY <1>4, <4>4, <4>5 DEF Descends
    <3> QED BY <3>10, <3>11, <3>12, <3>13, <3>14, <3>15 DEF WalksTo
  <2> HIDE DEF a
  <2> QED BY <2>2, <2>3
<1> QED BY <1>2, <1>3, <1>4

(* An address has an index in each of the four tables.                     *)
LEMMA IndexFacts ==
  ASSUME NEW va \in Nat
  PROVE  PT0X(va) \in Index /\ PT1X(va) \in Index /\ PT2X(va) \in Index /\ PT3X(va) \in Index
<1>1. Up(va) \in Nat /\ Up(Up(va)) \in Nat /\ Up(Up(Up(va))) \in Nat
  BY UpFacts
<1>2. PT1X(va) \in Index /\ PT2X(va) \in Index /\ PT3X(va) \in Index
  BY <1>1, UpFacts DEF PT1X, PT2X, PT3X
<1>3. Up(Up(Up(va))) % 2 \in 0 .. 1
  BY <1>1
<1> QED BY <1>2, <1>3, BootAssumption DEF PT0X, Index

(* The page of the table with the entry for va.                            *)
TableAt(t, root, va) ==
  Follow(t, Follow(t, Follow(t, root, PT0X(va)), PT1X(va)), PT2X(va))

(* pgdir_walk from the directory: the table of the last level, where the   *)
(* entry is the one that was there before, if any.                         *)
WalkEnds(k, w, va, m, F, G, lw, root, loose, all) ==
  /\ Mem(w, G, lw, root, loose, all) /\ SameBelow(k.table, w.table) /\ Kept(k, w, F, G)
  /\ \A p \in loose : lw[p] = m[p]
  /\ w.at = NULL => G = {}
  /\ w.at # NULL => /\ w.at \in Upper \ G /\ lw[w.at] = 1
                    /\ w.table[w.at][PT3X(va)] = Lookup(k.table, root, va)
                    /\ w.at = TableAt(w.table, root, va)

(* What a table in use leads to, it leads to later.                        *)
LEMMA FollowKept ==
  ASSUME NEW k, NEW r, NEW F, NEW G, Kept(k, r, F, G), NEW p \in Upper \ F, NEW x \in Index,
         Follow(k.table, p, x) # BadPointer
  PROVE  Follow(r.table, p, x) = Follow(k.table, p, x)
<1>1. p \in Element
  BY UpperElement
<1>2. k.table[p][x] # Invalid
  BY <1>1 DEF Follow, Invalid
<1> QED BY <1>1, <1>2 DEF Follow, Kept

(* pgdir_walk with create keeps the tree, whether memory runs out or not.  *)
LEMMA WalkTree ==
  ASSUME NEW k, NEW F, NEW lv, NEW root, NEW loose, NEW all,
         Mem(k, F, lv, root, loose, all), NEW va \in Nat,
         NEW w, w = pgdir_walk(k, root, va)
  PROVE  \E G, lw : WalkEnds(k, w, va, lv, F, G, lw, root, loose, all)
<1> DEFINE k0 == [k EXCEPT !.at = root]
           q1 == Follow(k0.table, root, PT0X(va))
           q2 == Follow(k0.table, q1, PT1X(va))
           q3 == Follow(k0.table, q2, PT2X(va))
           k1 == WalkStep(k0, PT0X(va))
           k2 == WalkStep(k1, PT1X(va))
           k3 == WalkStep(k2, PT2X(va))
<1>1. IsKernel(k) /\ k.table \in Tables /\ Heap(k.list, F) /\ Tree(k.table, F, lv, root, loose)
  BY DEF Mem
<1>2. k = [list |-> k.list, table |-> k.table, bytes |-> k.bytes, ref |-> k.ref, at |-> k.at]
  BY <1>1 DEF IsKernel
<1>3. IsKernel(k0) /\ k0.at = root /\ k0.table = k.table /\ k0.list = k.list
      /\ k0 = [k0 EXCEPT !.at = root] /\ k0.bytes = k.bytes
  <2>1. k0 = [list |-> k.list, table |-> k.table, bytes |-> k.bytes, ref |-> k.ref, at |-> root]
    BY <1>2
  <2> HIDE DEF k0
  <2>2. k0.at = root /\ k0.table = k.table /\ k0.list = k.list /\ k0.bytes = k.bytes /\ k0.ref = k.ref
    BY <2>1
  <2> QED BY <2>1, <2>2 DEF IsKernel
<1>4. w = k3
  BY DEF pgdir_walk
<1>5. PT0X(va) \in Index /\ PT1X(va) \in Index /\ PT2X(va) \in Index /\ PT3X(va) \in Index
  BY IndexFacts
<1>6. Lookup(k.table, root, va) = IF q3 \in Element THEN k.table[q3][PT3X(va)] ELSE Invalid
  BY <1>3 DEF Lookup
<1> HIDE DEF k0, k1, k2, k3, q1, q2, q3
<1>7. WalksTo(k0, k0, root, lv, F, lv, root, loose, all, 4)
  <2>1. root \in Upper \ F /\ root # NULL /\ root \in Element /\ lv[root] = 4
    BY <1>1, UpperElement DEF Tree
  <2>2. Mem(k0, F, lv, root, loose, all)
    BY <1>1, <1>3 DEF Mem
  <2>3. SameBelow(k0.table, k0.table)
    BY DEF SameBelow
  <2> QED BY <1>3, <2>1, <2>2, <2>3 DEF WalksTo, Tracks
<1>8. PICK F1, lv1 : /\ WalksTo(k0, k1, q1, lv, F1, lv1, root, loose, all, 3)
                     /\ Descends(k0, k1, PT0X(va), F, F1)
  <2>1. 4 \in 2 .. 4 /\ 4 - 1 = 3
    OBVIOUS
  <2>2. \E G, lw : /\ WalksTo(k0, k1, q1, lv, G, lw, root, loose, all, 4 - 1)
                   /\ Descends(k0, k1, PT0X(va), F, G)
    BY <1>3, <1>5, <1>7, <2>1, WalkStepTree DEF k1, q1
  <2> QED BY <2>1, <2>2
<1>9. PICK F2, lv2 : /\ WalksTo(k0, k2, q2, lv, F2, lv2, root, loose, all, 2)
                     /\ Descends(k1, k2, PT1X(va), F1, F2)
  <2>1. 3 \in 2 .. 4 /\ 3 - 1 = 2
    OBVIOUS
  <2>2. \E G, lw : /\ WalksTo(k0, k2, q2, lv, G, lw, root, loose, all, 3 - 1)
                   /\ Descends(k1, k2, PT1X(va), F1, G)
    BY <1>3, <1>5, <1>8, <2>1, WalkStepTree DEF k2, q2
  <2> QED BY <2>1, <2>2
<1>10. PICK F3, lv3 : /\ WalksTo(k0, k3, q3, lv, F3, lv3, root, loose, all, 1)
                      /\ Descends(k2, k3, PT2X(va), F2, F3)
  <2>1. 2 \in 2 .. 4 /\ 2 - 1 = 1
    OBVIOUS
  <2>2. \E G, lw : /\ WalksTo(k0, k3, q3, lv, G, lw, root, loose, all, 2 - 1)
                   /\ Descends(k2, k3, PT2X(va), F2, G)
    BY <1>3, <1>5, <1>9, <2>1, WalkStepTree DEF k3, q3
  <2> QED BY <2>1, <2>2
<1>11. ASSUME w.at # NULL PROVE w.table[w.at][PT3X(va)] = Lookup(k.table, root, va)
  <2>1. Tracks(k0, w, q3)
    BY <1>4, <1>10, <1>11 DEF WalksTo
  <2>2. CASE q3 \in Element /\ w = [k0 EXCEPT !.at = q3]
    <3>1. k0 = [list |-> k0.list, table |-> k0.table, bytes |-> k0.bytes, ref |-> k0.ref, at |-> k0.at]
      BY <1>3 DEF IsKernel
    <3>2. w.at = q3 /\ w.table = k.table
      BY <1>3, <2>2, <3>1
    <3> QED BY <1>6, <2>2, <3>2
  <2>3. CASE q3 = BadPointer /\ w.table[w.at] = Cleared
    BY <1>5, <1>6, <2>3, BootAssumption DEF Cleared
  <2> QED BY <2>1, <2>2, <2>3 DEF Tracks
<1>12. Kept(k, w, F, F3)
  <2>1. Kept(k, k0, F, F)
    BY <1>3, KeptSame
  <2>2. Kept(k0, k1, F, F1) /\ Kept(k1, k2, F1, F2) /\ Kept(k2, k3, F2, F3)
    BY <1>8, <1>9, <1>10 DEF Descends
  <2>3. Kept(k, k1, F, F1)
    BY <2>1, <2>2, KeptTrans
  <2>4. Kept(k, k2, F, F2)
    BY <2>2, <2>3, KeptTrans
  <2> QED BY <1>4, <2>2, <2>4, KeptTrans
<1>13. ASSUME w.at # NULL PROVE w.at = TableAt(w.table, root, va)
  <2>1. k3.at = Follow(k3.table, k2.at, PT2X(va)) /\ k2.at # NULL
    BY <1>4, <1>10, <1>13 DEF Descends
  <2>2. k2.at = Follow(k2.table, k1.at, PT1X(va)) /\ k1.at # NULL
    BY <1>9, <2>1 DEF Descends
  <2>3. k1.at = Follow(k1.table, root, PT0X(va))
    BY <1>3, <1>8, <2>2 DEF Descends
  <2>4. k1.at \in Upper \ F1 /\ k2.at \in Upper \ F2 /\ root \in Upper \ F1
    BY <1>8, <1>9, <2>1, <2>2 DEF WalksTo, Mem, Tree
  <2>5. Kept(k1, k2, F1, F2) /\ Kept(k2, k3, F2, F3)
    BY <1>9, <1>10 DEF Descends
  <2>6. Kept(k1, k3, F1, F3) /\ k1.at \in Upper \ F2
    <3>1. Kept(k1, k3, F1, F3)
      BY <2>5, KeptTrans
    <3>2. F2 \subseteq F1
      BY <2>5 DEF Kept
    <3> QED BY <2>4, <3>1, <3>2
  <2>7. Follow(k3.table, root, PT0X(va)) = k1.at
    BY <1>5, <2>3, <2>4, <2>6, FollowKept, UpperElement
  <2>8. Follow(k3.table, k1.at, PT1X(va)) = k2.at
    BY <1>5, <2>2, <2>4, <2>5, <2>6, FollowKept, UpperElement
  <2> QED BY <1>4, <2>1, <2>7, <2>8 DEF TableAt
<1> QED BY <1>3, <1>4, <1>10, <1>11, <1>12, <1>13 DEF WalksTo, WalkEnds

-----------------------------------------------------------------------------
(* Follow leads to a page only through an entry.                           *)
LEMMA FollowTree ==
  ASSUME NEW t, NEW F, NEW lv, NEW root, NEW loose, Tree(t, F, lv, root, loose),
         NEW p, p \in Element => p \in Upper \ F, NEW x \in Index,
         NEW q, q = Follow(t, p, x), q \in Element
  PROVE  /\ p \in Upper \ F /\ p # NULL
         /\ t[p][x] # Invalid /\ t[p][x].at = q
         /\ q \in Upper \ F /\ lv[p] = lv[q] + 1
<1>1. p \in Element /\ q = t[p][x].at
  BY BootAssumption DEF Follow
<1>2. t[p][x] # Invalid
  BY <1>1, BootAssumption DEF Invalid
<1> QED BY <1>1, <1>2, TreeDown, UpperElement

(* The tables q1, q2 and q3 on the way from root to the entry for va.       *)
Way(t, root, va, q1, q2, q3) ==
  /\ q1 = Follow(t, root, PT0X(va)) /\ q2 = Follow(t, q1, PT1X(va)) /\ q3 = Follow(t, q2, PT2X(va))
  /\ q3 \in Element

(* They are in use, one level below the other, and each leads to the next. *)
LEMMA WayTree ==
  ASSUME NEW t, NEW F, NEW lv, NEW root, NEW loose, Tree(t, F, lv, root, loose),
         NEW va \in Nat, NEW q1, NEW q2, NEW q3, Way(t, root, va, q1, q2, q3)
  PROVE  /\ root \in Upper \ F /\ t[root][PT0X(va)] # Invalid /\ t[root][PT0X(va)].at = q1
         /\ q1 \in Upper \ F /\ t[q1][PT1X(va)] # Invalid /\ t[q1][PT1X(va)].at = q2
         /\ q2 \in Upper \ F /\ t[q2][PT2X(va)] # Invalid /\ t[q2][PT2X(va)].at = q3
         /\ q3 \in Upper \ F
         /\ lv[root] = 4 /\ lv[q1] = 3 /\ lv[q2] = 2 /\ lv[q3] = 1
<1>1. PT0X(va) \in Index /\ PT1X(va) \in Index /\ PT2X(va) \in Index
  BY IndexFacts
<1>2. /\ q1 = Follow(t, root, PT0X(va)) /\ q2 = Follow(t, q1, PT1X(va))
      /\ q3 = Follow(t, q2, PT2X(va)) /\ q3 \in Element
  BY DEF Way
<1>3. root \in Upper \ F /\ lv[root] = 4
  BY DEF Tree
<1>4. q1 \in Element /\ q2 \in Element
  <2>1. q2 \in Element
    BY <1>2, BootAssumption DEF Follow
  <2> QED BY <1>2, <2>1, BootAssumption DEF Follow
<1>5. /\ t[root][PT0X(va)] # Invalid /\ t[root][PT0X(va)].at = q1
      /\ q1 \in Upper \ F /\ lv[root] = lv[q1] + 1
  BY <1>1, <1>2, <1>3, <1>4, FollowTree
<1>6. /\ t[q1][PT1X(va)] # Invalid /\ t[q1][PT1X(va)].at = q2
      /\ q2 \in Upper \ F /\ lv[q1] = lv[q2] + 1
  BY <1>1, <1>2, <1>4, <1>5, FollowTree
<1>7. /\ t[q2][PT2X(va)] # Invalid /\ t[q2][PT2X(va)].at = q3
      /\ q3 \in Upper \ F /\ lv[q2] = lv[q3] + 1
  BY <1>1, <1>2, <1>4, <1>6, FollowTree
<1>8. lv[q1] = 3 /\ lv[q2] = 2 /\ lv[q3] = 1
  <2>1. lv[q1] \in 0 .. 4 /\ lv[q2] \in 0 .. 4 /\ lv[q3] \in 0 .. 4
    BY <1>2, <1>4 DEF Tree
  <2> QED BY <1>3, <1>5, <1>6, <1>7, <2>1
<1> QED BY <1>3, <1>5, <1>6, <1>7, <1>8

(* What Lookup finds is in the table of the last level.                    *)
LEMMA LookupAt ==
  ASSUME NEW t, NEW root, NEW va
  PROVE  /\ Lookup(t, root, va) =
              IF TableAt(t, root, va) \in Element THEN t[TableAt(t, root, va)][PT3X(va)] ELSE Invalid
         /\ TableAt(t, root, va) \in Element =>
              \E q1, q2, q3 : Way(t, root, va, q1, q2, q3) /\ q3 = TableAt(t, root, va)
BY DEF Lookup, TableAt, Way

(* Tables that agree with t above the last level lead to the same table.   *)
LEMMA TableStays ==
  ASSUME NEW t, NEW F, NEW lv, NEW root, NEW loose, Tree(t, F, lv, root, loose),
         NEW va \in Nat, TableAt(t, root, va) \in Element,
         NEW u, \A q \in Upper \ F : lv[q] # 1 => u[q] = t[q]
  PROVE  TableAt(u, root, va) = TableAt(t, root, va)
<1>1. PICK q1, q2, q3 : Way(t, root, va, q1, q2, q3) /\ q3 = TableAt(t, root, va)
  BY LookupAt
<1>2. /\ root \in Upper \ F /\ t[root][PT0X(va)].at = q1
      /\ q1 \in Upper \ F /\ t[q1][PT1X(va)].at = q2
      /\ q2 \in Upper \ F /\ t[q2][PT2X(va)].at = q3
      /\ lv[root] = 4 /\ lv[q1] = 3 /\ lv[q2] = 2
  BY <1>1, WayTree
<1>3. u[root] = t[root] /\ u[q1] = t[q1] /\ u[q2] = t[q2]
  BY <1>2
<1>4. root \in Element /\ q1 \in Element /\ q2 \in Element
  BY <1>2, UpperElement
<1>5. Follow(u, root, PT0X(va)) = q1 /\ Follow(u, q1, PT1X(va)) = q2 /\ Follow(u, q2, PT2X(va)) = q3
  BY <1>2, <1>3, <1>4 DEF Follow
<1> QED BY <1>1, <1>5 DEF TableAt

(* Where Lookup finds an entry, pgdir_walk ends at its table, and changes  *)
(* nothing on the way.                                                     *)
LEMMA LookupTree ==
  ASSUME NEW k, NEW F, NEW lv, NEW root, NEW loose, NEW all,
         Mem(k, F, lv, root, loose, all), NEW va \in Nat,
         Lookup(k.table, root, va) # Invalid,
         NEW w, w = pgdir_walk(k, root, va)
  PROVE  /\ w.at \in Upper \ F /\ lv[w.at] = 1
         /\ w.table = k.table
         /\ w.at = TableAt(k.table, root, va)
         /\ Lookup(k.table, root, va) = k.table[w.at][PT3X(va)]
<1> DEFINE t == k.table
<1>1. IsKernel(k) /\ t \in Tables /\ Tree(t, F, lv, root, loose)
  BY DEF Mem
<1>2. TableAt(t, root, va) \in Element /\ Lookup(t, root, va) = t[TableAt(t, root, va)][PT3X(va)]
  BY LookupAt
<1>3. PICK q1, q2, q3 : Way(t, root, va, q1, q2, q3) /\ q3 = TableAt(t, root, va)
  BY <1>2, LookupAt
<1> DEFINE k0 == [k EXCEPT !.at = root]
           k1 == [k EXCEPT !.at = q1]
           k2 == [k EXCEPT !.at = q2]
           k3 == [k EXCEPT !.at = q3]
<1>5. w = WalkStep(WalkStep(WalkStep(k0, PT0X(va)), PT1X(va)), PT2X(va))
  BY DEF pgdir_walk
<1>6. /\ k0.at = root /\ k0.table = t /\ k1 = [k0 EXCEPT !.at = q1]
      /\ k1.at = q1 /\ k1.table = t /\ k2 = [k1 EXCEPT !.at = q2]
      /\ k2.at = q2 /\ k2.table = t /\ k3 = [k2 EXCEPT !.at = q3]
      /\ k3.at = q3 /\ k3.table = t
  <2>1. k = [list |-> k.list, table |-> k.table, bytes |-> k.bytes, ref |-> k.ref, at |-> k.at]
    BY <1>1 DEF IsKernel
  <2>2. /\ k0 = [list |-> k.list, table |-> t, bytes |-> k.bytes, ref |-> k.ref, at |-> root]
        /\ k1 = [list |-> k.list, table |-> t, bytes |-> k.bytes, ref |-> k.ref, at |-> q1]
        /\ k2 = [list |-> k.list, table |-> t, bytes |-> k.bytes, ref |-> k.ref, at |-> q2]
        /\ k3 = [list |-> k.list, table |-> t, bytes |-> k.bytes, ref |-> k.ref, at |-> q3]
    BY <2>1
  <2> HIDE DEF k0, k1, k2, k3
  <2> QED BY <2>2
<1> HIDE DEF k0, k1, k2, k3
<1>7. /\ root \in Upper \ F /\ t[root][PT0X(va)] # Invalid /\ t[root][PT0X(va)].at = q1
      /\ q1 \in Upper \ F /\ t[q1][PT1X(va)] # Invalid /\ t[q1][PT1X(va)].at = q2
      /\ q2 \in Upper \ F /\ t[q2][PT2X(va)] # Invalid /\ t[q2][PT2X(va)].at = q3
      /\ q3 \in Upper \ F /\ lv[q3] = 1
  BY <1>1, <1>3, WayTree
<1>8. root # NULL /\ q1 # NULL /\ q2 # NULL
  BY <1>7, UpperElement
<1>9. w = k3
  <2>1. WalkStep(k0, PT0X(va)) = k1
    BY <1>6, <1>7, <1>8 DEF WalkStep
  <2>2. WalkStep(k1, PT1X(va)) = k2
    BY <1>6, <1>7, <1>8 DEF WalkStep
  <2>3. WalkStep(k2, PT2X(va)) = k3
    BY <1>6, <1>7, <1>8 DEF WalkStep
  <2> QED BY <1>5, <2>1, <2>2, <2>3
<1> QED BY <1>2, <1>3, <1>6, <1>7, <1>9

(* The entry x of a table of the last level is cleared, and the page it    *)
(* led to is free.                                                         *)
Unlinking(t, F, lv, w, x, p, u, G) ==
  /\ w \in Upper \ F /\ x \in Index /\ t[w][x] # Invalid /\ lv[w] = 1
  /\ p = t[w][x].at /\ G = F \cup {p} /\ u = SetEntry(t, w, x, Invalid)

(* Clearing an entry keeps the tree.                                       *)
LEMMA UnlinkTree ==
  ASSUME NEW t \in Tables, NEW F, NEW lv, NEW root, NEW loose, Tree(t, F, lv, root, loose),
         NEW w, NEW x, NEW p, NEW u, NEW G, Unlinking(t, F, lv, w, x, p, u, G)
  PROVE  /\ u \in Tables /\ Tree(u, G, lv, root, loose)
         /\ u[w][x] = Invalid /\ p \in Element \ F /\ SameBut(t, u, w)
         /\ Parents(t, F, root, loose) => Parents(u, G, root, loose)
<1>a. /\ w \in Upper \ F /\ x \in Index /\ t[w][x] # Invalid /\ lv[w] = 1
      /\ p = t[w][x].at /\ G = F \cup {p} /\ u = SetEntry(t, w, x, Invalid)
  BY DEF Unlinking
<1> USE <1>a
<1>1. w \in Element
  BY UpperElement
<1>2. /\ u \in Tables
      /\ \A q \in Element : q # w => u[q] = t[q]
      /\ \A y \in Index : u[w][y] = IF y = x THEN Invalid ELSE t[w][y]
  <2>1. t[w] \in [Index -> Entry] /\ u = [t EXCEPT ![w] = [t[w] EXCEPT ![x] = Invalid]]
    BY <1>1 DEF Tables, SetEntry
  <2>2. Invalid \in Entry
    BY DEF Invalid, Entry
  <2>3. [t[w] EXCEPT ![x] = Invalid] \in [Index -> Entry]
    BY <2>1, <2>2
  <2>4. u \in Tables /\ u[w] = [t[w] EXCEPT ![x] = Invalid] /\ \A q \in Element : q # w => u[q] = t[q]
    BY ONLY <1>1, <2>1, <2>3, t \in Tables DEF Tables
  <2>5. \A y \in Index : u[w][y] = IF y = x THEN Invalid ELSE t[w][y]
    BY ONLY <2>1, <2>4
  <2> QED BY <2>4, <2>5
<1>3. \A q \in Upper \ F, y \in Index : u[q][y] = IF q = w /\ y = x THEN Invalid ELSE t[q][y]
  BY <1>2, UpperElement
<1>4. p \in Upper \ F /\ p # root /\ p \notin loose /\ lv[w] = lv[p] + 1
  BY TreeDown
<1>5. lv[p] = 0
  <2>1. lv[p] \in 0 .. 4
    BY <1>4, UpperElement DEF Tree
  <2> QED BY <1>4, <2>1
<1>6. \A y \in Index : t[p][y] = Invalid
  <2> SUFFICES ASSUME NEW y \in Index, t[p][y] # Invalid PROVE FALSE
    OBVIOUS
  <2>1. t[p][y].at \in Upper \ F /\ lv[p] = lv[t[p][y].at] + 1
    BY <1>4, TreeDown
  <2>2. lv[t[p][y].at] \in 0 .. 4
    BY <2>1, UpperElement DEF Tree
  <2> QED BY <1>5, <2>1, <2>2
<1>7. \A q \in Upper \ F, y \in Index : u[q][y] # Invalid => t[q][y] = u[q][y] /\ u[q][y].at # p
  <2> SUFFICES ASSUME NEW q \in Upper \ F, NEW y \in Index, u[q][y] # Invalid
               PROVE  t[q][y] = u[q][y] /\ u[q][y].at # p
    OBVIOUS
  <2>1. t[q][y] = u[q][y] /\ ~(q = w /\ y = x)
    BY <1>3
  <2> QED BY <2>1 DEF Tree
<1>8. Tree(u, G, lv, root, loose)
  <2>1. /\ G \subseteq Upper /\ root \in Upper \ G /\ loose \subseteq Upper \ G
        /\ root \notin loose /\ lv \in [Element -> 0 .. 4] /\ lv[root] = 4
    BY <1>4 DEF Tree
  <2>2. ASSUME NEW q \in Upper \ G, NEW y \in Index, u[q][y] # Invalid
        PROVE  /\ u[q][y].at \in Upper \ G /\ u[q][y].at # root /\ u[q][y].at \notin loose
               /\ lv[q] = lv[u[q][y].at] + 1
    <3>1. q \in Upper \ F /\ t[q][y] = u[q][y] /\ u[q][y].at # p
      BY <1>7, <2>2
    <3> QED BY <2>2, <3>1, TreeDown
  <2>3. ASSUME NEW q \in Upper \ G, NEW r \in Upper \ G, NEW y \in Index, NEW z \in Index,
               u[q][y] # Invalid, u[r][z] # Invalid, u[q][y].at = u[r][z].at
        PROVE  q = r /\ y = z
    <3>1. q \in Upper \ F /\ t[q][y] = u[q][y] /\ r \in Upper \ F /\ t[r][z] = u[r][z]
      BY <1>7, <2>3
    <3> QED BY <2>3, <3>1 DEF Tree
  <2> QED BY <2>1, <2>2, <2>3 DEF Tree
<1>9. ASSUME Parents(t, F, root, loose) PROVE Parents(u, G, root, loose)
  <2> SUFFICES ASSUME NEW q \in Upper \ G, q # root, q \notin loose
               PROVE  \E r \in Upper \ G, y \in Index : u[r][y] # Invalid /\ u[r][y].at = q
    BY DEF Parents
  <2>1. PICK r \in Upper \ F, y \in Index : t[r][y] # Invalid /\ t[r][y].at = q
    BY <1>9 DEF Parents
  <2>2. r # p /\ ~(r = w /\ y = x)
    BY <1>6, <2>1
  <2>3. u[r][y] = t[r][y] /\ r \in Upper \ G
    BY <1>3, <2>1, <2>2
  <2> QED BY <2>1, <2>3
<1>10. u[w][x] = Invalid /\ p \in Element
  BY <1>2, <1>4, UpperElement
<1> QED BY <1>2, <1>4, <1>8, <1>9, <1>10 DEF SameBut

(* An entry is cleared, its page loses a reference and is freed.           *)
Unput(k, q, i, p) ==
  [k EXCEPT !.table[q][i] = Invalid, !.ref[p] = @ - 1, !.list = LIST_INSERT_HEAD(@, p)]

(* The fields of the kernel's record after that.                           *)
LEMMA EntryUnput ==
  ASSUME NEW k, IsKernel(k), NEW q, NEW i, NEW p, NEW r, r = Unput(k, q, i, p)
  PROVE  /\ r.list = LIST_INSERT_HEAD(k.list, p) /\ r.bytes = k.bytes /\ IsKernel(r)
         /\ r.table = SetEntry(k.table, q, i, Invalid)
<1> DEFINE T == SetEntry(k.table, q, i, Invalid)
           R == [k.ref EXCEPT ![p] = @ - 1]
           M == LIST_INSERT_HEAD(k.list, p)
<1>1. k = [list |-> k.list, table |-> k.table, bytes |-> k.bytes, ref |-> k.ref, at |-> k.at]
  BY DEF IsKernel
<1>2. r = [[[k EXCEPT !.table = T] EXCEPT !.ref = R] EXCEPT !.list = M]
  <2>1. DOMAIN k = {"list", "table", "bytes", "ref", "at"}
    BY <1>1
  <2> QED BY <2>1 DEF Unput, SetEntry
<1> HIDE DEF T, R, M
<1>3. r = [list |-> M, table |-> T, bytes |-> k.bytes, ref |-> R, at |-> k.at]
  BY ONLY <1>1, <1>2
<1> QED BY <1>3 DEF IsKernel, T, M

(* page_remove of a page that is mapped at va.                             *)
LEMMA RemoveTree ==
  ASSUME NEW k, NEW F, NEW lv, NEW loose, NEW all,
         Mem(k, F, lv, ttbr0, loose, all), NEW va \in Nat,
         Lookup(k.table, ttbr0, va) # Invalid,
         NEW r, r = page_remove(k, va)
  PROVE  /\ \E G : Mem(r, G, lv, ttbr0, loose, all)
         /\ Lookup(r.table, ttbr0, va) = Invalid
         /\ SameBelow(k.table, r.table)
<1> DEFINE w == pgdir_walk(k, ttbr0, va)
           t == k.table
           x == PT3X(va)
           p == Lookup(t, ttbr0, va).at
           u == r.table
<1>1. IsKernel(k) /\ t \in Tables /\ Tree(t, F, lv, ttbr0, loose) /\ Heap(k.list, F)
  BY DEF Mem
<1>2. x \in Index
  BY IndexFacts
<1>3. /\ w.at \in Upper \ F /\ lv[w.at] = 1 /\ Lookup(t, ttbr0, va) = t[w.at][x]
      /\ w.at = TableAt(t, ttbr0, va)
  BY LookupTree
<1>4. r = Unput(k, w.at, x, p)
  BY DEF page_remove, Unput
<1> HIDE DEF w, x, p, u
<1>5. r.list = LIST_INSERT_HEAD(k.list, p) /\ IsKernel(r) /\ u = SetEntry(t, w.at, x, Invalid)
  BY <1>1, <1>4, EntryUnput DEF u
<1>6. t[w.at][x] # Invalid /\ p = t[w.at][x].at
  BY <1>3 DEF p
<1>a. PICK G : G = F \cup {p}
  OBVIOUS
<1>b. Unlinking(t, F, lv, w.at, x, p, u, G)
  BY <1>a, <1>2, <1>3, <1>5, <1>6 DEF Unlinking
<1>7. /\ u \in Tables /\ Tree(u, G, lv, ttbr0, loose)
      /\ u[w.at][x] = Invalid /\ p \in Element \ F /\ SameBut(t, u, w.at)
      /\ Parents(t, F, ttbr0, loose) => Parents(u, G, ttbr0, loose)
  BY <1>b, <1>1, UnlinkTree
<1>8. Heap(r.list, G)
  BY <1>a, <1>1, <1>5, <1>7, HeapPush
<1>9. Mem(r, G, lv, ttbr0, loose, all)
  BY <1>5, <1>7, <1>8 DEF Mem, u
<1>10. Lookup(u, ttbr0, va) = Invalid
  <2>1. \A q \in Upper \ F : lv[q] # 1 => u[q] = t[q]
    BY <1>3, <1>7, UpperElement DEF SameBut
  <2>2. TableAt(u, ttbr0, va) = w.at
    BY <1>1, <1>3, <2>1, TableStays, UpperElement
  <2> QED BY <1>3, <1>7, <2>2, LookupAt, UpperElement DEF x
<1>11. SameBelow(t, u)
  <2>1. \A q \in Element : q < TIMESTACKTOP => q # w.at
    BY <1>3, BootAssumption DEF Upper
  <2> QED BY <1>7, <2>1 DEF SameBelow, SameBut
<1> QED BY <1>9, <1>10, <1>11 DEF u

(* It clears the entry and no byte.                                        *)
LEMMA RemoveFields ==
  ASSUME NEW k, NEW F, NEW lv, NEW loose, NEW all,
         Mem(k, F, lv, ttbr0, loose, all), NEW va \in Nat,
         Lookup(k.table, ttbr0, va) # Invalid,
         NEW r, r = page_remove(k, va)
  PROVE  /\ r.bytes = k.bytes
         /\ r.table = SetEntry(k.table, TableAt(k.table, ttbr0, va), PT3X(va), Invalid)
<1> DEFINE w == pgdir_walk(k, ttbr0, va)
           x == PT3X(va)
           p == Lookup(k.table, ttbr0, va).at
<1>1. w.at = TableAt(k.table, ttbr0, va)
  BY LookupTree
<1>2. r = Unput(k, w.at, x, p)
  BY DEF page_remove, Unput
<1>3. IsKernel(k)
  BY DEF Mem
<1> HIDE DEF w, x, p
<1>4. r.bytes = k.bytes /\ r.table = SetEntry(k.table, w.at, x, Invalid)
  BY <1>2, <1>3, EntryUnput
<1> QED BY <1>1, <1>4 DEF x

(* page_insert of a new page.                                              *)
LEMMA InsertTree ==
  ASSUME NEW k, NEW F, NEW lv, NEW p, Mem(k, F, lv, ttbr0, {p}, TRUE), lv[p] = 0,
         NEW va \in Nat, NEW n, n = page_insert(k, p, va)
  PROVE  /\ \E G, lw : Mem(n, G, lw, ttbr0, {}, G # {})
         /\ SameBelow(k.table, n.table)
<1> DEFINE r == IF Lookup(k.table, ttbr0, va) # Invalid THEN page_remove(k, va) ELSE k
           w == pgdir_walk(r, ttbr0, va)
           x == PT3X(va)
           e == [at |-> p, attr |-> "RW_ALL"]
<1>1. n = IF w.at = NULL THEN w ELSE Put(w, w.at, x, e, p)
  BY DEF page_insert, Put
<1>2. /\ \E F1 : Mem(r, F1, lv, ttbr0, {p}, TRUE)
      /\ Lookup(r.table, ttbr0, va) = Invalid
      /\ SameBelow(k.table, r.table)
  <2>1. CASE Lookup(k.table, ttbr0, va) = Invalid
    <3>1. r = k
      BY <2>1
    <3>2. SameBelow(k.table, k.table)
      BY DEF SameBelow
    <3> HIDE DEF r
    <3> QED BY <2>1, <3>1, <3>2
  <2>2. CASE Lookup(k.table, ttbr0, va) # Invalid
    <3>1. r = page_remove(k, va)
      BY <2>2
    <3> HIDE DEF r
    <3> QED BY <2>2, <3>1, RemoveTree
  <2> QED BY <2>1, <2>2
<1>3. PICK F1 : Mem(r, F1, lv, ttbr0, {p}, TRUE)
  BY <1>2
<1>4. w = pgdir_walk(r, ttbr0, va)
  OBVIOUS
<1> HIDE DEF r, w
<1>a. PICK d : d = {p}
  OBVIOUS
<1>5. PICK G, lw : WalkEnds(r, w, va, lv, F1, G, lw, ttbr0, d, TRUE)
  <2>1. Mem(r, F1, lv, ttbr0, d, TRUE)
    BY <1>3, <1>a
  <2> QED BY <1>4, <2>1, WalkTree
<1>6. SameBelow(k.table, w.table)
  BY <1>2, <1>5 DEF SameBelow, WalkEnds
<1>7. IsKernel(w) /\ w.table \in Tables /\ Heap(w.list, G) /\ Tree(w.table, G, lw, ttbr0, d)
      /\ Parents(w.table, G, ttbr0, d) /\ p \in d
  BY <1>5, <1>a DEF Mem, WalkEnds
<1>8. CASE w.at = NULL
  <2>1. n = w /\ G = {}
    BY <1>1, <1>5, <1>8 DEF WalkEnds
  <2>2. Tree(w.table, G, lw, ttbr0, {})
    BY <1>7 DEF Tree
  <2>3. Mem(w, G, lw, ttbr0, {}, G # {})
    BY <1>7, <2>1, <2>2 DEF Mem
  <2> QED BY <1>6, <2>1, <2>3
<1>9. CASE w.at # NULL
  <2>1. n = Put(w, w.at, x, e, p)
    BY <1>1, <1>9
  <2>2. x \in Index /\ p \in Upper
    BY <1>7, IndexFacts DEF Tree
  <2>3. e \in Entry /\ e # Invalid /\ e.at = p
    <3>1. p \in Nat
      BY <2>2, BootAssumption DEF Upper
    <3> QED BY <3>1 DEF Entry, Invalid
  <2> HIDE DEF x, e
  <2>4. /\ n.list = w.list /\ IsKernel(n)
        /\ n.table = SetEntry(w.table, w.at, x, e)
    BY <1>7, <2>1, EntryPut
  <2>5. w.at \in Upper \ G /\ w.table[w.at][x] = Invalid /\ e.at \in d /\ {} = d \ {e.at} /\ lw[w.at] = lw[e.at] + 1
    <3>1. lw[p] = 0 /\ lw[w.at] = 1
      BY <1>5, <1>7, <1>9 DEF WalkEnds
    <3>2. e.at \in d /\ {} = d \ {e.at}
      BY <1>a, <2>3
    <3> QED BY <1>2, <1>5, <1>9, <2>3, <3>1, <3>2 DEF x, WalkEnds
  <2>a. Linking(w.table, G, lw, d, w.at, x, e, n.table, {})
    BY <2>2, <2>3, <2>4, <2>5 DEF Linking
  <2>6. /\ n.table \in Tables /\ Tree(n.table, G, lw, ttbr0, {})
        /\ SameBut(w.table, n.table, w.at)
        /\ Parents(w.table, G, ttbr0, d) => Parents(n.table, G, ttbr0, {})
    BY <1>7, <2>a, LinkTree
  <2>8. Mem(n, G, lw, ttbr0, {}, G # {})
    BY <1>7, <2>4, <2>6 DEF Mem
  <2>9. SameBelow(k.table, n.table)
    <3>1. \A q \in Element : q < TIMESTACKTOP => q # w.at
      BY <2>5, BootAssumption DEF Upper
    <3> QED BY <1>6, <2>6, <3>1 DEF SameBelow, SameBut
  <2> QED BY <2>8, <2>9
<1> QED BY <1>8, <1>9

-----------------------------------------------------------------------------
(* A page taken off the list, filled, and inserted at va.                  *)
Mapping(k, a, b, va, n) ==
  /\ a = page_alloc(k) /\ a.at # NULL
  /\ IsKernel(b) /\ b.list = a.list /\ b.table = a.table
  /\ n = page_insert(b, a.at, va)

(* What the kernel knows of the pages above it when the directory of the   *)
(* program is at ttbr0.                                                    *)
Owns(k) == \E F, lv : Mem(k, F, lv, ttbr0, {}, F # {})

(* Mapping a new page keeps the tree.                                      *)
LEMMA MapTree ==
  ASSUME NEW k, Owns(k), NEW a, NEW b, NEW va \in Nat, NEW n, Mapping(k, a, b, va, n)
  PROVE  Owns(n) /\ SameBelow(k.table, n.table)
<1>1. /\ a = page_alloc(k) /\ a.at # NULL
      /\ IsKernel(b) /\ b.list = a.list /\ b.table = a.table
      /\ n = page_insert(b, a.at, va)
  BY DEF Mapping
<1>2. PICK F, lv : Mem(k, F, lv, ttbr0, {}, F # {})
  BY DEF Owns
<1>3. /\ a.at \in F /\ a.at \in Element /\ IsKernel(a)
      /\ \A q \in Element : q # a.at => a.table[q] = k.table[q]
  BY <1>1, <1>2, AllocTakes DEF Mem
<1>4. Mem(k, F, lv, ttbr0, {}, TRUE)
  BY <1>2, <1>3 DEF Mem
<1>5. PICK p : p = a.at
  OBVIOUS
<1>6. PICK lw : lw = SetLevel(lv, p, 0)
  OBVIOUS
<1>7. Mem(a, F \ {p}, lw, ttbr0, {} \cup {p}, TRUE)
  <2>1. 0 \in 0 .. 4
    OBVIOUS
  <2> QED BY <1>1, <1>4, <1>5, <1>6, <2>1, AllocTree
<1>8. Mem(b, F \ {p}, lw, ttbr0, {p}, TRUE)
  <2>1. {} \cup {p} = {p}
    OBVIOUS
  <2> QED BY <1>1, <1>7, <2>1 DEF Mem
<1>9. lw[p] = 0
  BY <1>2, <1>3, <1>5, <1>6 DEF Mem, Tree, SetLevel
<1>10. (\E G, lx : Mem(n, G, lx, ttbr0, {}, G # {})) /\ SameBelow(b.table, n.table)
  BY <1>1, <1>5, <1>8, <1>9, InsertTree
<1>11. SameBelow(k.table, n.table)
  <2>1. p \in Upper
    BY <1>2, <1>3, <1>5 DEF Mem, Tree
  <2>2. \A q \in Element : q < TIMESTACKTOP => q # p
    BY <2>1, BootAssumption DEF Upper
  <2> QED BY <1>1, <1>3, <1>5, <1>10, <2>2 DEF SameBelow
<1> QED BY <1>10, <1>11 DEF Owns

(* What a call leaves is what the next step starts from.                   *)
LEMMA KeepOwns ==
  ASSUME NEW n, Owns(n), Keep(n), ttbr0' = ttbr0
  PROVE  Owns(Kernel)' /\ table' = n.table
<1>1. PICK G, lw : Mem(n, G, lw, ttbr0, {}, G # {})
  BY DEF Owns
<1>2. list' = n.list /\ table' = n.table
  BY DEF Keep
<1>3. Kernel'.list = n.list /\ Kernel'.table = n.table /\ IsKernel(Kernel)'
  BY <1>2 DEF Kernel, IsKernel
<1>4. Mem(Kernel, G, lw, ttbr0, {}, G # {})'
  BY <1>1, <1>3 DEF Mem
<1> QED BY <1>2, <1>4 DEF Owns

(* A step of load_icode_mapper keeps the tree, also when no page is left.  *)
LEMMA MapPageOwns ==
  ASSUME Owns(Kernel), NEW src, NEW d, NEW n, NEW va \in Nat, NEW goto,
         MapPage(src, d, n, va, goto), ttbr0' = ttbr0
  PROVE  Owns(Kernel)' /\ SameBelow(table, table') /\ pc' \in {"failed", goto}
<1> DEFINE a == page_alloc(Kernel)
           b == bcopy(a, src, a.at, d, n)
           r == page_insert(b, a.at, va \div BY2PG)
<1>1. CASE a.at = NULL
  <2>1. pc' = "failed" /\ list' = list /\ table' = table /\ bytes' = bytes /\ pp_ref' = pp_ref
    BY <1>1 DEF MapPage, memory
  <2>2. Kernel' = Kernel
    BY <2>1 DEF Kernel
  <2>3. Owns(Kernel)'
    BY <2>2 DEF Owns
  <2> QED BY <2>1, <2>3 DEF SameBelow
<1>2. CASE a.at # NULL
  <2>1. Keep(r) /\ pc' = goto
    BY <1>2 DEF MapPage
  <2>2. a = [list |-> a.list, table |-> a.table, bytes |-> a.bytes, ref |-> a.ref, at |-> a.at]
    <3>1. PICK F, lv : Mem(Kernel, F, lv, ttbr0, {}, F # {})
      BY DEF Owns
    <3>2. IsKernel(a)
      BY <1>2, <3>1, AllocTakes DEF Mem
    <3> QED BY <3>2 DEF IsKernel
  <2>3. IsKernel(b) /\ b.list = a.list /\ b.table = a.table
    <3> HIDE DEF a
    <3> DEFINE B == [a.bytes EXCEPT ![a.at] =
                       [y \in DOMAIN @ |-> IF y \in d .. (d + n - 1) THEN src + (y - d) ELSE @[y]]]
    <3>1. b = [a EXCEPT !.bytes = B]
      BY <2>2 DEF bcopy
    <3> HIDE DEF B, b
    <3>2. b = [list |-> a.list, table |-> a.table, bytes |-> B, ref |-> a.ref, at |-> a.at]
      BY ONLY <2>2, <3>1
    <3> QED BY <3>2 DEF IsKernel
  <2>4. va \div BY2PG \in Nat
    BY BootAssumption
  <2>5. Mapping(Kernel, a, b, va \div BY2PG, r)
    BY <1>2, <2>3 DEF Mapping
  <2> HIDE DEF a, b, r
  <2>6. PICK m : m = va \div BY2PG
    OBVIOUS
  <2>7. Owns(r) /\ SameBelow(Kernel.table, r.table)
    BY <2>4, <2>5, <2>6, MapTree
  <2>8. Owns(Kernel)' /\ table' = r.table
    BY <2>1, <2>7, KeepOwns
  <2> QED BY <2>1, <2>7, <2>8 DEF Kernel
<1> QED BY <1>1, <1>2

(* env_create takes the directory off a list with every page above the     *)
(* kernel.                                                                 *)
LEMMA CreateOwns ==
  ASSUME table \in Tables, Heap(list, Upper), env_create
  PROVE  Owns(Kernel)' /\ SameBelow(table, table') /\ table'[ttbr0'] = Cleared
<1> DEFINE a == page_alloc(Kernel)
           r == [a EXCEPT !.ref[a.at] = @ + 1]
<1>1. a.at # NULL /\ Keep(r) /\ ttbr0' = a.at
  BY DEF env_create
<1>2. IsKernel(Kernel) /\ Kernel.list = list /\ Kernel.table = table
  BY DEF Kernel, IsKernel
<1>3. /\ a.at \in Upper /\ a.at \in Element /\ IsKernel(a) /\ a.table \in Tables
      /\ Heap(a.list, Upper \ {a.at}) /\ a.table[a.at] = Cleared
      /\ \A q \in Element : q # a.at => a.table[q] = table[q]
  BY <1>1, <1>2, AllocTakes
<1>4. list' = a.list /\ table' = a.table
  <2>1. a = [list |-> a.list, table |-> a.table, bytes |-> a.bytes, ref |-> a.ref, at |-> a.at]
    BY <1>3 DEF IsKernel
  <2> HIDE DEF a
  <2>2. r.list = a.list /\ r.table = a.table
    BY <2>1
  <2> HIDE DEF r
  <2> QED BY <1>1, <2>2 DEF Keep
<1> HIDE DEF a, r
<1>b. PICK root, G, lv : root = a.at /\ G = Upper \ {root} /\ lv = [p \in Element |-> 4]
  OBVIOUS
<1>5. Upper \ G = {root} /\ \A x \in Index : a.table[root][x] = Invalid
  BY <1>b, <1>3 DEF Cleared
<1>6. Tree(a.table, G, lv, root, {})
  BY <1>b, <1>3, <1>5 DEF Tree
<1>7. Parents(a.table, G, root, {})
  BY <1>5 DEF Parents
<1>8. Kernel'.list = a.list /\ Kernel'.table = a.table /\ IsKernel(Kernel)'
  BY <1>4 DEF Kernel, IsKernel
<1>9. Mem(Kernel, G, lv, ttbr0, {}, G # {})'
  BY <1>b, <1>1, <1>3, <1>6, <1>7, <1>8 DEF Mem
<1>10. SameBelow(table, table')
  <2>1. \A q \in Element : q < TIMESTACKTOP => q # a.at
    BY <1>3, BootAssumption DEF Upper
  <2> QED BY <1>3, <1>4, <2>1 DEF SameBelow
<1>11. table'[ttbr0'] = Cleared
  BY <1>1, <1>3, <1>4
<1> QED BY <1>9, <1>10, <1>11 DEF Owns

(* With no page left, page_insert under an empty directory changes nothing *)
(* but its result.                                                         *)
LEMMA InsertNothing ==
  ASSUME NEW k, IsKernel(k), LIST_FIRST(k.list) = NULL, ttbr0 \in Element, ttbr0 # NULL,
         k.table[ttbr0] = Cleared, NEW p, NEW va \in Nat
  PROVE  page_insert(k, p, va) = [k EXCEPT !.at = NULL]
<1> DEFINE h == [k EXCEPT !.at = ttbr0]
           n == [k EXCEPT !.at = NULL]
<1>1. k = [list |-> k.list, table |-> k.table, bytes |-> k.bytes, ref |-> k.ref, at |-> k.at]
  BY DEF IsKernel
<1>2. /\ h.at = ttbr0 /\ h.list = k.list /\ h.table = k.table /\ [h EXCEPT !.at = NULL] = n
      /\ n.at = NULL
  BY <1>1
<1>3. PT0X(va) \in Index /\ Cleared[PT0X(va)] = Invalid
  BY IndexFacts DEF Cleared
<1>4. Lookup(k.table, ttbr0, va) = Invalid
  <2>1. BadPointer \notin Element
    BY BootAssumption
  <2>2. Follow(k.table, ttbr0, PT0X(va)) = BadPointer
    BY <1>3 DEF Follow, Invalid
  <2> QED BY <2>1, <2>2 DEF Lookup, Follow
<1> HIDE DEF h, n
<1>5. page_alloc(h) = n
  BY <1>2 DEF page_alloc
<1>6. WalkStep(h, PT0X(va)) = n
  BY <1>2, <1>3, <1>5 DEF WalkStep
<1>7. \A i : WalkStep(n, i) = n
  BY <1>2 DEF WalkStep
<1>8. pgdir_walk(k, ttbr0, va) = n
  BY <1>6, <1>7 DEF pgdir_walk, h
<1> QED BY <1>2, <1>4, <1>8 DEF page_insert, n

-----------------------------------------------------------------------------
(* The addresses that a directory of two entries tells apart.              *)
Addresses == {va \in Nat : Num(3, va) <= 1}

(* The page mapped at va contains c.                                       *)
Holds(k, root, va, c) ==
  LET e == Lookup(k.table, root, va) IN e # Invalid /\ k.bytes[e.at] = c

(* Two addresses with the same entry are one: no two entries lead to the   *)
(* same table.                                                             *)
LEMMA WaysApart ==
  ASSUME NEW t, NEW F, NEW lv, NEW root, NEW loose, Tree(t, F, lv, root, loose),
         NEW va \in Addresses, NEW v \in Addresses,
         TableAt(t, root, va) \in Element, TableAt(t, root, v) = TableAt(t, root, va),
         PT3X(v) = PT3X(va)
  PROVE  v = va
<1>1. PICK q1, q2, q3 : Way(t, root, va, q1, q2, q3) /\ q3 = TableAt(t, root, va)
  BY LookupAt
<1>2. PICK r1, r2, r3 : Way(t, root, v, r1, r2, r3) /\ r3 = TableAt(t, root, va)
  BY LookupAt
<1>3. /\ root \in Upper \ F /\ t[root][PT0X(va)] # Invalid /\ t[root][PT0X(va)].at = q1
      /\ q1 \in Upper \ F /\ t[q1][PT1X(va)] # Invalid /\ t[q1][PT1X(va)].at = q2
      /\ q2 \in Upper \ F /\ t[q2][PT2X(va)] # Invalid /\ t[q2][PT2X(va)].at = q3
  BY <1>1, WayTree DEF Addresses
<1>4. /\ t[root][PT0X(v)] # Invalid /\ t[root][PT0X(v)].at = r1
      /\ r1 \in Upper \ F /\ t[r1][PT1X(v)] # Invalid /\ t[r1][PT1X(v)].at = r2
      /\ r2 \in Upper \ F /\ t[r2][PT2X(v)] # Invalid /\ t[r2][PT2X(v)].at = r3
  BY <1>2, WayTree DEF Addresses
<1>5. \A x \in {va, v} : PT0X(x) \in Index /\ PT1X(x) \in Index /\ PT2X(x) \in Index
  BY IndexFacts DEF Addresses
<1>6. \A p \in Upper \ F, q \in Upper \ F, x \in Index, y \in Index :
        t[p][x] # Invalid /\ t[q][y] # Invalid /\ t[p][x].at = t[q][y].at => p = q /\ x = y
  BY DEF Tree
<1>7. q3 = r3
  BY <1>1, <1>2
<1>8. q2 = r2 /\ PT2X(va) = PT2X(v)
  BY ONLY <1>3, <1>4, <1>5, <1>6, <1>7
<1>9. q1 = r1 /\ PT1X(va) = PT1X(v)
  BY ONLY <1>3, <1>4, <1>5, <1>6, <1>8
<1>10. PT0X(va) = PT0X(v)
  BY ONLY <1>3, <1>4, <1>5, <1>6, <1>9
<1>11. \A x \in {va, v} : /\ x \in Nat /\ Up(x) \in Nat /\ Up(Up(x)) \in Nat /\ Up(Up(Up(x))) \in Nat
                         /\ Up(Up(Up(x))) <= 1
  BY UpFacts DEF Addresses, Num
<1>12. Up(Up(Up(va))) = Up(Up(Up(v)))
  <2>1. Up(Up(Up(va))) % 2 = Up(Up(Up(v))) % 2
    BY <1>10 DEF PT0X
  <2>2. \A a, b \in Nat : a <= 1 /\ b <= 1 /\ a % 2 = b % 2 => a = b
    OBVIOUS
  <2> QED BY <1>11, <2>1, <2>2
<1>13. Up(Up(va)) = Up(Up(v))
  BY <1>9, <1>11, <1>12, UpOne DEF PT1X
<1>14. Up(va) = Up(v)
  BY <1>8, <1>11, <1>13, UpOne DEF PT2X
<1> QED BY <1>11, <1>14, UpOne DEF PT3X

(* What is mapped stays mapped, and keeps its contents.                    *)
LEMMA HoldsKept ==
  ASSUME NEW k, NEW F, NEW lv, NEW loose, NEW all, Mem(k, F, lv, ttbr0, loose, all),
         NEW r, NEW G, Kept(k, r, F, G), k.bytes \in Contents,
         NEW va \in Nat, NEW c, Holds(k, ttbr0, va, c)
  PROVE  Holds(r, ttbr0, va, c)
<1> DEFINE t == k.table
           u == r.table
           x == PT3X(va)
<1>1. Tree(t, F, lv, ttbr0, loose)
  BY DEF Mem
<1>2. TableAt(t, ttbr0, va) \in Element /\ Lookup(t, ttbr0, va) = t[TableAt(t, ttbr0, va)][x]
  BY LookupAt DEF Holds
<1>3. PICK q1, q2, q3 : Way(t, ttbr0, va, q1, q2, q3) /\ q3 = TableAt(t, ttbr0, va)
  BY <1>2, LookupAt
<1>4. /\ ttbr0 \in Upper \ F /\ t[ttbr0][PT0X(va)] # Invalid /\ t[ttbr0][PT0X(va)].at = q1
      /\ q1 \in Upper \ F /\ t[q1][PT1X(va)] # Invalid /\ t[q1][PT1X(va)].at = q2
      /\ q2 \in Upper \ F /\ t[q2][PT2X(va)] # Invalid /\ t[q2][PT2X(va)].at = q3
      /\ q3 \in Upper \ F /\ t[q3][x] # Invalid
  BY <1>1, <1>2, <1>3, WayTree DEF Holds
<1>5. PT0X(va) \in Index /\ PT1X(va) \in Index /\ PT2X(va) \in Index /\ x \in Index
  BY IndexFacts
<1>6. /\ u[ttbr0][PT0X(va)].at = q1 /\ u[q1][PT1X(va)].at = q2 /\ u[q2][PT2X(va)].at = q3
      /\ u[q3][x] = t[q3][x]
  BY <1>4, <1>5 DEF Kept
<1>7. ttbr0 \in Element /\ q1 \in Element /\ q2 \in Element /\ q3 \in Element
  BY <1>4, UpperElement
<1>8. TableAt(u, ttbr0, va) = q3
  <2>1. Follow(u, ttbr0, PT0X(va)) = q1 /\ Follow(u, q1, PT1X(va)) = q2 /\ Follow(u, q2, PT2X(va)) = q3
    BY <1>6, <1>7 DEF Follow
  <2> QED BY <2>1 DEF TableAt
<1>9. Lookup(u, ttbr0, va) = t[q3][x] /\ Lookup(t, ttbr0, va) = t[q3][x]
  BY <1>2, <1>3, <1>6, <1>7, <1>8, LookupAt
<1>10. t[q3][x].at \in Element \ F
  BY <1>1, <1>4, <1>5, TreeDown, UpperElement
<1> QED BY <1>9, <1>10 DEF Holds, Kept

(* page_remove at va unmaps nothing else.                                  *)
LEMMA RemoveHolds ==
  ASSUME NEW k, NEW F, NEW lv, NEW loose, NEW all, Mem(k, F, lv, ttbr0, loose, all),
         NEW va \in Addresses, Lookup(k.table, ttbr0, va) # Invalid,
         NEW r, r = page_remove(k, va),
         NEW v \in Addresses \ {va}, NEW c, Holds(k, ttbr0, v, c)
  PROVE  Holds(r, ttbr0, v, c)
<1> DEFINE t == k.table
           u == r.table
<1>1. va \in Nat /\ v \in Nat /\ t \in Tables /\ Tree(t, F, lv, ttbr0, loose)
  BY DEF Addresses, Mem
<1>2. r.bytes = k.bytes /\ u = SetEntry(t, TableAt(t, ttbr0, va), PT3X(va), Invalid)
  BY <1>1, RemoveFields
<1>3. PICK w, z : w = TableAt(t, ttbr0, va) /\ z = TableAt(t, ttbr0, v)
  OBVIOUS
<1>4. w \in Element /\ z \in Element
  BY <1>3, LookupAt DEF Holds
<1>5. lv[w] = 1
  BY <1>1, <1>3, <1>4, LookupAt, WayTree
<1>6. /\ \A q \in Element : q # w => u[q] = t[q]
      /\ \A y \in Index : y # PT3X(va) => u[w][y] = t[w][y]
  <2>1. t[w] \in [Index -> Entry] /\ u = [t EXCEPT ![w] = [t[w] EXCEPT ![PT3X(va)] = Invalid]]
    BY <1>1, <1>2, <1>3, <1>4 DEF SetEntry, Tables
  <2> QED BY <1>1, <1>4, <2>1 DEF Tables
<1>7. TableAt(u, ttbr0, v) = z
  <2>1. \A q \in Upper \ F : lv[q] # 1 => u[q] = t[q]
    BY <1>5, <1>6, UpperElement
  <2> QED BY <1>1, <1>3, <1>4, <2>1, TableStays
<1>8. u[z][PT3X(v)] = t[z][PT3X(v)]
  <2>1. PT3X(v) \in Index
    BY <1>1, IndexFacts
  <2>2. z = w => PT3X(v) # PT3X(va)
    BY <1>1, <1>3, <1>4, WaysApart
  <2> QED BY <1>4, <1>6, <2>1, <2>2
<1>9. Lookup(u, ttbr0, v) = Lookup(t, ttbr0, v)
  BY <1>3, <1>4, <1>7, <1>8, LookupAt
<1> QED BY <1>2, <1>9 DEF Holds

(* Going from k to n maps a page with c at va, and unmaps no other.        *)
Maps(k, n, va, c) ==
  /\ n.bytes \in Contents /\ Holds(n, ttbr0, va, c)
  /\ \A v \in Addresses \ {va} : \A d : Holds(k, ttbr0, v, d) => Holds(n, ttbr0, v, d)

(* page_insert of a new page that leaves a page on the list: it is mapped  *)
(* at va, and what was mapped elsewhere stays.                             *)
LEMMA InsertHolds ==
  ASSUME NEW k, NEW F, NEW lv, NEW p, Mem(k, F, lv, ttbr0, {p}, TRUE), k.bytes \in Contents,
         NEW va \in Addresses, NEW n, n = page_insert(k, p, va), LIST_FIRST(n.list) # NULL
  PROVE  Maps(k, n, va, k.bytes[p])
<1> DEFINE r == IF Lookup(k.table, ttbr0, va) # Invalid THEN page_remove(k, va) ELSE k
           w == pgdir_walk(r, ttbr0, va)
           x == PT3X(va)
           e == [at |-> p, attr |-> "RW_ALL"]
<1>0. va \in Nat
  BY DEF Addresses
<1>1. n = IF w.at = NULL THEN w ELSE Put(w, w.at, x, e, p)
  BY DEF page_insert, Put
<1>2. /\ \E F1 : Mem(r, F1, lv, ttbr0, {p}, TRUE)
      /\ Lookup(r.table, ttbr0, va) = Invalid /\ r.bytes = k.bytes
      /\ \A v \in Addresses \ {va} : \A d : Holds(k, ttbr0, v, d) => Holds(r, ttbr0, v, d)
  <2>1. CASE Lookup(k.table, ttbr0, va) = Invalid
    <3>1. r = k
      BY <2>1
    <3> HIDE DEF r
    <3> QED BY <2>1, <3>1
  <2>2. CASE Lookup(k.table, ttbr0, va) # Invalid
    <3>1. r = page_remove(k, va)
      BY <2>2
    <3> HIDE DEF r
    <3>2. /\ \E F1 : Mem(r, F1, lv, ttbr0, {p}, TRUE)
          /\ Lookup(r.table, ttbr0, va) = Invalid /\ r.bytes = k.bytes
      <4>1. /\ \E F1 : Mem(r, F1, lv, ttbr0, {p}, TRUE)
            /\ Lookup(r.table, ttbr0, va) = Invalid
        BY <1>0, <2>2, <3>1, RemoveTree
      <4>2. r.bytes = k.bytes
        BY <1>0, <2>2, <3>1, RemoveFields
      <4> QED BY <4>1, <4>2
    <3>3. ASSUME NEW v \in Addresses \ {va}, NEW d, Holds(k, ttbr0, v, d)
          PROVE  Holds(r, ttbr0, v, d)
      BY <2>2, <3>1, <3>3, RemoveHolds
    <3> QED BY <3>2, <3>3
  <2> QED BY <2>1, <2>2
<1>3. PICK F1 : Mem(r, F1, lv, ttbr0, {p}, TRUE)
  BY <1>2
<1>4. w = pgdir_walk(r, ttbr0, va)
  OBVIOUS
<1> HIDE DEF r, w
<1>a. PICK d : d = {p}
  OBVIOUS
<1>5. PICK G, lw : WalkEnds(r, w, va, lv, F1, G, lw, ttbr0, d, TRUE)
  <2>1. Mem(r, F1, lv, ttbr0, d, TRUE)
    BY <1>3, <1>a
  <2> QED BY <1>0, <1>4, <2>1, WalkTree
<1>6. w.at # NULL
  <2> SUFFICES ASSUME w.at = NULL PROVE FALSE
    OBVIOUS
  <2>1. n = w /\ G = {} /\ Heap(w.list, G)
    BY <1>1, <1>5 DEF WalkEnds, Mem
  <2>2. LIST_FIRST(w.list) \in G
    BY ONLY <2>1, LIST_FIRST(n.list) # NULL, HeapPop
  <2> QED BY <2>1, <2>2
<1>7. /\ IsKernel(w) /\ w.table \in Tables /\ w.at \in Upper \ G /\ Kept(r, w, F1, G)
      /\ w.table[w.at][x] = Invalid /\ w.at = TableAt(w.table, ttbr0, va)
      /\ Tree(w.table, G, lw, ttbr0, d) /\ lw[w.at] = 1
  BY <1>2, <1>5, <1>6 DEF WalkEnds, Mem
<1>8. x \in Index /\ n = Put(w, w.at, x, e, p)
  BY <1>0, <1>1, <1>6, IndexFacts
<1>9. e # Invalid /\ e.at = p
  BY DEF Invalid
<1> HIDE DEF x, e
<1>10. Kept(w, n, G, G) /\ n.table[w.at][x] = e
  BY <1>7, <1>8, PutKeeps
<1>11. Kept(r, n, F1, G)
  BY <1>7, <1>10, KeptTrans
<1>12. p \in Element \ F1
  BY <1>3, UpperElement DEF Mem, Tree
<1>13. n.bytes \in Contents /\ n.bytes[p] = k.bytes[p]
  BY <1>2, <1>11, <1>12 DEF Kept
<1>14. TableAt(n.table, ttbr0, va) = w.at
  <2>1. n.table = SetEntry(w.table, w.at, x, e)
    BY <1>7, <1>8, EntryPut
  <2>2. \A q \in Element : q # w.at => n.table[q] = w.table[q]
    BY <1>7, <2>1 DEF SetEntry, Tables
  <2>3. \A q \in Upper \ G : lw[q] # 1 => n.table[q] = w.table[q]
    BY <1>7, <2>2, UpperElement
  <2> QED BY <1>0, <1>7, <2>3, TableStays, UpperElement
<1>15. Holds(n, ttbr0, va, k.bytes[p])
  <2>1. Lookup(n.table, ttbr0, va) = e
    BY <1>7, <1>10, <1>14, LookupAt, UpperElement DEF x
  <2> QED BY <1>9, <1>13, <2>1 DEF Holds
<1>16. ASSUME NEW v \in Addresses \ {va}, NEW f, Holds(k, ttbr0, v, f) PROVE Holds(n, ttbr0, v, f)
  <2>1. Holds(r, ttbr0, v, f) /\ v \in Nat
    BY <1>2, <1>16 DEF Addresses
  <2> QED BY <1>2, <1>3, <1>11, <2>1, HoldsKept
<1> QED BY <1>13, <1>15, <1>16 DEF Maps

(* A page is taken off the list, filled with c, and mapped at va.          *)
LEMMA MapHolds ==
  ASSUME NEW k, Owns(k), k.bytes \in Contents, NEW a, NEW b, NEW va \in Addresses,
         NEW n, Mapping(k, a, b, va, n), LIST_FIRST(n.list) # NULL,
         NEW c \in [0 .. (BY2PG - 1) -> Int], b.bytes = [a.bytes EXCEPT ![a.at] = c]
  PROVE  Maps(k, n, va, c)
<1>1. /\ a = page_alloc(k) /\ a.at # NULL
      /\ IsKernel(b) /\ b.list = a.list /\ b.table = a.table
      /\ n = page_insert(b, a.at, va)
  BY DEF Mapping
<1>2. PICK F, lv : Mem(k, F, lv, ttbr0, {}, F # {})
  BY DEF Owns
<1>3. a.at \in F /\ a.at \in Element
  BY <1>1, <1>2, AllocTakes DEF Mem
<1>4. Mem(k, F, lv, ttbr0, {}, TRUE)
  BY <1>2, <1>3 DEF Mem
<1>5. PICK p : p = a.at
  OBVIOUS
<1>6. PICK lw : lw = SetLevel(lv, p, 0)
  OBVIOUS
<1>7. Mem(a, F \ {p}, lw, ttbr0, {} \cup {p}, TRUE)
  <2>1. 0 \in 0 .. 4
    OBVIOUS
  <2> QED BY <1>1, <1>4, <1>5, <1>6, <2>1, AllocTree
<1>8. Mem(b, F \ {p}, lw, ttbr0, {p}, TRUE)
  <2>1. {} \cup {p} = {p}
    OBVIOUS
  <2> QED BY <1>1, <1>7, <2>1 DEF Mem
<1>9. Kept(k, a, F, F \ {p})
  BY <1>1, <1>2, <1>5, AllocKeeps DEF Mem
<1>10. /\ a.bytes \in Contents /\ b.bytes \in Contents /\ b.bytes[p] = c
       /\ \A q \in Element : q # p => b.bytes[q] = a.bytes[q]
  <2>1. a.bytes \in Contents
    BY <1>9 DEF Kept
  <2> QED BY <1>3, <1>5, <2>1 DEF Contents
<1>11. Kept(k, b, F, F \ {p})
  <2>1. \A q \in Element \ F : b.bytes[q] = a.bytes[q]
    BY <1>3, <1>5, <1>10
  <2> QED BY <1>1, <1>9, <1>10, <2>1 DEF Kept
<1>12. Maps(b, n, va, b.bytes[p])
  BY <1>1, <1>5, <1>8, <1>10, InsertHolds
<1>13. ASSUME NEW v \in Addresses, NEW d, Holds(k, ttbr0, v, d) PROVE Holds(b, ttbr0, v, d)
  BY <1>2, <1>11, <1>13, HoldsKept DEF Addresses
<1> QED BY <1>10, <1>12, <1>13 DEF Maps

-----------------------------------------------------------------------------
(* A list holds each page once.                                            *)
LEMMA ListFits ==
  ASSUME NEW l, NEW s \in Seq(Element), Represents(l, s)
  PROVE  Len(s) <= MAXPA
<1>1. Len(s) \in Nat /\ \A n \in 1 .. Len(s) : s[n] \in Element
  OBVIOUS
<1>2. MAXPA \in Nat /\ Element = 0 .. (MAXPA - 1)
  BY BootAssumption
<1> DEFINE f == [n \in 1 .. Len(s) |-> s[n]]
<1>3. f \in [1 .. Len(s) -> Element] /\ \A m, n \in 1 .. Len(s) : f[m] = f[n] => m = n
  BY <1>1 DEF Represents
<1> HIDE DEF f
<1>4. f \in Injection(1 .. Len(s), Element)
  BY <1>3 DEF Injection, IsInjective
<1>5. IsFiniteSet(Element) /\ Cardinality(Element) = MAXPA
  <2>1. IsFiniteSet(0 .. (MAXPA - 1)) /\ Cardinality(0 .. (MAXPA - 1)) = IF 0 > MAXPA - 1 THEN 0 ELSE (MAXPA - 1) - 0 + 1
    BY <1>2, FS_Interval
  <2> QED BY <1>2, <2>1
<1>6. Cardinality(1 .. Len(s)) <= Cardinality(Element)
  BY <1>4, <1>5, FS_Injection
<1>7. Cardinality(1 .. Len(s)) = IF 1 > Len(s) THEN 0 ELSE Len(s) - 1 + 1
  BY <1>1, FS_Interval
<1> QED BY <1>1, <1>2, <1>5, <1>6, <1>7

(* The first n pages of a list, and one more.                              *)
Longer(r) ==
  LET x == IF r = <<>> THEN LIST_FIRST(list) ELSE LIST_NEXT(list, r[Len(r)])
  IN  IF x \in Element THEN Append(r, x) ELSE r
Reaches(f) == [n \in 0 .. MAXPA |-> IF n = 0 THEN <<>> ELSE Longer(f[n - 1])]

Part(s, n) == [j \in 1 .. (IF n <= Len(s) THEN n ELSE Len(s)) |-> s[j]]

(* One more step along the list.                                           *)
LEMMA LongerPart ==
  ASSUME NEW s \in Seq(Element), Represents(list, s), NEW n \in Nat,
         NEW r, r = Part(s, n)
  PROVE  Longer(r) = Part(s, n + 1)
<1> DEFINE m == IF n <= Len(s) THEN n ELSE Len(s)
<1>1. Len(s) \in Nat /\ m \in 0 .. Len(s) /\ (m = Len(s) <=> n >= Len(s)) /\ (n < Len(s) => m = n)
  OBVIOUS
<1>2. r = [j \in 1 .. m |-> s[j]]
  BY DEF Part
<1> HIDE DEF m
<1>3. \A j \in 1 .. Len(s) : s[j] \in Element
  OBVIOUS
<1>4. r \in Seq(Element) /\ Len(r) = m /\ \A j \in 1 .. m : r[j] = s[j]
  BY <1>1, <1>2, <1>3
<1>5. r = <<>> <=> m = 0
  BY <1>4
<1> DEFINE x == IF r = <<>> THEN LIST_FIRST(list) ELSE LIST_NEXT(list, r[Len(r)])
<1>6. x = IF m = Len(s) THEN NULL ELSE s[m + 1]
  <2>1. CASE m = 0
    <3>1. x = list.first
      BY <1>5, <2>1 DEF LIST_FIRST
    <3>2. s = <<>> <=> Len(s) = 0
      BY <1>3
    <3>3. m = Len(s) <=> s = <<>>
      BY <2>1, <3>2
    <3> HIDE DEF x
    <3> QED BY <2>1, <3>1, <3>3 DEF Represents
  <2>2. CASE m # 0
    <3>1. m \in 1 .. Len(s)
      BY <1>1, <2>2
    <3>2. x = list.next[s[m]]
      BY <1>4, <1>5, <2>2, <3>1 DEF LIST_NEXT
    <3> HIDE DEF x
    <3> QED BY <3>1, <3>2 DEF Represents
  <2> QED BY <2>1, <2>2
<1>7. Longer(r) = IF x \in Element THEN Append(r, x) ELSE r
  BY DEF Longer
<1> HIDE DEF x
<1>8. CASE m = Len(s)
  <2>1. Part(s, n + 1) = [j \in 1 .. m |-> s[j]]
    <3>1. (IF n + 1 <= Len(s) THEN n + 1 ELSE Len(s)) = m
      BY <1>1, <1>8
    <3> QED BY <3>1 DEF Part
  <2> QED BY <1>2, <1>6, <1>7, <1>8, <2>1, QueueAssumption
<1>9. CASE m # Len(s)
  <2>1. m = n /\ n + 1 <= Len(s) /\ n + 1 \in 1 .. Len(s)
    BY <1>1, <1>9
  <2>2. Part(s, n + 1) = [j \in 1 .. (n + 1) |-> s[j]]
    BY <2>1 DEF Part
  <2>3. x = s[n + 1] /\ x \in Element
    BY <1>3, <1>6, <1>9, <2>1
  <2>4. Append(r, x) = [j \in 1 .. (n + 1) |-> s[j]]
    <3>0. PICK q : q = Append(r, x)
      OBVIOUS
    <3>1. q \in Seq(Element) /\ Len(q) = n + 1
      BY <1>4, <2>1, <2>3, <3>0
    <3>2. \A j \in 1 .. (n + 1) : q[j] = s[j]
      BY <1>4, <2>1, <2>3, <3>0
    <3>3. q = [j \in 1 .. (n + 1) |-> q[j]]
      <4>1. q = [j \in 1 .. Len(q) |-> q[j]]
        BY <3>1
      <4> QED BY <3>1, <4>1
    <3> QED BY <3>0, <3>2, <3>3
  <2> QED BY <1>7, <2>2, <2>3, <2>4
<1> QED BY <1>8, <1>9

(* LIST_FOREACH meets the sequence that the list represents.               *)
LEMMA OnListIs ==
  ASSUME NEW s \in Seq(Element), Represents(list, s)
  PROVE  OnList = s
<1>1. OnList = (CHOOSE f : f = Reaches(f))[MAXPA]
  BY DEF OnList, Reaches, Longer
<1>2. MAXPA \in Nat /\ Len(s) \in Nat /\ Len(s) <= MAXPA
  BY BootAssumption, ListFits
<1>3. Part(s, 0) = <<>>
  BY <1>2 DEF Part
<1>4. Part(s, MAXPA) = s
  <2>1. Part(s, MAXPA) = [j \in 1 .. Len(s) |-> s[j]]
    <3>1. (IF MAXPA <= Len(s) THEN MAXPA ELSE Len(s)) = Len(s)
      BY <1>2
    <3> QED BY <3>1 DEF Part
  <2> QED BY <2>1
<1>5. \A n \in Nat : Longer(Part(s, n)) = Part(s, n + 1)
  BY LongerPart
<1> DEFINE g == [n \in 0 .. MAXPA |-> Part(s, n)]
<1>6. g = Reaches(g)
  <2>1. \A n \in 0 .. MAXPA : Part(s, n) = IF n = 0 THEN <<>> ELSE Longer(g[n - 1])
    <3> TAKE n \in 0 .. MAXPA
    <3>1. CASE n = 0
      BY <1>3, <3>1
    <3>2. CASE n # 0
      <4>1. n - 1 \in 0 .. MAXPA /\ n - 1 \in Nat /\ (n - 1) + 1 = n
        BY <1>2, <3>2
      <4>2. g[n - 1] = Part(s, n - 1)
        BY <4>1
      <4>3. Longer(Part(s, n - 1)) = Part(s, (n - 1) + 1)
        BY <1>5, <4>1
      <4> QED BY <3>2, <4>1, <4>2, <4>3
    <3> QED BY <3>1, <3>2
  <2> QED BY <2>1 DEF Reaches
<1> HIDE DEF g
<1> DEFINE h == CHOOSE f : f = Reaches(f)
<1>7. h = Reaches(h)
  BY <1>6
<1> HIDE DEF h
<1> DEFINE S == {n \in Nat : n <= MAXPA => h[n] = Part(s, n)}
<1>8. 0 \in S
  <2>1. h[0] = <<>>
    BY <1>2, <1>7 DEF Reaches
  <2> QED BY <1>3, <2>1
<1>9. ASSUME NEW n \in Nat, n \in S PROVE n + 1 \in S
  <2> SUFFICES ASSUME n + 1 <= MAXPA PROVE h[n + 1] = Part(s, n + 1)
    OBVIOUS
  <2>1. h[n] = Part(s, n)
    BY <1>2, <1>9
  <2>2. PICK m : m = n + 1
    OBVIOUS
  <2>3. m \in 0 .. MAXPA /\ m # 0 /\ m - 1 = n
    BY <1>2, <2>2
  <2>4. Reaches(h)[m] = IF m = 0 THEN <<>> ELSE Longer(h[m - 1])
    BY <2>3 DEF Reaches
  <2>5. h[m] = Longer(h[m - 1])
    BY <1>7, <2>3, <2>4
  <2> QED BY <1>5, <2>1, <2>2, <2>3, <2>5
<1> HIDE DEF S
<1>10. Nat \subseteq S
  BY <1>8, <1>9, NatInd
<1>11. h[MAXPA] = Part(s, MAXPA)
  BY <1>2, <1>10 DEF S
<1> QED BY <1>1, <1>4, <1>11 DEF h

-----------------------------------------------------------------------------
(* The pages of the program are pages above the kernel that are not free,  *)
(* and all of those while any page is free.                                *)
LEMMA ProgramPages ==
  ASSUME NEW F, NEW lv, Mem(Kernel, F, lv, ttbr0, {}, F # {})
  PROVE  /\ OfProgram \subseteq Upper \ F
         /\ F # {} => OfProgram = Upper \ F
<1> DEFINE U == Upper \ F
           d == {ttbr0} \cap Element
           b1 == Below(d)
           b2 == Below(b1)
           b3 == Below(b2)
           b4 == Below(b3)
<1>1. Tree(table, F, lv, ttbr0, {}) /\ (F # {} => Parents(table, F, ttbr0, {}))
  BY DEF Mem, Kernel
<1>2. ttbr0 \in U /\ ttbr0 \in Element /\ d = {ttbr0} /\ lv[ttbr0] = 4
  BY <1>1, UpperElement DEF Tree
<1>3. ASSUME NEW S \in SUBSET U PROVE Below(S) \subseteq U
  BY <1>1 DEF Below, Tree
<1>4. OfProgram = d \cup b1 \cup b2 \cup b3 \cup b4
  BY DEF OfProgram
<1> HIDE DEF d, b1, b2, b3, b4
<1>5. d \subseteq U /\ b1 \subseteq U /\ b2 \subseteq U /\ b3 \subseteq U /\ b4 \subseteq U
  <2>1. d \subseteq U
    BY <1>2
  <2>2. b1 \subseteq U
    BY <1>3, <2>1 DEF b1
  <2>3. b2 \subseteq U
    BY <1>3, <2>2 DEF b2
  <2>4. b3 \subseteq U
    BY <1>3, <2>3 DEF b3
  <2>5. b4 \subseteq U
    BY <1>3, <2>4 DEF b4
  <2> QED BY <2>1, <2>2, <2>3, <2>4, <2>5
<1>6. ASSUME F # {} PROVE U \subseteq OfProgram
  <2>1. ASSUME NEW p \in U, p # ttbr0
        PROVE  \E q \in U : lv[q] = lv[p] + 1 /\ \A S : q \in S => p \in Below(S)
    <3>1. PICK q \in U, x \in Index : table[q][x] # Invalid /\ table[q][x].at = p
      BY <1>1, <1>6, <2>1 DEF Parents
    <3>2. lv[q] = lv[p] + 1
      BY <1>1, <3>1, TreeDown
    <3>3. p \in Element
      BY UpperElement
    <3> QED BY <3>1, <3>2, <3>3 DEF Below
  <2>2. \A p \in U : lv[p] \in 0 .. 4
    BY <1>1, UpperElement DEF Tree
  <2>3. \A p \in U : lv[p] = 4 => p \in d
    BY <1>2, <2>1, <2>2
  <2>4. \A p \in U : lv[p] = 3 => p \in b1
    BY <1>2, <2>1, <2>3 DEF b1
  <2>5. \A p \in U : lv[p] = 2 => p \in b2
    BY <1>2, <2>1, <2>4 DEF b2
  <2>6. \A p \in U : lv[p] = 1 => p \in b3
    BY <1>2, <2>1, <2>5 DEF b3
  <2>7. \A p \in U : lv[p] = 0 => p \in b4
    BY <1>2, <2>1, <2>6 DEF b4
  <2> QED BY <1>4, <2>2, <2>3, <2>4, <2>5, <2>6, <2>7
<1> QED BY <1>4, <1>5, <1>6

(***************************************************************************)
(* The invariant.                                                          *)
(***************************************************************************)
Booting == {"reset", "boot_map_segment", "page_init"}
Loading == {"load_icode", "load_elf", "mapper", "loaded", "failed"}

KernelTables ==
  /\ table \in Tables
  /\ pc = "reset" => freemem = 0 /\ mapped = 0
  /\ pc # "reset" =>
       /\ pgdir = KSTACKTOP /\ mapped \in 0 .. (2 * MAXPA)
       /\ \E n \in Counts, L \in Places :
            Shape(table, freemem, n, L) /\ Counted(n) /\ n[0] = mapped

FreeList ==
  /\ list \in List
  /\ pc \in {"reset", "boot_map_segment"} => next = 0
  /\ pc = "page_init" =>
       next \in 0 .. MAXPA /\ (next # 0 => Heap(list, {p \in Upper : p < next - 1}))
  /\ pc \in Booting \cup {"env_create"} => ttbr0 = BadPointer
  /\ pc = "env_create" => Heap(list, Upper)
  /\ pc \in Loading => Owns(Kernel)

Headers ==
  /\ pos \in Nat
  /\ pc \in Loading => binary \in Binary
  /\ pc \in {"load_elf", "mapper"} => ph \in Nat \ {0}
  /\ pc = "mapper" => ph <= Len(binary.ph)
  /\ pc = "load_icode" => table[ttbr0] = Cleared

BootInv ==
  /\ pc \in Booting \cup {"env_create"} \cup Loading
  /\ KernelTables /\ FreeList /\ Headers

-----------------------------------------------------------------------------
(* At reset the invariant holds.                                           *)
LEMMA InitBoot == Init => BootInv
<1> SUFFICES ASSUME Init PROVE BootInv
  OBVIOUS
<1>1. table \in Tables
  <2>1. Garbage \in Entry
    BY DEF Garbage, Entry
  <2> QED BY <2>1 DEF Init, Tables
<1>2. list \in List
  <2>1. 0 \in Element
    BY BootAssumption
  <2> QED BY <2>1 DEF Init, List
<1> QED BY <1>1, <1>2 DEF Init, BootInv, KernelTables, FreeList, Headers, Booting, Loading

(* The tables of the kernel outlive what happens to the pages above it.    *)
LEMMA KernelStays ==
  ASSUME LayoutFits, KernelTables, pc # "reset", pc' # "reset", UNCHANGED boot,
         table' \in Tables, SameBelow(table, table')
  PROVE  KernelTables'
<1>1. freemem' = freemem /\ pgdir' = pgdir /\ mapped' = mapped
  BY DEF boot
<1>2. PICK n \in Counts, L \in Places :
        Shape(table, freemem, n, L) /\ Counted(n) /\ n[0] = mapped
  BY DEF KernelTables
<1>3. Shape(table', freemem, n, L)
  <2>1. table \in Tables /\ \A p \in Element : p < TIMESTACKTOP => table'[p] = table[p]
    BY DEF KernelTables, SameBelow
  <2> QED BY <1>2, <2>1, ShapeStays
<1>4. (\E m \in Counts, M \in Places :
        Shape(table, freemem, m, M) /\ Counted(m) /\ m[0] = mapped)'
  BY <1>1, <1>2, <1>3
<1>5. pgdir = KSTACKTOP /\ mapped \in 0 .. (2 * MAXPA)
  BY DEF KernelTables
<1> QED BY <1>1, <1>4, <1>5 DEF KernelTables

-----------------------------------------------------------------------------
(* page_init puts the page next - 1 on the list when it is above the       *)
(* kernel.                                                                 *)
LEMMA PageInitHeap ==
  ASSUME FreeList, pc = "page_init", page_init
  PROVE  FreeList' /\ pc' \in {"page_init", "env_create"}
<1>1. /\ next \in 0 .. MAXPA /\ next' = next + 1 /\ ttbr0 = BadPointer
      /\ list \in List /\ MAXPA \in Nat /\ TIMESTACKTOP \in Nat /\ TIMESTACKTOP < MAXPA
  BY BootAssumption DEF FreeList, page_init, Booting
<1>2. ttbr0' = ttbr0
  BY DEF page_init, program
<1>l. list' = IF next = 0 THEN LIST_INIT(list)
              ELSE IF next > TIMESTACKTOP THEN LIST_INSERT_HEAD(list, next - 1) ELSE list
  <2> DEFINE A == LIST_INIT(list)
             B == LIST_INSERT_HEAD(list, next - 1)
  <2>1. list' = CASE next = 0 -> A [] next > TIMESTACKTOP -> B [] OTHER -> list
    BY DEF page_init
  <2> HIDE DEF A, B
  <2>2. ~(next = 0 /\ next > TIMESTACKTOP)
    BY <1>1
  <2> QED BY <2>1, <2>2 DEF A, B
<1> DEFINE Done(n) == {p \in Upper : p < n - 1}
<1>3. Heap(list', Done(next')) /\ list' \in List
  <2>1. CASE next = 0
    <3>1. list' = LIST_INIT(list)
      BY <1>l, <2>1
    <3>2. list' \in List /\ Represents(list', <<>>)
      BY <1>1, <3>1, InitEmpties
    <3>3. Done(next') = {}
      BY <1>1, <2>1 DEF Upper
    <3>4. PICK s \in Seq(Element) : s = <<>>
      <4>1. <<>> \in Seq(Element)
        OBVIOUS
      <4> QED BY <4>1
    <3>5. {} = {s[n] : n \in 1 .. Len(s)}
      BY <3>4
    <3> HIDE DEF Done
    <3> QED BY <3>2, <3>3, <3>4, <3>5 DEF Heap
  <2>2. CASE next # 0 /\ next <= TIMESTACKTOP
    <3>1. list' = list
      BY <1>1, <1>l, <2>2
    <3>2. Done(next') = Done(next)
      BY <1>1, <2>2 DEF Upper
    <3>3. Heap(list, Done(next))
      BY <2>2 DEF FreeList
    <3> HIDE DEF Done
    <3> QED BY <1>1, <3>1, <3>2, <3>3
  <2>3. CASE next # 0 /\ next > TIMESTACKTOP
    <3>1. list' = LIST_INSERT_HEAD(list, next - 1)
      BY <1>l, <2>3
    <3>2. Done(next') = Done(next) \cup {next - 1}
      BY <1>1, <2>3 DEF Upper
    <3>3. Heap(list, Done(next))
      BY <2>3 DEF FreeList
    <3>4. next - 1 \in Element \ Done(next)
      BY <1>1, <2>3, BootAssumption
    <3> HIDE DEF Done
    <3>5. PICK x : x = next - 1
      OBVIOUS
    <3>6. Heap(LIST_INSERT_HEAD(list, x), Done(next) \cup {x})
      BY <3>3, <3>4, <3>5, HeapPush
    <3>7. Heap(list', Done(next'))
      BY <3>1, <3>2, <3>5, <3>6
    <3> QED BY <3>7 DEF Heap
  <2> QED BY <1>1, <2>1, <2>2, <2>3
<1>4. CASE next = MAXPA
  <2>1. pc' = "env_create"
    BY <1>4 DEF page_init
  <2>2. Done(next') = Upper
    BY <1>1, <1>4 DEF Upper
  <2>3. Heap(list', Upper)
    BY <1>3, <2>2
  <2> HIDE DEF Done
  <2> QED BY <1>1, <1>2, <1>3, <2>1, <2>3 DEF FreeList, Booting, Loading
<1>5. CASE next # MAXPA
  <2>1. pc' = "page_init" /\ next' \in 0 .. MAXPA
    BY <1>1, <1>5 DEF page_init
  <2>2. Heap(list', {p \in Upper : p < next' - 1})
    BY <1>3
  <2> HIDE DEF Done
  <2> QED BY <1>1, <1>2, <1>3, <2>1, <2>2 DEF FreeList, Booting, Loading
<1> QED BY <1>4, <1>5

(* What a step of the loader has to keep.                                  *)
LEMMA LoaderKeeps ==
  ASSUME LayoutFits, KernelTables, pc # "reset", UNCHANGED boot,
         Owns(Kernel)', SameBelow(table, table'), pc' \in Loading, Headers'
  PROVE  BootInv'
<1>1. (\E F, lv : Mem(Kernel, F, lv, ttbr0, {}, F # {}))'
  BY DEF Owns
<1>2. table' \in Tables /\ list' \in List
  BY <1>1 DEF Mem, Heap, Kernel
<1>3. KernelTables'
  BY <1>2, KernelStays DEF Loading
<1>4. FreeList'
  BY <1>2 DEF FreeList, Loading, Booting
<1> QED BY <1>3, <1>4 DEF BootInv

(* A step that leaves the pages alone keeps the tree.                      *)
LEMMA SameOwns ==
  ASSUME Owns(Kernel), UNCHANGED memory, ttbr0' = ttbr0
  PROVE  Owns(Kernel)' /\ SameBelow(table, table')
<1>1. Kernel' = Kernel /\ table' = table
  BY DEF Kernel, memory
<1> QED BY <1>1 DEF Owns, SameBelow

(* A member of a sequence.                                                 *)
LEMMA SeqMember ==
  ASSUME NEW S, NEW s \in Seq(S), NEW j \in 1 .. Len(s) PROVE s[j] \in S
OBVIOUS

(* The fields of a program header are numbers.                             *)
LEMMA SegmentFacts ==
  ASSUME binary \in Binary, ph \in Nat \ {0}, ph <= Len(binary.ph)
  PROVE  /\ Segment.va \in Nat /\ Segment.off \in Nat
         /\ Segment.filesz \in Nat /\ Segment.memsz \in Nat
         /\ Offset \in Nat /\ Offset <= Segment.va
<1>1. binary.ph \in Seq([type : Nat, off : Nat, va : Nat, filesz : Nat, memsz : Nat])
  BY BinaryAssumption
<1>2. ph \in 1 .. Len(binary.ph)
  BY <1>1
<1>3. Segment \in [type : Nat, off : Nat, va : Nat, filesz : Nat, memsz : Nat]
  <2> DEFINE H == [type : Nat, off : Nat, va : Nat, filesz : Nat, memsz : Nat]
  <2>1. binary.ph \in Seq(H)
    BY <1>1
  <2> HIDE DEF H
  <2>2. binary.ph[ph] \in H
    BY <1>2, <2>1, SeqMember
  <2> QED BY <2>2 DEF Segment, H
<1>4. Segment.va \in Nat /\ Segment.off \in Nat /\ Segment.filesz \in Nat /\ Segment.memsz \in Nat
  BY <1>3
<1>5. \A a \in Nat : a % BY2PG \in Nat /\ a % BY2PG <= a
  BY BootAssumption
<1> QED BY <1>4, <1>5 DEF Offset

-----------------------------------------------------------------------------
(* vm_init makes a directory without entries.                              *)
LEMMA VmInitStep == ASSUME LayoutFits, BootInv, vm_init PROVE BootInv'
<1>1. pc = "reset" /\ pc' = "boot_map_segment" /\ table \in Tables /\ mapped = 0
  BY DEF vm_init, BootInv, KernelTables
<1> DEFINE a == boot_alloc([freemem |-> KSTACKTOP, table |-> table, at |-> BadPointer])
<1>2. pgdir' = a.at /\ freemem' = a.freemem /\ table' = a.table /\ mapped' = mapped
  BY DEF vm_init
<1>3. UNCHANGED <<list, next, ttbr0, pos>>
  BY DEF vm_init, program
<1>a. PICK b : b = a
  OBVIOUS
<1> HIDE DEF a
<1>4. b.at = KSTACKTOP /\ b.table \in Tables
      /\ \E n \in Counts, L \in Places :
           Shape(b.table, b.freemem, n, L) /\ Counted(n) /\ n[0] = 0
  BY <1>1, <1>a, DirectoryShapes DEF a
<1>5. (\E n \in Counts, L \in Places :
        Shape(table, freemem, n, L) /\ Counted(n) /\ n[0] = mapped)'
  BY <1>1, <1>2, <1>a, <1>4
<1>6. KernelTables'
  <2>1. 0 \in 0 .. (2 * MAXPA)
    BY BootAssumption
  <2> QED BY <1>1, <1>2, <1>a, <1>4, <1>5, <2>1 DEF KernelTables
<1>7. FreeList' /\ Headers'
  BY <1>1, <1>3 DEF BootInv, FreeList, Headers, Booting, Loading
<1> QED BY <1>1, <1>6, <1>7 DEF BootInv, Booting

(* One round of boot_map_segment never leaves RAM, and maps one more page. *)
LEMMA MapStep == ASSUME LayoutFits, BootInv, boot_map_segment PROVE BootInv'
<1>1. /\ pc = "boot_map_segment" /\ mapped < 2 * MAXPA /\ table \in Tables
      /\ pgdir = KSTACKTOP /\ mapped \in 0 .. (2 * MAXPA) /\ MAXPA \in Nat
  BY BootAssumption DEF boot_map_segment, BootInv, KernelTables
<1>2. PICK n \in Counts, L \in Places : Shape(table, freemem, n, L) /\ Counted(n) /\ n[0] = mapped
  BY <1>1 DEF BootInv, KernelTables
<1> DEFINE w == boot_pgdir_walk([freemem |-> freemem, table |-> table, at |-> pgdir], mapped)
           u == [w.table EXCEPT ![w.at][PT3X(mapped)] = [at |-> mapped, attr |-> Attribute(mapped)]]
<1>3. /\ freemem' = w.freemem
      /\ table' = IF w.at \in Element THEN u ELSE w.table
      /\ pc' = IF w.at \in Element THEN pc ELSE "aborted"
      /\ mapped' = mapped + 1 /\ pgdir' = pgdir
  BY DEF boot_map_segment
<1>4. UNCHANGED <<list, next, ttbr0, pos>>
  BY DEF boot_map_segment, program
<1>5. PICK x, v, z : x = mapped /\ v = w /\ z = u
  OBVIOUS
<1>6. v = boot_pgdir_walk([freemem |-> freemem, table |-> table, at |-> KSTACKTOP], x)
      /\ z = [v.table EXCEPT ![v.at][PT3X(x)] = [at |-> x, attr |-> Attribute(x)]]
  BY <1>1, <1>5
<1> HIDE DEF w, u
<1>7. /\ v.at \in Element
      /\ \E d \in Counts, M \in Places :
           Shape(z, v.freemem, d, M) /\ Counted(d) /\ d[0] = x + 1 /\ z \in Tables
  BY <1>1, <1>2, <1>5, <1>6, RoundShapes
<1>8. pc' = "boot_map_segment" /\ table' = z /\ table' \in Tables /\ freemem' = v.freemem
  BY <1>1, <1>3, <1>5, <1>7
<1>9. (\E d \in Counts, M \in Places :
        Shape(table, freemem, d, M) /\ Counted(d) /\ d[0] = mapped)'
  BY <1>3, <1>5, <1>7, <1>8
<1>10. pgdir' = KSTACKTOP /\ mapped' \in 0 .. (2 * MAXPA)
  BY <1>1, <1>3
<1>11. KernelTables'
  BY <1>8, <1>9, <1>10 DEF KernelTables
<1>12. FreeList' /\ Headers'
  BY <1>1, <1>4, <1>8 DEF BootInv, FreeList, Headers, Booting, Loading
<1> QED BY <1>8, <1>11, <1>12 DEF BootInv, Booting

(* el1_mmu_activate only goes on.                                          *)
LEMMA ActivateStep == ASSUME LayoutFits, BootInv, el1_mmu_activate PROVE BootInv'
<1>1. pc = "boot_map_segment" /\ pc' = "page_init"
      /\ UNCHANGED boot /\ table' = table /\ list' = list /\ next' = next /\ ttbr0' = ttbr0 /\ pos' = pos
  BY DEF el1_mmu_activate, memory, program
<1>2. KernelTables'
  BY <1>1, KernelStays DEF BootInv, KernelTables, SameBelow
<1>3. FreeList' /\ Headers'
  <2>1. 0 \in 0 .. MAXPA
    BY BootAssumption
  <2> QED BY <1>1, <2>1 DEF BootInv, FreeList, Headers, Booting, Loading
<1> QED BY <1>1, <1>2, <1>3 DEF BootInv, Booting

(* page_init leaves the tables of the kernel alone.                        *)
LEMMA PageInitStep == ASSUME LayoutFits, BootInv, page_init PROVE BootInv'
<1>1. pc = "page_init" /\ UNCHANGED boot /\ table' = table /\ pos' = pos
  BY DEF page_init, program
<1>2. FreeList' /\ pc' \in {"page_init", "env_create"}
  BY <1>1, PageInitHeap DEF BootInv
<1>3. KernelTables'
  BY <1>1, <1>2, KernelStays DEF BootInv, KernelTables, SameBelow
<1>4. Headers'
  BY <1>1, <1>2 DEF BootInv, Headers, Loading
<1> QED BY <1>2, <1>3, <1>4 DEF BootInv, Booting

(* env_create takes the directory of the program from above the kernel.    *)
LEMMA CreateStep == ASSUME LayoutFits, BootInv, env_create PROVE BootInv'
<1>1. pc = "env_create" /\ pc' = "load_icode" /\ UNCHANGED boot /\ pos' = pos /\ binary' \in Binary
  BY DEF env_create
<1>2. Owns(Kernel)' /\ SameBelow(table, table') /\ table'[ttbr0'] = Cleared
  BY <1>1, CreateOwns DEF BootInv, KernelTables, FreeList
<1>3. Headers'
  BY <1>1, <1>2 DEF BootInv, Headers, Loading
<1> QED BY <1>1, <1>2, <1>3, LoaderKeeps DEF BootInv, Loading

(* load_icode maps the stack when a page is left, else it changes nothing. *)
LEMMA IcodeStep == ASSUME LayoutFits, BootInv, load_icode PROVE BootInv'
<1> DEFINE a == page_alloc(Kernel)
           r == page_insert(a, a.at, USTACKTOP - 1)
<1>1. /\ pc = "load_icode" /\ pc' \in {"load_elf", "failed"} /\ UNCHANGED boot
      /\ pos' = pos /\ binary' = binary /\ ttbr0' = ttbr0 /\ ph' = 1
      /\ Keep(r)
  BY DEF load_icode
<1>2. Owns(Kernel) /\ binary \in Binary /\ table[ttbr0] = Cleared
  BY <1>1 DEF BootInv, FreeList, Headers, Loading
<1>3. PICK F, lv : Mem(Kernel, F, lv, ttbr0, {}, F # {})
  BY <1>2 DEF Owns
<1>4. PICK m \in Nat : m = USTACKTOP - 1
  BY BootAssumption
<1>5. Owns(Kernel)' /\ SameBelow(table, table')
  <2>1. CASE a.at = NULL
    <3>1. a = [Kernel EXCEPT !.at = NULL] /\ Kernel.list = list /\ Kernel.table = table
      BY <2>1, <1>3, AllocTakes DEF Mem, Kernel
    <3>2. IsKernel(a) /\ a.list = list /\ a.table = table /\ a.bytes = bytes /\ a.ref = pp_ref
      BY <3>1 DEF IsKernel, Kernel
    <3>3. LIST_FIRST(a.list) = NULL
      BY <2>1, <3>2 DEF page_alloc, Kernel
    <3>4. ttbr0 \in Element /\ ttbr0 # NULL
      BY <1>3, UpperElement DEF Mem, Tree
    <3> HIDE DEF a
    <3>5. r = [a EXCEPT !.at = NULL]
      BY <1>2, <1>4, <3>2, <3>3, <3>4, InsertNothing
    <3> HIDE DEF r
    <3>6. UNCHANGED memory
      BY <1>1, <3>2, <3>5 DEF Keep, IsKernel, memory
    <3> QED BY <1>1, <1>2, <3>6, SameOwns
  <2>2. CASE a.at # NULL
    <3>1. IsKernel(a)
      BY <2>2, <1>3, AllocTakes DEF Mem
    <3>2. Mapping(Kernel, a, a, m, r)
      BY <2>2, <3>1, <1>4 DEF Mapping
    <3> HIDE DEF a, r
    <3>3. Owns(r) /\ SameBelow(Kernel.table, r.table)
      BY <1>2, <3>2, MapTree
    <3>4. Owns(Kernel)' /\ table' = r.table
      BY <1>1, <3>3, KeepOwns
    <3> QED BY <3>3, <3>4 DEF Kernel
  <2> QED BY <2>1, <2>2
<1>6. Headers'
  BY <1>1, <1>2 DEF BootInv, Headers, Loading
<1> QED BY <1>1, <1>5, <1>6, LoaderKeeps DEF BootInv, Loading

(* load_elf goes to the next header, and may map the page of an offset.    *)
LEMMA ElfStep == ASSUME LayoutFits, BootInv, load_elf PROVE BootInv'
<1>1. /\ pc = "load_elf" /\ UNCHANGED boot /\ binary' = binary /\ ttbr0' = ttbr0
      /\ Owns(Kernel) /\ binary \in Binary /\ ph \in Nat \ {0} /\ pos \in Nat
  BY DEF load_elf, BootInv, FreeList, Headers, Loading
<1>2. Len(binary.ph) \in Nat
  BY <1>1, BinaryAssumption
<1>3. CASE ph > Len(binary.ph)
  <2>1. pc' = "loaded" /\ UNCHANGED memory /\ ph' = ph /\ pos' = pos
    BY <1>3 DEF load_elf
  <2>2. Headers'
    BY <1>1, <2>1 DEF Headers, Loading
  <2> QED BY <1>1, <2>1, <2>2, SameOwns, LoaderKeeps DEF BootInv, Loading
<1>4. CASE ph <= Len(binary.ph) /\ Segment.type # SHT_PROGBITS
  <2>1. pc' = pc /\ UNCHANGED memory /\ ph' = ph + 1 /\ pos' = pos
    BY <1>1, <1>2, <1>4 DEF load_elf
  <2>2. Headers'
    BY <1>1, <2>1 DEF Headers, Loading
  <2> QED BY <1>1, <2>1, <2>2, SameOwns, LoaderKeeps DEF BootInv, Loading
<1>5. CASE ph <= Len(binary.ph) /\ Segment.type = SHT_PROGBITS
  <2>1. Segment.va \in Nat /\ Offset \in Nat /\ Segment.va - Offset \in Nat
    BY <1>1, <1>5, SegmentFacts
  <2>2. pos' = Offset /\ ph' = ph
    BY <1>1, <1>2, <1>5 DEF load_elf
  <2>3. CASE Offset = 0
    <3>1. pc' = "mapper" /\ UNCHANGED memory
      BY <1>1, <1>2, <1>5, <2>3 DEF load_elf
    <3>2. Headers'
      BY <1>1, <1>5, <2>1, <2>2, <3>1 DEF Headers, Loading
    <3> QED BY <1>1, <3>1, <3>2, SameOwns, LoaderKeeps DEF BootInv, Loading
  <2>4. CASE Offset # 0
    <3>1. MapPage(Segment.off, Offset, BY2PG - Offset, Segment.va - Offset, "mapper")
      BY <1>1, <1>2, <1>5, <2>4 DEF load_elf
    <3>2. Owns(Kernel)' /\ SameBelow(table, table') /\ pc' \in {"failed", "mapper"}
      BY <1>1, <2>1, <3>1, MapPageOwns
    <3>3. Headers'
      BY <1>1, <1>5, <2>1, <2>2, <3>2 DEF Headers, Loading
    <3> QED BY <1>1, <3>2, <3>3, LoaderKeeps DEF BootInv, Loading
  <2> QED BY <2>3, <2>4
<1> QED BY <1>1, <1>2, <1>3, <1>4, <1>5

(* The two loops of load_icode_mapper map one page each time round.        *)
LEMMA PageStep ==
  ASSUME LayoutFits, BootInv, pc = "mapper", pos' = pos + BY2PG,
         UNCHANGED <<boot, next, ttbr0, binary, ph>>,
         NEW src, NEW n, MapPage(src, 0, n, Segment.va + pos, pc)
  PROVE  BootInv'
<1>1. Owns(Kernel) /\ binary \in Binary /\ ph \in Nat \ {0} /\ ph <= Len(binary.ph) /\ pos \in Nat
  BY DEF BootInv, FreeList, Headers, Loading
<1>2. Segment.va + pos \in Nat
  BY <1>1, SegmentFacts
<1>3. Owns(Kernel)' /\ SameBelow(table, table') /\ pc' \in {"failed", pc}
  BY <1>1, <1>2, MapPageOwns
<1>4. pos' \in Nat
  BY <1>1, BootAssumption
<1>5. Headers'
  BY <1>1, <1>3, <1>4 DEF Headers, Loading
<1> QED BY <1>3, <1>5, LoaderKeeps DEF BootInv, Loading

(* load_icode_mapper returns.                                              *)
LEMMA ReturnStep == ASSUME LayoutFits, BootInv, MapperReturns PROVE BootInv'
<1>1. /\ pc = "mapper" /\ pc' = "load_elf" /\ ph' = ph + 1 /\ UNCHANGED boot /\ UNCHANGED memory
      /\ ttbr0' = ttbr0 /\ binary' = binary /\ pos' = pos
  BY DEF MapperReturns
<1>2. Owns(Kernel) /\ binary \in Binary /\ ph \in Nat \ {0} /\ pos \in Nat
  BY <1>1 DEF BootInv, FreeList, Headers, Loading
<1>3. Headers'
  BY <1>1, <1>2 DEF Headers, Loading
<1> QED BY <1>1, <1>2, <1>3, SameOwns, LoaderKeeps DEF BootInv, Loading

(* Every step keeps the invariant.                                         *)
LEMMA StepBoot == ASSUME LayoutFits PROVE BootInv /\ [Next]_vars => BootInv'
<1> SUFFICES ASSUME BootInv, [Next]_vars PROVE BootInv'
  OBVIOUS
<1>1. CASE vm_init BY <1>1, VmInitStep
<1>2. CASE boot_map_segment BY <1>2, MapStep
<1>3. CASE el1_mmu_activate BY <1>3, ActivateStep
<1>4. CASE page_init BY <1>4, PageInitStep
<1>5. CASE env_create BY <1>5, CreateStep
<1>6. CASE load_icode BY <1>6, IcodeStep
<1>7. CASE load_elf BY <1>7, ElfStep
<1>8. CASE CopyPage BY <1>8, PageStep DEF CopyPage
<1>9. CASE ZeroPage BY <1>9, PageStep DEF ZeroPage
<1>10. CASE MapperReturns BY <1>10, ReturnStep
<1>11. CASE UNCHANGED vars
  <2>1. Kernel' = Kernel
    BY <1>11 DEF vars, Kernel
  <2>2. Owns(Kernel) => Owns(Kernel)'
    BY <1>11, <2>1 DEF vars, Owns
  <2>3. KernelTables' /\ Headers'
    BY <1>11 DEF BootInv, KernelTables, Headers, vars
  <2>4. FreeList'
    BY <1>11, <2>2 DEF BootInv, FreeList, vars
  <2> QED BY <1>11, <2>3, <2>4 DEF BootInv, vars
<1> QED BY <1>1, <1>2, <1>3, <1>4, <1>5, <1>6, <1>7, <1>8, <1>9, <1>10, <1>11 DEF Next

(* The invariant holds from reset on: the tables of the kernel have their  *)
(* shape, and above them each page is free or in the tree of the program.  *)
THEOREM BootInvariant == ASSUME LayoutFits PROVE Spec => []BootInv
<1>1. BootInv /\ [Next]_vars => BootInv'
  BY StepBoot
<1> QED BY <1>1, InitBoot, PTL DEF Spec

(***************************************************************************)
(* What the loader has put in memory.                                      *)
(***************************************************************************)
(* A page of a segment in memory: what the file has from byte o of the     *)
(* segment on, and zeros behind it.                                        *)
Image(s, o) == [b \in 0 .. (BY2PG - 1) |-> IF o + b < s.filesz THEN s.off + (o + b) ELSE Zero]

(* The first m bytes of a segment are in memory, page by page.             *)
Loaded(k, root, s, m) ==
  \A o \in Nat : o % BY2PG = 0 /\ o < m => Holds(k, root, (s.va + o) \div BY2PG, Image(s, o))

(* How far load_elf has come with a program it can load, with memory left. *)
Progress ==
  /\ bytes \in Contents
  /\ Holds(Kernel, ttbr0, USTACKTOP - 1, ClearedBytes)
  /\ \A j \in Loadable : j < ph => Loaded(Kernel, ttbr0, binary.ph[j], binary.ph[j].memsz)
  /\ pc = "mapper" => pos % BY2PG = 0 /\ ph \in Loadable /\ Loaded(Kernel, ttbr0, Segment, pos)
  /\ pc = "loaded" => ph \in Nat /\ ph > Len(binary.ph) /\ elr = "e_entry"

LoadInv ==
  /\ pc \in Booting \cup {"env_create", "load_icode"} => bytes \in Contents
  /\ pc \in {"load_elf", "mapper", "loaded"} /\ WellFormed /\ LIST_FIRST(list) # NULL => Progress

(* An address is in a page, at an offset.                                  *)
LEMMA PageOf ==
  ASSUME NEW a \in Nat
  PROVE  /\ a \div BY2PG \in Nat /\ a % BY2PG \in 0 .. (BY2PG - 1)
         /\ a = BY2PG * (a \div BY2PG) + (a % BY2PG)
<1>1. BY2PG \in Nat /\ BY2PG > 0
  BY BootAssumption
<1> QED BY ONLY <1>1, a \in Nat

(* In one page only, at one offset.                                        *)
LEMMA PageUnique ==
  ASSUME NEW q \in Nat, NEW b \in 0 .. (BY2PG - 1), NEW a, a = BY2PG * q + b
  PROVE  a \in Nat /\ a \div BY2PG = q /\ a % BY2PG = b
<1> DEFINE d == a \div BY2PG
           r == a % BY2PG
<1>0. BY2PG \in Nat \ {0}
  BY BootAssumption
<1>1. a \in Nat
  BY <1>0
<1>2. d \in Nat /\ r \in 0 .. (BY2PG - 1) /\ a = BY2PG * d + r
  BY <1>1, PageOf
<1>3. BY2PG * d + r = BY2PG * q + b
  BY <1>2
<1> HIDE DEF d, r
<1>4. ~(d < q)
  <2> SUFFICES ASSUME d + 1 <= q PROVE FALSE
    BY <1>2
  <2>1. BY2PG * (d + 1) <= BY2PG * q
    BY <1>0, <1>2
  <2>2. BY2PG * (d + 1) = BY2PG * d + BY2PG
    BY <1>0, <1>2
  <2> QED BY <2>1, <2>2, <1>0, <1>2, <1>3
<1>5. ~(q < d)
  <2> SUFFICES ASSUME q + 1 <= d PROVE FALSE
    BY <1>2
  <2>1. BY2PG * (q + 1) <= BY2PG * d
    BY <1>0, <1>2
  <2>2. BY2PG * (q + 1) = BY2PG * q + BY2PG
    BY <1>0
  <2> QED BY <2>1, <2>2, <1>0, <1>2, <1>3
<1>6. d = q
  BY <1>2, <1>4, <1>5
<1>7. r = b
  BY <1>0, <1>2, <1>3, <1>6
<1> QED BY <1>1, <1>6, <1>7 DEF d, r

(* From the start of a page a on, b bytes further.                         *)
LEMMA PageSum ==
  ASSUME NEW a \in Nat, NEW b \in Nat, a % BY2PG = 0
  PROVE  (a + b) % BY2PG = b % BY2PG /\ (a + b) \div BY2PG = (a \div BY2PG) + (b \div BY2PG)
<1> DEFINE x == a \div BY2PG
           y == b \div BY2PG
           r == b % BY2PG
<1>0. BY2PG \in Nat \ {0}
  BY BootAssumption
<1>1. x \in Nat /\ a = BY2PG * x + (a % BY2PG)
  BY PageOf
<1>2. y \in Nat /\ r \in 0 .. (BY2PG - 1) /\ b = BY2PG * y + r
  BY PageOf
<1> HIDE DEF x, y, r
<1>3. BY2PG * (x + y) = BY2PG * x + BY2PG * y
  BY <1>0, <1>1, <1>2
<1>4. a + b = BY2PG * (x + y) + r
  <2>1. BY2PG * x \in Nat /\ BY2PG * y \in Nat
    BY <1>0, <1>1, <1>2
  <2>2. a = BY2PG * x
    BY <1>1, <2>1
  <2> QED BY <1>2, <1>3, <2>1, <2>2
<1>5. (a + b) % BY2PG = r /\ (a + b) \div BY2PG = x + y
  <2>1. x + y \in Nat
    BY <1>1, <1>2
  <2> QED BY <1>2, <1>4, <2>1, PageUnique
<1> QED BY <1>5 DEF x, y, r

(* Addresses in order are in pages in order.                               *)
LEMMA PageMono ==
  ASSUME NEW a \in Nat, NEW b \in Nat, a <= b
  PROVE  a \div BY2PG <= b \div BY2PG
<1> DEFINE x == a \div BY2PG
           y == b \div BY2PG
<1>0. BY2PG \in Nat \ {0}
  BY BootAssumption
<1>1. x \in Nat /\ a % BY2PG \in 0 .. (BY2PG - 1) /\ a = BY2PG * x + (a % BY2PG)
  BY PageOf
<1>2. y \in Nat /\ b % BY2PG \in 0 .. (BY2PG - 1) /\ b = BY2PG * y + (b % BY2PG)
  BY PageOf
<1> HIDE DEF x, y
<1> SUFFICES ASSUME y + 1 <= x PROVE FALSE
  BY <1>1, <1>2 DEF x, y
<1>3. BY2PG * (y + 1) <= BY2PG * x
  BY <1>0, <1>1, <1>2
<1>4. BY2PG * (y + 1) = BY2PG * y + BY2PG
  BY <1>0, <1>2
<1>5. BY2PG * x \in Nat /\ BY2PG * y \in Nat
  BY <1>0, <1>1, <1>2
<1> QED BY ONLY <1>0, <1>1, <1>2, <1>3, <1>4, <1>5, a <= b, a \in Nat, b \in Nat

(* The starts of two pages are the start of one.                           *)
LEMMA PageSame ==
  ASSUME NEW a \in Nat, NEW b \in Nat, a % BY2PG = 0, b % BY2PG = 0, a \div BY2PG = b \div BY2PG
  PROVE  a = b
<1>1. a = BY2PG * (a \div BY2PG) + (a % BY2PG) /\ b = BY2PG * (b \div BY2PG) + (b % BY2PG)
  BY PageOf
<1> QED BY <1>1

(* The fields of a header load_elf maps.                                   *)
LEMMA LoadableFacts ==
  ASSUME binary \in Binary, NEW j \in Loadable
  PROVE  /\ j \in 1 .. Len(binary.ph)
         /\ binary.ph[j].va \in Nat /\ binary.ph[j].off \in Nat
         /\ binary.ph[j].filesz \in Nat /\ binary.ph[j].memsz \in Nat
         /\ binary.ph[j].filesz <= binary.ph[j].memsz
<1> DEFINE H == [type : Nat, off : Nat, va : Nat, filesz : Nat, memsz : Nat]
<1>1. binary.ph \in Seq(H) /\ \A i \in 1 .. Len(binary.ph) : binary.ph[i].filesz <= binary.ph[i].memsz
  BY BinaryAssumption
<1>2. j \in 1 .. Len(binary.ph)
  BY DEF Loadable
<1> HIDE DEF H
<1>3. binary.ph[j] \in H
  BY <1>1, <1>2, SeqMember
<1> QED BY <1>1, <1>2, <1>3 DEF H

(* The directory tells the stack page and those below it apart.            *)
LEMMA StackAddresses ==
  ASSUME LayoutFits, NEW p \in Nat, p <= USTACKTOP - 1
  PROVE  p \in Addresses
<1>1. PICK s \in Nat : s = USTACKTOP - 1
  BY BootAssumption
<1>2. Num(3, s) <= 1
  BY <1>1 DEF LayoutFits
<1>3. Num(3, p) <= Num(3, s) /\ Num(3, p) \in Nat /\ Num(3, s) \in Nat
  <2>1. 3 \in 0 .. 3 /\ p <= s
    BY <1>1
  <2> QED BY <2>1, NumMono, NumFacts
<1> QED BY <1>2, <1>3 DEF Addresses

(* A byte of a segment is in one of its pages, below the stack page.       *)
LEMMA SegmentPage ==
  ASSUME LayoutFits, WellFormed, binary \in Binary, NEW j \in Loadable,
         NEW o \in Nat, o < binary.ph[j].memsz
  PROVE  /\ (binary.ph[j].va + o) \div BY2PG \in PagesOf(binary.ph[j])
         /\ (binary.ph[j].va + o) \div BY2PG \in Addresses
         /\ (binary.ph[j].va + o) \div BY2PG # USTACKTOP - 1
<1> DEFINE s == binary.ph[j]
           a == s.va + o
           z == s.va + s.memsz - 1
<1>1. s.va \in Nat /\ s.memsz \in Nat
  BY LoadableFacts
<1>2. a \in Nat /\ z \in Nat /\ s.va <= a /\ a <= z
  BY <1>1
<1> HIDE DEF a, z
<1>3. a \div BY2PG \in Nat /\ z \div BY2PG \in Nat /\ s.va \div BY2PG \in Nat
  BY <1>1, <1>2, PageOf
<1>4. s.va \div BY2PG <= a \div BY2PG /\ a \div BY2PG <= z \div BY2PG
  BY <1>1, <1>2, PageMono
<1>5. a \div BY2PG \in PagesOf(s)
  BY <1>3, <1>4 DEF PagesOf, z
<1>6. a \div BY2PG < USTACKTOP - 1
  BY <1>5 DEF WellFormed
<1>7. a \div BY2PG \in Addresses
  BY <1>3, <1>6, StackAddresses, BootAssumption
<1> QED BY <1>3, <1>5, <1>6, <1>7, BootAssumption DEF a

(* Bytes at the start of a page of two segments are in different pages.    *)
LEMMA PagesApart ==
  ASSUME LayoutFits, WellFormed, binary \in Binary, NEW j \in Loadable, NEW l \in Loadable,
         NEW o \in Nat, o < binary.ph[j].memsz, o % BY2PG = 0,
         NEW i \in Nat, i < binary.ph[l].memsz, i % BY2PG = 0, ~(j = l /\ o = i)
  PROVE  (binary.ph[j].va + o) \div BY2PG # (binary.ph[l].va + i) \div BY2PG
<1>1. CASE j # l
  <2>1. PagesOf(binary.ph[j]) \cap PagesOf(binary.ph[l]) = {}
    BY <1>1 DEF WellFormed
  <2>2. /\ (binary.ph[j].va + o) \div BY2PG \in PagesOf(binary.ph[j])
        /\ (binary.ph[l].va + i) \div BY2PG \in PagesOf(binary.ph[l])
    BY SegmentPage
  <2> QED BY <2>1, <2>2
<1>2. CASE j = l
  <2>1. PICK v : v = binary.ph[j].va
    OBVIOUS
  <2>2. v \in Nat /\ v % BY2PG = 0
    BY <2>1, LoadableFacts DEF WellFormed
  <2>3. /\ (v + o) \div BY2PG = (v \div BY2PG) + (o \div BY2PG)
        /\ (v + i) \div BY2PG = (v \div BY2PG) + (i \div BY2PG)
    BY <2>2, PageSum
  <2>4. o \div BY2PG # i \div BY2PG
    BY <1>2, PageSame
  <2>5. o \div BY2PG \in Nat /\ i \div BY2PG \in Nat /\ v \div BY2PG \in Nat
    BY <2>2, PageOf
  <2>6. (v + o) \div BY2PG # (v + i) \div BY2PG
    BY <2>3, <2>4, <2>5
  <2> QED BY <1>2, <2>1, <2>6
<1> QED BY <1>1, <1>2

(* Mapping one page of segment l leaves the pages that are loaded.         *)
LEMMA LoadedStays ==
  ASSUME LayoutFits, WellFormed, binary \in Binary, NEW k, NEW n, NEW c,
         NEW l \in Loadable, NEW i \in Nat, i < binary.ph[l].memsz, i % BY2PG = 0,
         Maps(k, n, (binary.ph[l].va + i) \div BY2PG, c),
         NEW j \in Loadable, NEW m, j = l => m = i, j # l => m = binary.ph[j].memsz,
         Loaded(k, ttbr0, binary.ph[j], m)
  PROVE  Loaded(n, ttbr0, binary.ph[j], m)
<1> SUFFICES ASSUME NEW o \in Nat, o % BY2PG = 0, o < m
             PROVE  Holds(n, ttbr0, (binary.ph[j].va + o) \div BY2PG, Image(binary.ph[j], o))
  BY DEF Loaded
<1>1. binary.ph[j].memsz \in Nat /\ binary.ph[l].memsz \in Nat
  BY LoadableFacts
<1>2. o < binary.ph[j].memsz /\ ~(j = l /\ o = i)
  BY <1>1
<1>3. PICK p, q : p = (binary.ph[j].va + o) \div BY2PG /\ q = (binary.ph[l].va + i) \div BY2PG
  OBVIOUS
<1>4. p \in Addresses /\ p # q
  BY <1>2, <1>3, SegmentPage, PagesApart
<1>5. Holds(k, ttbr0, p, Image(binary.ph[j], o))
  BY <1>3 DEF Loaded
<1> QED BY <1>3, <1>4, <1>5 DEF Maps

(* Mapping the next page of a segment: one more page of it is loaded.      *)
LEMMA LoadedNext ==
  ASSUME LayoutFits, WellFormed, binary \in Binary, NEW k, NEW n,
         NEW l \in Loadable, NEW i \in Nat, i < binary.ph[l].memsz, i % BY2PG = 0,
         Maps(k, n, (binary.ph[l].va + i) \div BY2PG, Image(binary.ph[l], i)),
         Loaded(k, ttbr0, binary.ph[l], i)
  PROVE  Loaded(n, ttbr0, binary.ph[l], i + BY2PG)
<1> SUFFICES ASSUME NEW o \in Nat, o % BY2PG = 0, o < i + BY2PG
             PROVE  Holds(n, ttbr0, (binary.ph[l].va + o) \div BY2PG, Image(binary.ph[l], o))
  BY DEF Loaded
<1>1. CASE o < i
  BY <1>1, LoadedStays DEF Loaded
<1>2. CASE ~(o < i)
  <2>1. PICK b : b = o - i
    OBVIOUS
  <2>2. b \in Nat /\ b < BY2PG /\ o = i + b
    BY <1>2, <2>1, BootAssumption
  <2>3. b % BY2PG = 0
    BY <2>2, PageSum
  <2>4. b = 0
    <3>1. BY2PG \in Nat /\ BY2PG > 0
      BY BootAssumption
    <3> QED BY ONLY <2>2, <2>3, <3>1
  <2>5. o = i
    BY <2>2, <2>4
  <2> QED BY <2>5 DEF Maps
<1> QED BY <1>1, <1>2

(* A cleared page after bcopy of n bytes from src on, to byte d.           *)
FilledPage(src, d, n) ==
  [b \in 0 .. (BY2PG - 1) |-> IF b \in d .. (d + n - 1) THEN src + (b - d) ELSE Zero]

(* What MapPage does when there is a page.                                 *)
LEMMA MapPageMaps ==
  ASSUME Owns(Kernel), bytes \in Contents, NEW src, NEW d, NEW n, NEW va, va \div BY2PG \in Addresses,
         NEW goto, MapPage(src, d, n, va, goto), pc' # "failed", LIST_FIRST(list') # NULL,
         NEW c \in [0 .. (BY2PG - 1) -> Int], c = FilledPage(src, d, n)
  PROVE  /\ pc' = goto /\ elr' = elr
         /\ \E r : Keep(r) /\ Maps(Kernel, r, va \div BY2PG, c)
<1> DEFINE a == page_alloc(Kernel)
           b == bcopy(a, src, a.at, d, n)
           r == page_insert(b, a.at, va \div BY2PG)
<1>1. a.at # NULL /\ Keep(r) /\ pc' = goto /\ elr' = elr
  BY DEF MapPage
<1>2. IsKernel(Kernel) /\ Kernel.bytes = bytes /\ Kernel.list = list
  BY DEF Kernel, IsKernel
<1>4. IsKernel(a) /\ a.at \in Element
  <2>1. PICK F, lv : Mem(Kernel, F, lv, ttbr0, {}, F # {})
    BY DEF Owns
  <2> QED BY <1>1, <2>1, AllocTakes DEF Mem
<1>5. a.bytes = [bytes EXCEPT ![a.at] = ClearedBytes]
  BY <1>1, <1>2, AllocBytes
<1>6. b.bytes = [a.bytes EXCEPT ![a.at] = c] /\ IsKernel(b) /\ b.list = a.list /\ b.table = a.table
  <2>1. a.bytes[a.at] = ClearedBytes
    BY <1>4, <1>5 DEF Contents
  <2>2. a = [list |-> a.list, table |-> a.table, bytes |-> a.bytes, ref |-> a.ref, at |-> a.at]
    BY <1>4 DEF IsKernel
  <2> HIDE DEF a
  <2> DEFINE C == [y \in DOMAIN a.bytes[a.at] |->
                     IF y \in d .. (d + n - 1) THEN src + (y - d) ELSE a.bytes[a.at][y]]
             B == [a.bytes EXCEPT ![a.at] = C]
  <2>3. b = [a EXCEPT !.bytes = B]
    BY <2>2 DEF bcopy
  <2>4. C = c
    BY <2>1 DEF ClearedBytes, FilledPage
  <2> HIDE DEF B, b
  <2>5. b = [list |-> a.list, table |-> a.table, bytes |-> B, ref |-> a.ref, at |-> a.at]
    BY ONLY <2>2, <2>3
  <2> QED BY <2>4, <2>5 DEF IsKernel, B
<1>7. Mapping(Kernel, a, b, va \div BY2PG, r)
  BY <1>1, <1>6 DEF Mapping
<1>8. LIST_FIRST(r.list) # NULL
  BY <1>1 DEF Keep
<1> HIDE DEF a, b, r
<1>9. Maps(Kernel, r, va \div BY2PG, c)
  <2>1. PICK p : p = va \div BY2PG
    OBVIOUS
  <2> QED BY <1>2, <1>6, <1>7, <1>8, <2>1, MapHolds
<1> QED BY <1>1, <1>9

Advancing == {"load_elf", "mapper", "loaded"}

(* A step that asks for a page and goes on had one.                        *)
LEMMA HadPage ==
  ASSUME page_alloc(Kernel).at # NULL PROVE LIST_FIRST(list) # NULL
<1> SUFFICES ASSUME LIST_FIRST(list) = NULL PROVE FALSE
  OBVIOUS
<1>1. Kernel.list = list
  BY DEF Kernel
<1>2. page_alloc(Kernel) = [Kernel EXCEPT !.at = NULL]
  BY <1>1 DEF page_alloc
<1> QED BY <1>2 DEF Kernel

(* A page of the contents or of zeros is loaded.                           *)
LEMMA PageLoads ==
  ASSUME LayoutFits, BootInv, LoadInv, pc = "mapper", pos < Segment.memsz, pos' = pos + BY2PG,
         UNCHANGED <<boot, next, ttbr0, binary, ph>>,
         NEW src, NEW n, MapPage(src, 0, n, Segment.va + pos, pc),
         Image(Segment, pos) = FilledPage(src, 0, n)
  PROVE  LoadInv'
<1>1. pc' \in {"failed", "mapper"} /\ ttbr0' = ttbr0 /\ binary' = binary /\ ph' = ph
  BY DEF MapPage
<1> SUFFICES ASSUME pc' \in Advancing, WellFormed', LIST_FIRST(list)' # NULL
             PROVE  Progress'
  BY <1>1 DEF LoadInv, Booting, Advancing
<1>2. pc' = "mapper" /\ WellFormed /\ Loadable' = Loadable /\ LIST_FIRST(list') # NULL
  BY <1>1 DEF Advancing, WellFormed, Loadable, LIST_FIRST
<1>3. Owns(Kernel) /\ binary \in Binary /\ pos \in Nat
  BY DEF BootInv, FreeList, Headers, Loading
<1>4. Progress
  <2>1. page_alloc(Kernel).at # NULL
    BY <1>2 DEF MapPage
  <2> QED BY <1>2, <2>1, HadPage DEF LoadInv
<1>5. PICK l, i, s : l = ph /\ i = pos /\ s = binary.ph[l]
  OBVIOUS
<1>6. /\ l \in Loadable /\ i \in Nat /\ i % BY2PG = 0 /\ i < s.memsz /\ s = Segment
      /\ bytes \in Contents /\ Loaded(Kernel, ttbr0, s, i)
  BY <1>3, <1>4, <1>5 DEF Progress, Segment
<1>7. /\ s.off \in Nat /\ s.filesz \in Nat
      /\ Image(s, i) \in [0 .. (BY2PG - 1) -> Int]
  <2>1. s.off \in Nat /\ s.filesz \in Nat
    BY <1>3, <1>5, <1>6, LoadableFacts
  <2>2. \A b \in 0 .. (BY2PG - 1) : b \in Int
    OBVIOUS
  <2> QED BY <1>6, <2>1, <2>2 DEF Image, Zero
<1>8. (s.va + i) \div BY2PG \in Addresses /\ (s.va + i) \div BY2PG # USTACKTOP - 1
  BY <1>2, <1>3, <1>5, <1>6, SegmentPage
<1>9. /\ elr' = elr
      /\ \E r : Keep(r) /\ Maps(Kernel, r, (s.va + i) \div BY2PG, Image(s, i))
  <2>0. PICK goto : goto = pc
    OBVIOUS
  <2>1. PICK va : va = s.va + i
    OBVIOUS
  <2>2. MapPage(src, 0, n, va, goto) /\ pc' # "failed"
    BY <1>2, <1>5, <1>6, <2>0, <2>1
  <2>3. va \div BY2PG \in Addresses
    BY <1>8, <2>1
  <2>4. PICK c : c = Image(s, i)
    OBVIOUS
  <2>5. c = FilledPage(src, 0, n)
    BY <1>5, <1>6, <2>4
  <2>6. c \in [0 .. (BY2PG - 1) -> Int]
    BY <1>7, <2>4
  <2>7. /\ elr' = elr /\ \E r : Keep(r) /\ Maps(Kernel, r, va \div BY2PG, c)
    <3>1. Owns(Kernel) /\ bytes \in Contents /\ LIST_FIRST(list') # NULL
      BY <1>2, <1>3, <1>6
    <3> QED BY <3>1, <2>2, <2>3, <2>5, <2>6, MapPageMaps
  <2> QED BY <2>1, <2>4, <2>7
<1>10. PICK r : Keep(r) /\ Maps(Kernel, r, (s.va + i) \div BY2PG, Image(s, i))
  BY <1>9
<1>11. Kernel'.table = r.table /\ Kernel'.bytes = r.bytes /\ bytes' = r.bytes
  BY <1>10 DEF Keep, Kernel
<1>12. \A m, e : Loaded(r, ttbr0, m, e) => Loaded(Kernel', ttbr0', m, e)
  BY <1>1, <1>11 DEF Loaded, Holds
<1>13. bytes' \in Contents
  BY <1>10, <1>11 DEF Maps
<1>14. Holds(Kernel', ttbr0', USTACKTOP - 1, ClearedBytes)
  <2>1. USTACKTOP - 1 \in Addresses
    BY StackAddresses, BootAssumption
  <2>2. Holds(r, ttbr0, USTACKTOP - 1, ClearedBytes)
    BY <1>4, <1>8, <1>10, <2>1 DEF Progress, Maps
  <2> QED BY <1>1, <1>11, <2>2 DEF Holds
<1>15. ASSUME NEW j \in Loadable, j < ph
       PROVE  Loaded(Kernel', ttbr0', binary.ph[j], binary.ph[j].memsz)
  <2>1. j # l
    BY <1>5, <1>15 DEF Loadable
  <2>2. Loaded(Kernel, ttbr0, binary.ph[j], binary.ph[j].memsz)
    BY <1>4, <1>15 DEF Progress
  <2>3. PICK k, m, c : k = Kernel /\ m = binary.ph[j].memsz /\ c = Image(s, i)
    OBVIOUS
  <2>4. /\ WellFormed /\ binary \in Binary /\ l \in Loadable /\ i \in Nat /\ i % BY2PG = 0
        /\ i < binary.ph[l].memsz /\ Maps(k, r, (binary.ph[l].va + i) \div BY2PG, c)
        /\ Loaded(k, ttbr0, binary.ph[j], m)
    BY <1>2, <1>3, <1>5, <1>6, <1>10, <2>2, <2>3
  <2>5. Loaded(r, ttbr0, binary.ph[j], m)
    <3>1. /\ j \in Loadable /\ (j = l => m = i) /\ (j # l => m = binary.ph[j].memsz)
      BY <2>1, <2>3
    <3>2. PICK p, q : p = (binary.ph[l].va + i) \div BY2PG /\ q = binary.ph[j]
      OBVIOUS
    <3> QED BY <2>4, <3>1, <3>2, LoadedStays
  <2> QED BY <1>12, <2>3, <2>5
<1>16. pos' % BY2PG = 0 /\ Loaded(Kernel', ttbr0', s, pos')
  <2>1. (i + BY2PG) % BY2PG = 0
    <3>1. BY2PG % BY2PG = 0 /\ BY2PG \in Nat
      BY BootAssumption
    <3> QED BY <1>6, <3>1, PageSum
  <2>2. PICK k : k = Kernel
    OBVIOUS
  <2>3. /\ WellFormed /\ binary \in Binary /\ l \in Loadable /\ i \in Nat /\ i % BY2PG = 0
        /\ i < binary.ph[l].memsz
        /\ Maps(k, r, (binary.ph[l].va + i) \div BY2PG, Image(binary.ph[l], i))
        /\ Loaded(k, ttbr0, binary.ph[l], i)
    BY <1>2, <1>3, <1>5, <1>6, <1>10, <2>2
  <2>4. Loaded(r, ttbr0, binary.ph[l], i + BY2PG)
    BY ONLY <2>3, LayoutFits, LoadedNext
  <2> QED BY <1>5, <1>12, <2>1, <2>4
<1>17. ph' \in Loadable /\ Segment' = s
  BY <1>1, <1>5, <1>6 DEF Segment
<1> QED BY <1>1, <1>2, <1>13, <1>14, <1>15, <1>16, <1>17 DEF Progress

(* load_icode maps a cleared page for the stack.                           *)
LEMMA IcodeLoads == ASSUME LayoutFits, BootInv, LoadInv, load_icode PROVE LoadInv'
<1> DEFINE a == page_alloc(Kernel)
           r == page_insert(a, a.at, USTACKTOP - 1)
<1>1. /\ pc = "load_icode" /\ pc' \in {"load_elf", "failed"}
      /\ ttbr0' = ttbr0 /\ ph' = 1 /\ Keep(r)
  BY DEF load_icode
<1>2. Owns(Kernel) /\ bytes \in Contents /\ table[ttbr0] = Cleared
  BY <1>1 DEF BootInv, FreeList, Headers, LoadInv, Loading
<1> SUFFICES ASSUME pc' = "load_elf", LIST_FIRST(list)' # NULL PROVE Progress'
  BY <1>1 DEF LoadInv, Booting
<1>3. IsKernel(Kernel) /\ Kernel.bytes = bytes
  BY DEF Kernel, IsKernel
<1>a. PICK F, lv : Mem(Kernel, F, lv, ttbr0, {}, F # {})
  BY <1>2 DEF Owns
<1>b. a.at # NULL
  <2> SUFFICES ASSUME a.at = NULL PROVE FALSE
    OBVIOUS
  <2>1. a = [Kernel EXCEPT !.at = NULL]
    BY <1>a, AllocTakes DEF Mem
  <2>2. IsKernel(a) /\ a.list = list /\ a.table = table
    BY <2>1 DEF IsKernel, Kernel
  <2>3. LIST_FIRST(a.list) = NULL
    BY <2>2 DEF page_alloc, Kernel
  <2>4. ttbr0 \in Element /\ ttbr0 # NULL
    BY <1>a, UpperElement DEF Mem, Tree
  <2>5. PICK m \in Nat : m = USTACKTOP - 1
    BY BootAssumption
  <2> HIDE DEF a
  <2>6. r = [a EXCEPT !.at = NULL]
    BY <1>2, <2>2, <2>3, <2>4, <2>5, InsertNothing
  <2> HIDE DEF r
  <2>7. list' = list
    BY <1>1, <2>2, <2>6 DEF Keep, IsKernel
  <2> QED BY <2>2, <2>3, <2>7 DEF LIST_FIRST
<1>4. IsKernel(a) /\ a.at \in Element
  BY <1>a, <1>b, AllocTakes DEF Mem
<1>5. PICK m : m = USTACKTOP - 1
  OBVIOUS
<1>6. m \in Addresses
  BY <1>5, StackAddresses, BootAssumption
<1>7. Mapping(Kernel, a, a, m, r)
  BY <1>b, <1>4, <1>5 DEF Mapping
<1>8. a.bytes = [a.bytes EXCEPT ![a.at] = ClearedBytes]
  <2>1. a.bytes = [bytes EXCEPT ![a.at] = ClearedBytes]
    BY <1>b, <1>3, AllocBytes
  <2> HIDE DEF a
  <2> QED BY <1>2, <1>4, <2>1 DEF Contents
<1>9. LIST_FIRST(r.list) # NULL
  BY <1>1 DEF Keep, LIST_FIRST
<1>10. PICK c : c = ClearedBytes
  OBVIOUS
<1>11. c \in [0 .. (BY2PG - 1) -> Int]
  BY <1>10 DEF ClearedBytes, Zero
<1> HIDE DEF a, r
<1>12. Maps(Kernel, r, m, c)
  BY <1>2, <1>3, <1>6, <1>7, <1>8, <1>9, <1>10, <1>11, MapHolds
<1>13. Kernel'.table = r.table /\ Kernel'.bytes = r.bytes /\ bytes' = r.bytes
  BY <1>1 DEF Keep, Kernel
<1>14. bytes' \in Contents /\ Holds(Kernel', ttbr0', USTACKTOP - 1, ClearedBytes)
  BY <1>1, <1>5, <1>10, <1>12, <1>13 DEF Maps, Holds
<1>15. \A j \in Loadable' : ~(j < ph')
  BY <1>1 DEF Loadable
<1> QED BY <1>14, <1>15 DEF Progress

-----------------------------------------------------------------------------
(* Before the loader, and when nothing happens, memory keeps its contents. *)
LEMMA BootLoads ==
  ASSUME BootInv, LoadInv, vm_init \/ boot_map_segment \/ el1_mmu_activate \/ page_init, BootInv'
  PROVE  LoadInv'
<1>1. bytes' = bytes /\ pc \in Booting
  BY DEF vm_init, boot_map_segment, el1_mmu_activate, page_init, memory, Booting
<1>2. pc' \in Booting \cup {"env_create"}
  <2>1. CASE vm_init
    BY <2>1 DEF vm_init, Booting
  <2>2. CASE boot_map_segment
    BY <2>2, BootAssumption DEF boot_map_segment, Booting, BootInv, Loading
  <2>3. CASE el1_mmu_activate
    BY <2>3 DEF el1_mmu_activate, Booting
  <2>4. CASE page_init
    BY <2>4 DEF page_init, Booting
  <2> QED BY <2>1, <2>2, <2>3, <2>4
<1> QED BY <1>1, <1>2 DEF LoadInv, Booting

(* env_create clears the page it takes.                                    *)
LEMMA CreateLoads == ASSUME BootInv, LoadInv, env_create PROVE LoadInv'
<1> DEFINE a == page_alloc(Kernel)
<1>1. /\ pc = "env_create" /\ pc' = "load_icode" /\ a.at # NULL
      /\ Keep([a EXCEPT !.ref[a.at] = @ + 1])
  BY DEF env_create
<1>2. Heap(Kernel.list, Upper) /\ Kernel.table \in Tables /\ IsKernel(Kernel) /\ Kernel.bytes \in Contents
  BY <1>1 DEF BootInv, FreeList, KernelTables, LoadInv, Kernel, IsKernel
<1>3. PICK k, b : k = Kernel /\ b = page_alloc(k)
  OBVIOUS
<1>4. IsKernel(b) /\ b.bytes \in Contents
  <2>1. k.bytes \in Contents
    BY <1>2, <1>3
  <2>2. Kept(k, b, Upper, Upper \ {b.at}) /\ IsKernel(b)
    BY <1>1, <1>2, <1>3, AllocKeeps, AllocTakes
  <2> QED BY <2>1, <2>2 DEF Kept
<1>5. bytes' = b.bytes
  <2>1. b = [list |-> b.list, table |-> b.table, bytes |-> b.bytes, ref |-> b.ref, at |-> b.at]
    BY <1>4 DEF IsKernel
  <2>2. Keep([b EXCEPT !.ref[b.at] = @ + 1])
    BY <1>1, <1>3
  <2> QED BY <2>1, <2>2 DEF Keep
<1> QED BY <1>1, <1>4, <1>5 DEF LoadInv, Booting

(* load_elf that maps no page goes on with what is loaded.                 *)
LEMMA SameLoads ==
  ASSUME Progress, UNCHANGED memory, ttbr0' = ttbr0, binary' = binary,
         \A j \in Loadable : j < ph' => j < ph \/ Loaded(Kernel, ttbr0, binary.ph[j], binary.ph[j].memsz),
         pc' = "mapper" => pos' = 0 /\ ph' \in Loadable,
         pc' = "loaded" => ph' \in Nat /\ ph' > Len(binary.ph) /\ elr' = "e_entry"
  PROVE  Progress'
<1>1. Kernel' = Kernel /\ bytes' = bytes /\ Loadable' = Loadable
  BY DEF memory, Kernel, Loadable
<1>2. \A s, m : Loaded(Kernel, ttbr0, s, m) => Loaded(Kernel', ttbr0', s, m)
  BY <1>1
<1>3. ASSUME NEW j \in Loadable, j < ph'
      PROVE  Loaded(Kernel', ttbr0', binary.ph[j], binary.ph[j].memsz)
  BY <1>2, <1>3 DEF Progress
<1>4. Loaded(Kernel', ttbr0', Segment', 0)
  BY DEF Loaded
<1>5. 0 % BY2PG = 0
  <2>1. BY2PG \in Nat \ {0}
    BY BootAssumption
  <2> QED BY <2>1
<1>6. Holds(Kernel', ttbr0', USTACKTOP - 1, ClearedBytes) /\ bytes' \in Contents
  BY <1>1 DEF Progress
<1>7. pc' = "mapper" => pos' % BY2PG = 0 /\ ph' \in Loadable' /\ Loaded(Kernel', ttbr0', Segment', pos')
  BY <1>1, <1>4, <1>5
<1> QED BY <1>1, <1>3, <1>6, <1>7 DEF Progress

(* load_elf: the next header.                                              *)
LEMMA ElfLoads == ASSUME LayoutFits, BootInv, LoadInv, load_elf PROVE LoadInv'
<1>1. /\ pc = "load_elf" /\ binary' = binary /\ ttbr0' = ttbr0
      /\ binary \in Binary /\ ph \in Nat \ {0}
  BY DEF load_elf, BootInv, Headers, Loading
<1>2. Len(binary.ph) \in Nat
  BY <1>1, BinaryAssumption
<1>3. pc' \in Advancing \cup {"failed"}
  BY <1>1 DEF load_elf, MapPage, Advancing
<1> SUFFICES ASSUME pc' \in Advancing, WellFormed', LIST_FIRST(list)' # NULL
             PROVE  Progress'
  BY <1>3 DEF LoadInv, Booting, Advancing
<1>4. WellFormed
  BY <1>1 DEF WellFormed, Loadable
<1>5. CASE ph > Len(binary.ph)
  <2>1. pc' = "loaded" /\ UNCHANGED memory /\ ph' = ph /\ elr' = "e_entry"
    BY <1>5 DEF load_elf
  <2>2. Progress
    BY <1>1, <1>4, <2>1 DEF LoadInv, memory, LIST_FIRST
  <2> QED BY <1>1, <1>5, <2>1, <2>2, SameLoads
<1>6. CASE ph <= Len(binary.ph) /\ Segment.type # SHT_PROGBITS
  <2>1. pc' = pc /\ UNCHANGED memory /\ ph' = ph + 1
    BY <1>1, <1>2, <1>6 DEF load_elf
  <2>2. Progress
    BY <1>1, <1>4, <2>1 DEF LoadInv, memory, LIST_FIRST
  <2>3. \A j \in Loadable : j < ph' => j < ph
    BY <1>1, <1>2, <1>6, <2>1 DEF Loadable, Segment
  <2> QED BY <1>1, <2>1, <2>2, <2>3, SameLoads
<1>7. CASE ph <= Len(binary.ph) /\ Segment.type = SHT_PROGBITS
  <2>1. ph \in Loadable
    BY <1>1, <1>2, <1>7 DEF Loadable, Segment
  <2>2. Offset = 0
    BY <1>4, <2>1 DEF WellFormed, Offset, Segment
  <2>3. pc' = "mapper" /\ UNCHANGED memory /\ ph' = ph /\ pos' = 0
    BY <1>1, <1>2, <1>7, <2>2 DEF load_elf
  <2>4. Progress
    BY <1>1, <1>4, <2>3 DEF LoadInv, memory, LIST_FIRST
  <2> QED BY <1>1, <2>1, <2>3, <2>4, SameLoads
<1> QED BY <1>1, <1>2, <1>5, <1>6, <1>7

(* load_icode_mapper returns: the whole segment is in memory.              *)
LEMMA ReturnLoads == ASSUME BootInv, LoadInv, MapperReturns PROVE LoadInv'
<1>1. /\ pc = "mapper" /\ pc' = "load_elf" /\ ph' = ph + 1 /\ UNCHANGED memory
      /\ ttbr0' = ttbr0 /\ binary' = binary /\ pos >= Segment.memsz
  BY DEF MapperReturns
<1>2. binary \in Binary /\ pos \in Nat /\ ph \in Nat
  BY <1>1 DEF BootInv, Headers, Loading
<1> SUFFICES ASSUME WellFormed', LIST_FIRST(list)' # NULL PROVE Progress'
  BY <1>1 DEF LoadInv, Booting
<1>3. Progress
  <2>1. WellFormed
    BY <1>1 DEF WellFormed, Loadable
  <2> QED BY <1>1, <2>1 DEF LoadInv, memory, LIST_FIRST
<1>4. ph \in Loadable /\ Loaded(Kernel, ttbr0, Segment, pos)
  BY <1>1, <1>3 DEF Progress
<1>5. Loaded(Kernel, ttbr0, binary.ph[ph], binary.ph[ph].memsz)
  <2>1. Segment.memsz \in Nat
    BY <1>2, <1>4, LoadableFacts DEF Segment
  <2>2. \A o \in Nat : o < Segment.memsz => o < pos
    BY <1>1, <1>2, <2>1
  <2>3. Loaded(Kernel, ttbr0, Segment, Segment.memsz)
    BY <1>4, <2>2 DEF Loaded
  <2> QED BY <2>3 DEF Segment
<1>6. \A j \in Loadable : j < ph' => j < ph \/ j = ph
  BY <1>1, <1>2 DEF Loadable
<1> QED BY <1>1, <1>3, <1>5, <1>6, SameLoads

(* The fields of the header load_icode_mapper is at.                       *)
LEMMA MapperFacts ==
  ASSUME BootInv, pc = "mapper"
  PROVE  /\ Segment.off \in Nat /\ Segment.filesz \in Nat /\ Segment.memsz \in Nat
         /\ Segment.filesz <= Segment.memsz /\ pos \in Nat
<1>1. binary \in Binary /\ ph \in Nat \ {0} /\ ph <= Len(binary.ph) /\ pos \in Nat
  BY DEF BootInv, Headers, Loading
<1>2. ph \in 1 .. Len(binary.ph)
  BY <1>1, BinaryAssumption
<1>3. binary.ph[ph].filesz <= binary.ph[ph].memsz
  BY <1>1, <1>2, BinaryAssumption
<1> QED BY <1>1, <1>3, SegmentFacts DEF Segment

(* A round of the loop over the contents loads a page of them.             *)
LEMMA CopyLoads == ASSUME LayoutFits, BootInv, LoadInv, CopyPage PROVE LoadInv'
<1> DEFINE left == Segment.filesz - pos
           n == IF left >= BY2PG THEN BY2PG ELSE left
           src == Segment.off + pos
<1>1. /\ pc = "mapper" /\ pos < Segment.filesz /\ pos' = pos + BY2PG
      /\ UNCHANGED <<boot, next, ttbr0, binary, ph>>
      /\ MapPage(src, 0, n, Segment.va + pos, pc)
  BY DEF CopyPage
<1>2. /\ Segment.off \in Nat /\ Segment.filesz \in Nat /\ Segment.memsz \in Nat
      /\ Segment.filesz <= Segment.memsz /\ pos \in Nat
  BY <1>1, MapperFacts
<1>3. pos < Segment.memsz
  BY <1>1, <1>2
<1>4. Image(Segment, pos) = FilledPage(src, 0, n)
  <2>1. PICK f, o, i, p : f = Segment.filesz /\ o = Segment.off /\ i = pos /\ p = BY2PG
    OBVIOUS
  <2>2. f \in Nat /\ o \in Nat /\ i \in Nat /\ p \in Nat /\ i < f
    BY <1>1, <1>2, <2>1, BootAssumption
  <2>3. ASSUME NEW b \in 0 .. (p - 1)
        PROVE  (IF i + b < f THEN o + (i + b) ELSE Zero) =
               (IF b \in 0 .. (0 + (IF f - i >= p THEN p ELSE f - i) - 1) THEN o + i + (b - 0) ELSE Zero)
    BY <2>2, <2>3 DEF Zero
  <2> QED BY <2>1, <2>3 DEF Image, FilledPage
<1> HIDE DEF n, src
<1> QED BY <1>1, <1>3, <1>4, PageLoads

(* A round of the loop up to sgsize loads a page of zeros.                 *)
LEMMA ZeroLoads == ASSUME LayoutFits, BootInv, LoadInv, ZeroPage PROVE LoadInv'
<1>1. /\ pc = "mapper" /\ pos >= Segment.filesz /\ pos < Segment.memsz /\ pos' = pos + BY2PG
      /\ UNCHANGED <<boot, next, ttbr0, binary, ph>>
      /\ MapPage(Segment.off, 0, 0, Segment.va + pos, pc)
  BY DEF ZeroPage
<1>2. Segment.filesz \in Nat /\ pos \in Nat
  BY <1>1, MapperFacts
<1>3. Image(Segment, pos) = FilledPage(Segment.off, 0, 0)
  BY <1>1, <1>2, BootAssumption DEF Image, FilledPage
<1> QED BY <1>1, <1>3, PageLoads

(* At reset memory has contents.                                           *)
LEMMA InitLoads == Init => LoadInv
BY DEF Init, LoadInv, Contents

(* Every step keeps what is loaded.                                        *)
LEMMA StepLoads == ASSUME LayoutFits PROVE BootInv /\ BootInv' /\ LoadInv /\ [Next]_vars => LoadInv'
<1> SUFFICES ASSUME BootInv, BootInv', LoadInv, [Next]_vars PROVE LoadInv'
  OBVIOUS
<1>1. CASE vm_init \/ boot_map_segment \/ el1_mmu_activate \/ page_init BY <1>1, BootLoads
<1>2. CASE env_create BY <1>2, CreateLoads
<1>3. CASE load_icode BY <1>3, IcodeLoads
<1>4. CASE load_elf BY <1>4, ElfLoads
<1>5. CASE CopyPage BY <1>5, CopyLoads
<1>6. CASE ZeroPage BY <1>6, ZeroLoads
<1>7. CASE MapperReturns BY <1>7, ReturnLoads
<1>8. CASE UNCHANGED vars
  <2>1. Kernel' = Kernel /\ WellFormed' = WellFormed /\ Loadable' = Loadable /\ Segment' = Segment
    BY <1>8 DEF vars, Kernel, WellFormed, Loadable, Segment
  <2>2. Progress => Progress'
    BY <1>8, <2>1 DEF vars, Progress, Loaded, Holds
  <2> QED BY <1>8, <2>1, <2>2 DEF vars, LoadInv
<1> QED BY <1>1, <1>2, <1>3, <1>4, <1>5, <1>6, <1>7, <1>8 DEF Next

(* What a page contains is at each of its addresses.                       *)
LEMMA ByteOf ==
  ASSUME NEW q \in Nat, NEW b \in 0 .. (BY2PG - 1), NEW c, Holds(Kernel, ttbr0, q, c),
         NEW a, a = BY2PG * q + b
  PROVE  ByteAt(a) = c[b]
<1>1. a \div BY2PG = q /\ a % BY2PG = b
  BY PageUnique
<1>2. Lookup(table, ttbr0, q) # Invalid /\ bytes[Lookup(table, ttbr0, q).at] = c
  BY DEF Holds, Kernel
<1> QED BY <1>1, <1>2 DEF ByteAt

(* When all segments are loaded, every byte is in its place.               *)
LEMMA InvLoads == ASSUME BootInv, LoadInv PROVE LoadsSegments
<1> SUFFICES ASSUME pc = "loaded", LIST_FIRST(list) # NULL, WellFormed
             PROVE  /\ elr = "e_entry"
                    /\ \A j \in Loadable : \A n \in 0 .. (binary.ph[j].memsz - 1) :
                         ByteAt(binary.ph[j].va + n) =
                           IF n < binary.ph[j].filesz THEN binary.ph[j].off + n ELSE Zero
                    /\ \A b \in 0 .. (BY2PG - 1) : ByteAt((USTACKTOP - 1) * BY2PG + b) = Zero
  BY DEF LoadsSegments
<1>1. Progress /\ binary \in Binary /\ ph \in Nat /\ ph > Len(binary.ph) /\ elr = "e_entry"
  <2>1. Progress /\ binary \in Binary
    BY DEF LoadInv, BootInv, Headers, Loading
  <2> QED BY <2>1 DEF Progress
<1>2. ASSUME NEW j \in Loadable, NEW n \in 0 .. (binary.ph[j].memsz - 1)
      PROVE  ByteAt(binary.ph[j].va + n) =
               IF n < binary.ph[j].filesz THEN binary.ph[j].off + n ELSE Zero
  <2>1. PICK s : s = binary.ph[j]
    OBVIOUS
  <2>2. /\ j \in 1 .. Len(binary.ph) /\ s.va \in Nat /\ s.off \in Nat
        /\ s.filesz \in Nat /\ s.memsz \in Nat /\ s.va % BY2PG = 0
    BY <1>1, <2>1, LoadableFacts DEF WellFormed
  <2>3. Len(binary.ph) \in Nat
    BY <1>1, BinaryAssumption
  <2>4. Loaded(Kernel, ttbr0, s, s.memsz)
    <3>1. j < ph
      BY <1>1, <2>2, <2>3
    <3>2. j < ph => Loaded(Kernel, ttbr0, binary.ph[j], binary.ph[j].memsz)
      BY <1>1 DEF Progress
    <3> QED BY <2>1, <3>1, <3>2
  <2>5. n \in Nat /\ n < s.memsz
    BY <1>2, <2>1, <2>2
  <2>6. PICK x, b, o : x = n \div BY2PG /\ b = n % BY2PG /\ o = BY2PG * x
    OBVIOUS
  <2>7. x \in Nat /\ b \in 0 .. (BY2PG - 1) /\ n = o + b /\ BY2PG \in Nat \ {0}
    BY <2>5, <2>6, PageOf, BootAssumption
  <2>8. o \in Nat
    BY <2>6, <2>7
  <2>9. o % BY2PG = 0 /\ o \div BY2PG = x /\ o < s.memsz
    <3>1. 0 \in 0 .. (BY2PG - 1) /\ o = BY2PG * x + 0
      BY <2>6, <2>7, <2>8
    <3>2. o % BY2PG = 0 /\ o \div BY2PG = x
      BY <2>7, <3>1, PageUnique
    <3> QED BY <2>2, <2>5, <2>7, <2>8, <3>2
  <2>10. Holds(Kernel, ttbr0, (s.va + o) \div BY2PG, Image(s, o))
    BY <2>4, <2>8, <2>9 DEF Loaded
  <2>11. PICK y, q : y = s.va \div BY2PG /\ q = y + x
    OBVIOUS
  <2>12. y \in Nat /\ s.va = BY2PG * y
    <3>1. PICK v : v = s.va
      OBVIOUS
    <3>2. v \in Nat /\ v % BY2PG = 0 /\ y = v \div BY2PG
      BY <2>2, <2>11, <3>1
    <3>3. y \in Nat /\ v = BY2PG * y + (v % BY2PG)
      BY <3>2, PageOf
    <3>4. BY2PG * y \in Nat
      BY <2>7, <3>3
    <3> QED BY <3>1, <3>2, <3>3, <3>4
  <2>13. q \in Nat /\ (s.va + o) \div BY2PG = q
    <3>1. PICK v : v = s.va
      OBVIOUS
    <3>2. (v + o) \div BY2PG = (v \div BY2PG) + (o \div BY2PG)
      BY <2>2, <2>8, <3>1, PageSum
    <3> QED BY <2>7, <2>9, <2>11, <2>12, <3>1, <3>2
  <2>14. s.va + n = BY2PG * q + b
    <3>1. BY2PG * q = BY2PG * y + BY2PG * x
      BY <2>7, <2>11, <2>12
    <3> QED BY <2>2, <2>6, <2>7, <2>8, <2>12, <3>1
  <2>15. ByteAt(s.va + n) = Image(s, o)[b]
    BY <2>7, <2>10, <2>13, <2>14, ByteOf
  <2> QED BY <2>1, <2>7, <2>15 DEF Image
<1>3. ASSUME NEW b \in 0 .. (BY2PG - 1) PROVE ByteAt((USTACKTOP - 1) * BY2PG + b) = Zero
  <2>1. PICK q : q = USTACKTOP - 1
    OBVIOUS
  <2>2. q \in Nat /\ BY2PG \in Nat /\ Holds(Kernel, ttbr0, q, ClearedBytes)
    BY <1>1, <2>1, BootAssumption DEF Progress
  <2>3. PICK a : a = q * BY2PG + b
    OBVIOUS
  <2>4. a = BY2PG * q + b
    BY <2>2, <2>3
  <2>5. ByteAt(a) = ClearedBytes[b]
    BY <2>2, <2>4, ByteOf
  <2> QED BY <2>1, <2>3, <2>5 DEF ClearedBytes
<1> QED BY <1>1, <1>2, <1>3

-----------------------------------------------------------------------------
(* The shape of the kernel's tables maps each address to itself.           *)
LEMMA InvIdentity == ASSUME LayoutFits, BootInv PROVE IdentityMapped
<1> SUFFICES ASSUME pc # "reset", NEW va \in 0 .. (2 * MAXPA - 1)
             PROVE  Lookup(table, KSTACKTOP, va) =
                      IF va < mapped THEN [at |-> va, attr |-> Attribute(va)] ELSE Invalid
  BY DEF IdentityMapped
<1>1. PICK n \in Counts, L \in Places : Shape(table, freemem, n, L) /\ Counted(n) /\ n[0] = mapped
  BY DEF BootInv, KernelTables
<1>2. va \in Nat /\ va <= LastPage /\ table \in Tables
  BY BootAssumption DEF LastPage, BootInv, KernelTables
<1> QED BY <1>1, <1>2, LookupShapes

(* The numbered tables end in front of the page descriptors, each in a     *)
(* page of its own.                                                        *)
LEMMA InvFit == ASSUME LayoutFits, BootInv PROVE TablesFit
<1>1. CASE pc = "reset"
  <2>1. freemem = 0 /\ KERNEL_PAGES \in Nat /\ KSTACKTOP \in Nat
    BY <1>1, BootAssumption DEF BootInv, KernelTables
  <2>2. KSTACKTOP .. (freemem - 1) = {}
    BY <2>1
  <2> QED BY <2>1, <2>2 DEF TablesFit
<1>2. CASE pc # "reset"
  <2>1. PICK n \in Counts, L \in Places : Shape(table, freemem, n, L)
    BY <1>2 DEF BootInv, KernelTables
  <2>2. freemem <= KERNEL_PAGES
    BY <2>1, SizedBound DEF Shape
  <2>3. table \in Tables
    BY DEF BootInv, KernelTables
  <2>4. ASSUME NEW p \in KSTACKTOP .. (freemem - 1), NEW q \in KSTACKTOP .. (freemem - 1),
               NEW x \in Index, NEW y \in Index,
               table[p][x].attr = "table", table[p][x] = table[q][y]
        PROVE  p = q /\ x = y
    BY <2>1, <2>3, <2>4, TablesApart
  <2> QED BY <2>2, <2>4 DEF TablesFit
<1> QED BY <1>1, <1>2

(* The free pages and the pages of the tree are apart, and all there are.  *)
LEMMA InvUnused == ASSUME BootInv PROVE FreePagesUnused
<1> SUFFICES ASSUME pc \in {"env_create", "load_icode", "load_elf", "mapper", "loaded", "failed"}
             PROVE  LET free == {OnList[n] : n \in 1 .. Len(OnList)}
                    IN  /\ Represents(list, OnList)
                        /\ free \cap OfProgram = {}
                        /\ free \cup OfProgram \subseteq Upper
                        /\ free # {} => free \cup OfProgram = Upper
  BY DEF FreePagesUnused, Upper
<1>1. \E F : /\ Heap(list, F) /\ F \subseteq Upper /\ OfProgram \subseteq Upper \ F
             /\ F # {} => OfProgram = Upper \ F
  <2>1. CASE pc = "env_create"
    <3>1. Heap(list, Upper) /\ ttbr0 = BadPointer
      BY <2>1 DEF BootInv, FreeList
    <3>2. {ttbr0} \cap Element = {}
      BY <3>1, BootAssumption
    <3>3. Below({}) = {}
      BY DEF Below
    <3>4. OfProgram = {}
      BY <3>2, <3>3 DEF OfProgram
    <3> QED BY <3>1, <3>4
  <2>2. CASE pc # "env_create"
    <3>1. PICK F, lv : Mem(Kernel, F, lv, ttbr0, {}, F # {})
      BY <2>2 DEF BootInv, FreeList, Owns, Loading
    <3>2. Heap(list, F) /\ F \subseteq Upper
      BY <3>1 DEF Mem, Kernel, Tree
    <3> QED BY <3>1, <3>2, ProgramPages
  <2> QED BY <2>1, <2>2
<1>2. PICK F : /\ Heap(list, F) /\ F \subseteq Upper /\ OfProgram \subseteq Upper \ F
               /\ F # {} => OfProgram = Upper \ F
  BY <1>1
<1>3. PICK s \in Seq(Element) : Represents(list, s) /\ F = {s[n] : n \in 1 .. Len(s)}
  BY <1>2 DEF Heap
<1>4. OnList = s
  BY <1>3, OnListIs
<1>5. F = {OnList[n] : n \in 1 .. Len(OnList)}
  BY <1>3, <1>4
<1> QED BY <1>2, <1>3, <1>4, <1>5

(* From vm_init on the kernel's directory maps RAM and devices to          *)
(* themselves: no later table of boot_map_segment, no page_init and no     *)
(* loader undoes an entry (vm_init, boot_map_segment).                     *)
THEOREM IdentityMappedCorrect == ASSUME LayoutFits PROVE Spec => []IdentityMapped
<1>1. BootInv => IdentityMapped
  BY InvIdentity
<1> QED BY <1>1, BootInvariant, PTL

(* boot_alloc hands out no page twice, and none of the page descriptors'   *)
(* (boot_alloc, boot_pgdir_walk).                                          *)
THEOREM TablesFitCorrect == ASSUME LayoutFits PROVE Spec => []TablesFit
<1>1. BootInv => TablesFit
  BY InvFit
<1> QED BY <1>1, BootInvariant, PTL

(* While a program of any shape is loaded, also when memory runs out, no   *)
(* page is on the free list and in use, and none is lost as long as any is *)
(* free (page_init, env_create, load_icode, load_icode_mapper).            *)
THEOREM FreePagesUnusedCorrect == ASSUME LayoutFits PROVE Spec => []FreePagesUnused
<1>1. BootInv => FreePagesUnused
  BY InvUnused
<1> QED BY <1>1, BootInvariant, PTL

(* When load_elf is through with a well-formed program and memory did not  *)
(* run out, its segments are in memory at their addresses, each with zeros *)
(* up to its size, and its stack page is cleared (load_icode, load_elf,    *)
(* load_icode_mapper).                                                     *)
THEOREM LoadsSegmentsCorrect == ASSUME LayoutFits PROVE Spec => []LoadsSegments
<1>1. BootInv /\ BootInv' /\ LoadInv /\ [Next]_vars => LoadInv'
  BY StepLoads
<1>2. BootInv /\ LoadInv => LoadsSegments
  BY InvLoads
<1> QED BY <1>1, <1>2, InitLoads, BootInvariant, PTL DEF Spec

(* The layout of the Raspberry Pi 3 (src/os/include/sysconfig.h): 512 MiB  *)
(* of RAM, tables of 512 entries, the directory at 0x01000000 and the page *)
(* descriptors at 0x01400000, both as physical addresses; the user's stack *)
(* ends at 0x80000000.                                                     *)
THEOREM BoardLayoutFits ==
  ASSUME MAXPA = 131072, PTE2PT = 512, KSTACKTOP = 4096, KERNEL_PAGES = 5120,
         USTACKTOP = 524288
  PROVE  LayoutFits
<1>1. LastPage = 262143
  BY DEF LastPage
<1>2. Up(262143) = 511 /\ Up(511) = 0 /\ Up(0) = 0
  BY DEF Up
<1>3. Num(1, LastPage) = 511 /\ Num(2, LastPage) = 0 /\ Num(3, LastPage) = 0
  BY <1>1, <1>2 DEF Num
<1>4. Up(524287) = 1023 /\ Up(1023) = 1 /\ Up(1) = 0
  BY DEF Up
<1>5. USTACKTOP - 1 = 524287
  OBVIOUS
<1>6. Num(3, USTACKTOP - 1) = 0
  BY <1>4, <1>5 DEF Num
<1> QED BY <1>3, <1>6 DEF LayoutFits
=============================================================================
