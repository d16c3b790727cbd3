----------------------------- MODULE PmapProofs -----------------------------
(***************************************************************************)
(* Proofs about Pmap, for any number of pages, address spaces, levels and  *)
(* entries per table.                                                      *)
(***************************************************************************)
EXTENDS Pmap, DataLemmas, FiniteSetTheorems, TLAPS

(* An environment destroys only itself, never a child of its own.          *)
SelfDestroyOnly == \A ce \in MayDestroy : ce[1] = ce[2]

-----------------------------------------------------------------------------
(* The inductive invariant.  First the memory: *)

MemType ==
  /\ page_free_list \in Seq(Page)
  /\ pp_ref \in [Page -> 0..(RefMod - 1)]
  /\ pte \in [Cell -> Page \cup {NoPage}]
  /\ pp \in Page \cup {NoPage}
  /\ level \in [Page -> 0..Depth]
  /\ lost \subseteq Page

(* Free pages are out of the tables.                                       *)
CellInv ==
  \A c \in Cell : pte[c] \notin Free /\ (c[1] \in Free => pte[c] = NoPage)

(* The page in the caller's hand is a page of data.                        *)
HandInv == pp # NoPage => pp \notin Free /\ level[pp] = Depth

(* A page that nobody holds is in a table.                                 *)
HeldInv == \A p \in Page \ (Free \cup lost \cup {pp}) : Refs(p) # {}

Mem == /\ NoDup(page_free_list)
       /\ CellInv
       /\ TreeSound
       /\ RefCounts
       /\ HandInv
       /\ HeldInv

(* A walk stands on a table of its level, in an address space that exists. *)
WalkInv ==
  walk # NoWalk =>
    /\ level[walk.t] = walk.l /\ walk.t \notin Free
    /\ Live(walk.as)
    /\ IF Inserting THEN pp # NoPage /\ freeing = NotFreeing ELSE pp = NoPage

(* env_free stands on a path of the tree of e, and has cleared every entry *)
(* its loops have passed; a walk it has started goes down the same path.   *)
FreeingInv ==
  freeing # NotFreeing =>
    /\ freeing.c = freeing.e
    /\ pp = NoPage
    /\ freeing.tab[0] = pte[TTBR0(freeing.e)]
    /\ \A m \in 0..freeing.l : level[freeing.tab[m]] = m
    /\ \A m \in 0..(freeing.l - 1) :
         /\ freeing.pten[m] \in Index
         /\ pte[<<freeing.tab[m], freeing.pten[m]>>] = freeing.tab[m + 1]
    /\ \A m \in 0..freeing.l : \A j \in 0..(freeing.pten[m] - 1) :
         \/ pte[<<freeing.tab[m], j>>] = NoPage
         \/ walk # NoWalk /\ m = LeafLevel /\ j = freeing.pten[m] - 1
    /\ walk # NoWalk =>
         /\ walk.op = "page_remove"
         /\ freeing.l = LeafLevel
         /\ walk.t = freeing.tab[walk.l]
         /\ \A m \in 0..(LeafLevel - 1) : walk.va[m] = freeing.pten[m]
         /\ walk.va[LeafLevel] = freeing.pten[LeafLevel] - 1
         /\ pte[<<freeing.tab[LeafLevel], walk.va[LeafLevel]>>] # NoPage

IInv == TypeOK /\ Mem /\ WalkInv /\ FreeingInv

-----------------------------------------------------------------------------
(* The constants, as the provers need them.                                *)
LEMMA ConstFacts ==
  /\ Depth \in Nat /\ Depth > 0
  /\ PTE2PT \in Nat /\ PTE2PT > 0
  /\ RefMod \in Nat /\ RefMod > 1
  /\ NoPage \notin Page
  /\ \A a \in AS : a \notin Page
BY ConstAssumption

-----------------------------------------------------------------------------
(* Counting references: one cell changes, from y to x.                     *)

(* There are finitely many entries, so references can be counted.          *)
LEMMA CellFinite == IsFiniteSet(Cell)
<1> PTE2PT - 1 \in Int /\ 0 \in Int
  BY ConstAssumption
<1>1. IsFiniteSet(Index) /\ IsFiniteSet({0})
  BY FS_Interval, FS_Singleton DEF Index
<1>2. IsFiniteSet(Page \X Index) /\ IsFiniteSet(AS \X {0})
  BY <1>1, FS_Product, ConstAssumption
<1> QED
  BY <1>2, FS_Union DEF Cell

Count(f, p) == Cardinality({d \in Cell : f[d] = p})

(* A count is a number, zero when there is no reference.                   *)
LEMMA CountType ==
  ASSUME NEW f, NEW p
  PROVE  /\ Count(f, p) \in Nat
         /\ Count(f, p) = 0 <=> {d \in Cell : f[d] = p} = {}
<1>1. IsFiniteSet({d \in Cell : f[d] = p})
  BY CellFinite, FS_Subset
<1> QED
  BY <1>1, FS_CardinalityType, FS_EmptySet DEF Count

(* Changing one entry moves one reference from its old page to its new.    *)
LEMMA CountPut ==
  ASSUME NEW f, NEW g, NEW c \in Cell, NEW p,
         \A d \in Cell : d # c => g[d] = f[d], f[c] # g[c]
  PROVE  Count(g, p) = IF p = g[c] THEN Count(f, p) + 1
                       ELSE IF p = f[c] THEN Count(f, p) - 1
                       ELSE Count(f, p)
<1> DEFINE F == {d \in Cell : f[d] = p}
           G == {d \in Cell : g[d] = p}
<1>1. IsFiniteSet(F)
  BY CellFinite, FS_Subset
<1>2. Cardinality(F) \in Nat
  BY <1>1, FS_CardinalityType
<1>3. CASE p = g[c]
  <2>1. G = F \cup {c} /\ c \notin F
    BY <1>3
  <2> QED
    BY <1>1, <1>3, <2>1, FS_AddElement DEF Count
<1>4. CASE p # g[c] /\ p = f[c]
  <2>1. G = F \ {c} /\ c \in F
    BY <1>4
  <2> QED
    BY <1>1, <1>2, <1>4, <2>1, FS_RemoveElement DEF Count
<1>5. CASE p # g[c] /\ p # f[c]
  <2>1. G = F
    BY <1>5
  <2> QED
    BY <1>5, <2>1 DEF Count
<1> QED
  BY <1>3, <1>4, <1>5

-----------------------------------------------------------------------------
(* The memory operations keep the memory part of the invariant.            *)

(* Free is the set of elements of the free list, before and after.         *)
LEMMA FreeElems == Free = Elems(page_free_list) /\ Free' = Elems(page_free_list')
  BY DEF Free, Elems

(* An entry belongs to a page or to a slot.                                *)
LEMMA CellType ==
  ASSUME NEW c \in Cell
  PROVE  c = <<c[1], c[2]>> /\ (c[1] \in Page \/ c[1] \in AS)
  BY DEF Cell

(* The page at the head of the free list is in no table and has no entries.*)
LEMMA HeadFree ==
  ASSUME MemType, Mem, page_free_list # <<>>
  PROVE  LET p == Head(page_free_list) IN
         /\ p \in Page /\ p \in Free /\ p # NoPage
         /\ Bzero(p) = pte
         /\ Refs(p) = {} /\ Count(pte, p) = 0
         /\ Tail(page_free_list) \in Seq(Page)
         /\ NoDup(Tail(page_free_list))
         /\ Elems(Tail(page_free_list)) = Free \ {p}
<1> DEFINE p == Head(page_free_list)
<1>1. /\ p \in Page /\ p \in Free
      /\ Tail(page_free_list) \in Seq(Page)
      /\ NoDup(Tail(page_free_list))
      /\ Elems(Tail(page_free_list)) = Free \ {p}
  BY PopElems, FreeElems DEF MemType, Mem
<1>2. Bzero(p) = pte
  BY <1>1 DEF Bzero, MemType, Mem, CellInv
<1>3. Refs(p) = {}
  BY <1>1 DEF Mem, CellInv, Refs
<1>4. Count(pte, p) = 0
  BY <1>3, CountType DEF Refs
<1>5. p # NoPage
  BY <1>1, ConstAssumption
<1> QED
  BY <1>1, <1>2, <1>3, <1>4, <1>5

(* A page the caller has inserted is in some table.                        *)
LEMMA SettledHeld ==
  ASSUME MemType, Mem, Settled, pp # NoPage
  PROVE  Refs(pp) # {}
<1>1. pp \in Page \ Free /\ pp_ref[pp] # 0
  BY DEF MemType, Mem, HandInv, Settled
<1>2. Cardinality(Refs(pp)) # 0
  BY <1>1 DEF Mem, RefCounts
<1> QED
  BY <1>2, CountType DEF Count, Refs

(* page_alloc of a table, linked from an empty entry (pgdir_walk,          *)
(* env_setup_vm), keeps the memory invariant.                              *)
LEMMA TableMem ==
  ASSUME MemType, Mem,
         NEW c \in Cell, pte[c] = NoPage, c[1] \notin Free,
         NEW lev \in 0..(Depth - 1),
         IF c[1] \in AS THEN lev = 0 ELSE level[c[1]] = lev - 1,
         PopTable(c, lev),
         pp' = pp \/ (pp' = NoPage /\ Settled),
         lost' = lost
  PROVE  /\ MemType' /\ Mem'
         /\ Head(page_free_list) \in Page \ Free'
         /\ Free' \subseteq Free
         /\ pte' = [pte EXCEPT ![c] = Head(page_free_list)]
         /\ level' = [level EXCEPT ![Head(page_free_list)] = lev]
<1> DEFINE h == Head(page_free_list)
<1>1. page_free_list # <<>> /\ page_free_list' = Tail(page_free_list)
  BY DEF PopTable, Pop
<1>2. /\ h \in Page /\ h \in Free /\ h # NoPage
      /\ Refs(h) = {} /\ Count(pte, h) = 0
      /\ page_free_list' \in Seq(Page) /\ NoDup(page_free_list')
      /\ Free' = Free \ {h}
  BY <1>1, HeadFree, FreeElems
<1>3. /\ pte' = [pte EXCEPT ![c] = h]
      /\ level' = [level EXCEPT ![h] = lev]
      /\ pp_ref' = [pp_ref EXCEPT ![h] = 1]
  BY <1>1, HeadFree DEF PopTable, Pop
<1>4. MemType'
  <2>1. pp_ref' \in [Page -> 0..(RefMod - 1)]
    <3>1. 1 \in 0..(RefMod - 1)
      BY ConstFacts
    <3> QED
      BY <1>3, <3>1 DEF MemType
  <2>2. pte' \in [Cell -> Page \cup {NoPage}]
    BY <1>2, <1>3 DEF MemType
  <2>3. level' \in [Page -> 0..Depth]
    <3>1. lev \in 0..Depth
      BY ConstFacts
    <3> QED
      BY <1>3, <3>1 DEF MemType
  <2> QED
    BY <1>2, <2>1, <2>2, <2>3 DEF MemType
<1>5. \A d \in Cell : d # c => pte'[d] = pte[d]
  BY <1>3 DEF MemType
<1>6. pte'[c] = h
  BY <1>3 DEF MemType
<1>7. CellInv'
  BY <1>2, <1>5, <1>6 DEF Mem, CellInv
<1>8. TreeSound'
  <2> SUFFICES ASSUME NEW d \in Cell, pte'[d] # NoPage
               PROVE  /\ IF d[1] \in AS THEN level'[pte'[d]] = 0
                         ELSE /\ level'[d[1]] < Depth
                              /\ level'[pte'[d]] = level'[d[1]] + 1
                      /\ level'[pte'[d]] < Depth =>
                           {e \in Cell : pte'[e] = pte'[d]} = {d}
    BY DEF TreeSound, Refs
  <2>1. CASE d = c
    <3>1. level'[h] = lev
      BY <1>2, <1>3 DEF MemType
    <3>2. c[1] \notin AS => level'[c[1]] = lev - 1
      BY <1>2, <1>3 DEF MemType
    <3>3. \A e \in Cell : pte'[e] = h => e = c
      BY <1>2, <1>5 DEF Refs
    <3> QED
      BY <1>6, <2>1, <3>1, <3>2, <3>3, ConstFacts
  <2>2. CASE d # c
    <3>1. pte'[d] = pte[d] /\ pte[d] # h /\ pte[d] \in Page /\ d[1] # h
      BY <1>2, <1>5, <2>2 DEF Mem, CellInv, MemType
    <3>2. level'[pte[d]] = level[pte[d]] /\ (d[1] \notin AS => level'[d[1]] = level[d[1]])
      BY <1>3, <3>1, CellType DEF MemType
    <3>3. {e \in Cell : pte'[e] = pte[d]} = Refs(pte[d])
      BY <1>5, <1>6, <3>1, ConstFacts DEF Refs
    <3>4. /\ IF d[1] \in AS THEN level[pte[d]] = 0
             ELSE level[d[1]] < Depth /\ level[pte[d]] = level[d[1]] + 1
          /\ level[pte[d]] < Depth => Refs(pte[d]) = {d}
      BY <3>1, ConstFacts DEF Mem, TreeSound
    <3> QED
      BY <3>1, <3>2, <3>3, <3>4
  <2> QED
    BY <2>1, <2>2
<1>9. RefCounts'
  <2> SUFFICES ASSUME NEW p \in Page, p \notin Free'
               PROVE  pp_ref'[p] = Count(pte', p)
    BY DEF RefCounts, Refs, Count
  <2>1. Count(pte', p) = IF p = h THEN Count(pte, p) + 1 ELSE Count(pte, p)
    <3>1. pte[c] # pte'[c] /\ pte[c] # p
      BY <1>2, <1>6, ConstFacts
    <3>2. Count(pte', p) = IF p = pte'[c] THEN Count(pte, p) + 1
                           ELSE IF p = pte[c] THEN Count(pte, p) - 1
                           ELSE Count(pte, p)
      BY <1>5, <3>1, CountPut
    <3> QED
      BY <1>6, <3>1, <3>2
  <2>2. p # h => pp_ref[p] = Count(pte, p)
    BY <1>2 DEF Mem, RefCounts, Refs, Count
  <2> QED
    BY <1>2, <1>3, <2>1, <2>2 DEF MemType
<1>10. HandInv'
  BY <1>2, <1>3 DEF Mem, HandInv, MemType
<1>11. HeldInv'
  <2> SUFFICES ASSUME NEW p \in Page \ (Free' \cup lost' \cup {pp'})
               PROVE  \E d \in Cell : pte'[d] = p
    BY DEF HeldInv, Refs
  <2>1. CASE p = h
    BY <1>6, <2>1
  <2>2. CASE p # h
    <3>1. Refs(p) # {}
      BY <1>2, <2>2, SettledHeld DEF Mem, HeldInv
    <3>2. PICK d \in Cell : pte[d] = p
      BY <3>1 DEF Refs
    <3> QED
      BY <1>5, <3>2, ConstAssumption
  <2> QED
    BY <2>1, <2>2
<1> QED
  BY <1>2, <1>3, <1>4, <1>7, <1>8, <1>9, <1>10, <1>11 DEF Mem

(* page_alloc for the caller keeps the memory invariant.                   *)
LEMMA AllocMem ==
  ASSUME MemType, Mem, Settled, Pop(0, Depth),
         pte' = Bzero(Head(page_free_list)), pp' = Head(page_free_list),
         lost' = lost
  PROVE  /\ MemType' /\ Mem'
         /\ pp' \in Page \ Free' /\ pte' = pte
<1> DEFINE h == Head(page_free_list)
<1>1. page_free_list # <<>> /\ page_free_list' = Tail(page_free_list)
  BY DEF Pop
<1>2. /\ h \in Page /\ h \in Free /\ h # NoPage
      /\ Refs(h) = {} /\ Count(pte, h) = 0
      /\ page_free_list' \in Seq(Page) /\ NoDup(page_free_list')
      /\ Free' = Free \ {h}
      /\ pte' = pte
  BY <1>1, HeadFree, FreeElems
<1>3. /\ level' = [level EXCEPT ![h] = Depth]
      /\ pp_ref' = [pp_ref EXCEPT ![h] = 0]
  BY DEF Pop
<1>4. MemType'
  <2>1. 0 \in 0..(RefMod - 1) /\ Depth \in 0..Depth
    BY ConstFacts
  <2>2. pp_ref' \in [Page -> 0..(RefMod - 1)] /\ level' \in [Page -> 0..Depth]
    BY <1>3, <2>1 DEF MemType
  <2> QED
    BY <1>2, <2>2 DEF MemType
<1>5. CellInv'
  BY <1>2 DEF Mem, CellInv
<1>6. TreeSound'
  <2>1. ASSUME NEW d \in Cell, pte[d] # NoPage
        PROVE  level'[pte[d]] = level[pte[d]] /\ level'[d[1]] = level[d[1]]
    BY <1>2, <1>3, <2>1 DEF Mem, CellInv, MemType
  <2> QED
    BY <1>2, <2>1 DEF Mem, TreeSound, Refs
<1>7. RefCounts'
  <2>1. ASSUME NEW p \in Page \ Free' PROVE pp_ref'[p] = Count(pte, p)
    BY <1>2, <1>3 DEF Mem, RefCounts, Refs, Count, MemType
  <2> QED
    BY <1>2, <2>1 DEF RefCounts, Refs, Count
<1>8. HandInv'
  BY <1>2, <1>3 DEF HandInv, MemType
<1>9. HeldInv'
  <2>1. ASSUME NEW p \in Page \ (Free' \cup lost' \cup {pp'}) PROVE Refs(p) # {}
    BY <1>2, SettledHeld, ConstFacts DEF Mem, HeldInv
  <2> QED
    BY <1>2, <2>1 DEF HeldInv, Refs
<1> QED
  BY <1>2, <1>4, <1>5, <1>6, <1>7, <1>8, <1>9 DEF Mem

(* Writing x into a cell: a page is unmapped, mapped, or both.             *)
LEMMA WriteMem ==
  ASSUME MemType, Mem, RefFits',
         NEW c \in Cell, NEW x \in {NoPage, pp}, pte[c] # x,
         x # NoPage => c[1] \in Page \ Free /\ level[c[1]] = LeafLevel,
         pte[c] # NoPage =>
           pte[c] # pp /\ \A i \in Index : pte[<<pte[c], i>>] = NoPage,
         pte' = [pte EXCEPT ![c] = x],
         pp_ref' = LET r == IF pte[c] = NoPage THEN pp_ref
                            ELSE Decref(pp_ref, pte[c])
                   IN IF x = NoPage THEN r ELSE Incref(r, x),
         page_free_list' = IF pte[c] = NoPage THEN page_free_list
                           ELSE ListAfterDecref(pte[c]),
         pp' = pp, level' = level, lost' = lost
  PROVE  /\ MemType' /\ Mem'
         /\ Free \subseteq Free' /\ Free' \subseteq Free \cup {pte[c]}
<1> DEFINE y == pte[c]
<1>1. /\ \A d \in Cell : d # c => pte'[d] = pte[d]
      /\ pte'[c] = x
      /\ x \in Page \cup {NoPage} /\ y \in Page \cup {NoPage}
  BY DEF MemType
<1>2. y # NoPage => y \in Page \ Free /\ pp_ref[y] = Count(pte, y) /\ Count(pte, y) > 0
  <2> SUFFICES ASSUME y # NoPage
               PROVE  y \in Page \ Free /\ pp_ref[y] = Count(pte, y) /\ Count(pte, y) > 0
    OBVIOUS
  <2>1. y \in Page \ Free
    BY <1>1 DEF Mem, CellInv
  <2>2. pp_ref[y] = Count(pte, y)
    BY <2>1 DEF Mem, RefCounts, Refs, Count
  <2>3. Count(pte, y) # 0 /\ Count(pte, y) \in Nat
    BY CountType
  <2> QED
    BY <2>1, <2>2, <2>3
<1>3. /\ page_free_list' \in Seq(Page) /\ NoDup(page_free_list')
      /\ Free' = IF y # NoPage /\ Count(pte, y) = 1 THEN Free \cup {y} ELSE Free
  <2>1. CASE y = NoPage \/ Count(pte, y) # 1
    <3>1. page_free_list' = page_free_list
      BY <1>2, <2>1 DEF ListAfterDecref
    <3> QED
      BY <2>1, <3>1, FreeElems DEF MemType, Mem
  <2>2. CASE y # NoPage /\ Count(pte, y) = 1
    <3>1. page_free_list' = <<y>> \o page_free_list
      BY <1>2, <2>2 DEF ListAfterDecref
    <3>2. /\ page_free_list \in Seq(Page) /\ NoDup(page_free_list)
          /\ y \in Page /\ y \notin Elems(page_free_list)
      BY <1>2, <2>2, FreeElems DEF MemType, Mem
    <3>3. /\ <<y>> \o page_free_list \in Seq(Page) /\ NoDup(<<y>> \o page_free_list)
          /\ Elems(<<y>> \o page_free_list) = Elems(page_free_list) \cup {y}
      BY ONLY <3>2, PushElems
    <3> QED
      BY <2>2, <3>1, <3>3, FreeElems
  <2> QED
    BY <2>1, <2>2
<1>4. \A p \in Page : Count(pte', p) = IF p = x THEN Count(pte, p) + 1
                                      ELSE IF p = y THEN Count(pte, p) - 1
                                      ELSE Count(pte, p)
  <2> SUFFICES ASSUME NEW p \in Page
               PROVE  Count(pte', p) = IF p = x THEN Count(pte, p) + 1
                                       ELSE IF p = y THEN Count(pte, p) - 1
                                       ELSE Count(pte, p)
    OBVIOUS
  <2>1. pte[c] # pte'[c]
    BY <1>1
  <2>2. Count(pte', p) = IF p = pte'[c] THEN Count(pte, p) + 1
                         ELSE IF p = pte[c] THEN Count(pte, p) - 1
                         ELSE Count(pte, p)
    BY ONLY <1>1, <2>1, CountPut
  <2> QED
    BY <1>1, <2>2
<1>5. pp_ref' \in [Page -> 0..(RefMod - 1)]
  <2> DEFINE r == IF y = NoPage THEN pp_ref ELSE Decref(pp_ref, y)
  <2>1. r \in [Page -> 0..(RefMod - 1)]
    <3>1. y # NoPage => pp_ref[y] - 1 \in 0..(RefMod - 1)
      BY <1>2, ConstFacts DEF MemType
    <3> QED
      BY <1>2, <3>1 DEF Decref, MemType
  <2>2. ASSUME NEW p \in Page PROVE (r[p] + 1) % RefMod \in 0..(RefMod - 1)
    BY <2>1, ConstFacts
  <2> HIDE DEF r
  <2>3. x # NoPage => Incref(r, x) \in [Page -> 0..(RefMod - 1)]
    BY <1>1, <2>1, <2>2 DEF Incref
  <2> QED
    BY <2>1, <2>3 DEF r
<1>6. MemType'
  BY <1>1, <1>3, <1>5 DEF MemType
<1>7. CellInv'
  <2> SUFFICES ASSUME NEW d \in Cell
               PROVE  pte'[d] \notin Free' /\ (d[1] \in Free' => pte'[d] = NoPage)
    BY DEF CellInv
  <2>1. pte[d] \notin Free /\ (d[1] \in Free => pte[d] = NoPage)
    BY DEF Mem, CellInv
  <2>2. NoPage \notin Free' /\ pp \notin Free'
    <3>1. NoPage \notin Free /\ pp \notin Free
      BY FreeElems, ConstFacts DEF MemType, Mem, HandInv, Elems
    <3> QED
      BY <1>3, <3>1
  <2>3. Free' # Free => \A e \in Cell : e # c => pte'[e] # y
    <3> SUFFICES ASSUME Count(pte, y) = 1, y # NoPage, NEW e \in Cell, e # c, pte[e] = y
                 PROVE  FALSE
      BY <1>1, <1>3
    <3>1. y \in Page /\ y # x
      BY <1>2
    <3>2. Count(pte', y) = 0
      BY ONLY <1>4, <3>1, Count(pte, y) = 1
    <3>3. pte'[e] = y
      BY <1>1
    <3> QED
      BY ONLY <3>2, <3>3, CountType, e \in Cell
  <2>4. y # NoPage /\ d[1] = y => pte[d] = NoPage
    <3> SUFFICES ASSUME y # NoPage, d[1] = y PROVE pte[d] = NoPage
      OBVIOUS
    <3>1. y \in Page
      BY <1>2
    <3>2. d \in Page \X Index
      BY <3>1, ConstFacts DEF Cell
    <3>3. d = <<y, d[2]>> /\ d[2] \in Index
      BY <3>2
    <3> QED
      BY <3>3
  <2>5. CASE d = c
    <3>1. c[1] \in Free' => x = NoPage
      <4>1. y = NoPage => Free' = Free
        BY <1>3
      <4>2. y # NoPage => c[1] # y
        BY <2>4, <2>5
      <4> QED
        BY <1>3, <4>1, <4>2
    <3> QED
      BY <1>1, <2>2, <2>5, <3>1
  <2>6. CASE d # c
    BY <1>1, <1>3, <2>1, <2>3, <2>4, <2>6
  <2> QED
    BY <2>5, <2>6
<1>8. TreeSound'
  <2> SUFFICES ASSUME NEW d \in Cell, pte'[d] # NoPage
               PROVE  /\ IF d[1] \in AS THEN level[pte'[d]] = 0
                         ELSE /\ level[d[1]] < Depth
                              /\ level[pte'[d]] = level[d[1]] + 1
                      /\ level[pte'[d]] < Depth =>
                           {e \in Cell : pte'[e] = pte'[d]} = {d}
    BY DEF TreeSound, Refs
  <2>1. x # NoPage => x = pp /\ level[x] = Depth
    BY DEF Mem, HandInv
  <2>2. CASE d = c
    BY <1>1, <2>1, <2>2, ConstFacts DEF LeafLevel
  <2>3. CASE d # c
    <3>1. pte'[d] = pte[d] /\ pte[d] # NoPage
      BY <1>1, <2>3
    <3>2. /\ IF d[1] \in AS THEN level[pte[d]] = 0
             ELSE level[d[1]] < Depth /\ level[pte[d]] = level[d[1]] + 1
          /\ level[pte[d]] < Depth => {e \in Cell : pte[e] = pte[d]} = {d}
      BY <3>1 DEF Mem, TreeSound, Refs
    <3>3. level[pte[d]] < Depth => x # pte[d]
      BY <2>1, <3>1, ConstFacts
    <3>4. ASSUME level[pte[d]] < Depth, NEW e \in Cell, pte'[e] = pte[d] PROVE e = d
      BY <1>1, <3>2, <3>3, <3>4
    <3> QED
      BY <3>1, <3>2, <3>4
  <2> QED
    BY <2>2, <2>3
<1>9. RefCounts'
  <2> SUFFICES ASSUME NEW p \in Page, p \notin Free'
               PROVE  pp_ref'[p] = Count(pte', p)
    BY DEF RefCounts, Refs, Count
  <2>1. /\ p \notin Free /\ pp_ref[p] = Count(pte, p)
        /\ Count(pte, p) \in Nat
    BY <1>3, CountType DEF Mem, RefCounts, Refs, Count
  <2>2. Count(pte', p) < RefMod
    BY DEF RefFits, Refs, Count
  <2>3. CASE p = x
    <3>1. pp_ref'[p] = (pp_ref[p] + 1) % RefMod
      BY <1>1, <2>3, ConstFacts DEF Incref, Decref, MemType
    <3>2. Count(pte', p) = pp_ref[p] + 1
      BY <1>4, <2>1, <2>3
    <3>3. (pp_ref[p] + 1) % RefMod = pp_ref[p] + 1
      BY <2>1, <2>2, <3>2, ConstFacts
    <3> QED
      BY <3>1, <3>2, <3>3
  <2>4. CASE p # x /\ p = y
    <3>1. y # NoPage
      BY <2>4, ConstFacts
    <3>2. Count(pte, y) > 1
      BY <1>2, <1>3, <2>1, <2>4, <3>1
    <3>3. pp_ref'[p] = pp_ref[p] - 1
      BY <1>1, <2>1, <2>4, <3>1, <3>2 DEF Incref, Decref, MemType
    <3> QED
      BY <1>4, <2>1, <2>4, <3>3
  <2>5. CASE p # x /\ p # y
    <3>1. pp_ref'[p] = pp_ref[p]
      BY <1>1, <2>5 DEF Incref, Decref, MemType
    <3> QED
      BY <1>4, <2>1, <2>5, <3>1
  <2> QED
    BY <2>3, <2>4, <2>5
<1>10. HandInv'
  BY <1>3 DEF Mem, HandInv
<1>11. HeldInv'
  <2> SUFFICES ASSUME NEW p \in Page \ (Free' \cup lost \cup {pp})
               PROVE  \E d \in Cell : pte'[d] = p
    BY DEF HeldInv, Refs
  <2>1. p \notin Free /\ Refs(p) # {}
    BY <1>3 DEF Mem, HeldInv
  <2>2. PICK d \in Cell : pte[d] = p
    BY <2>1 DEF Refs
  <2>3. CASE d # c
    BY <1>1, <2>2, <2>3
  <2>4. CASE d = c
    <3>1. p = y /\ y # NoPage /\ p # x
      BY <2>2, <2>4, ConstFacts
    <3>2. Count(pte, p) > 1
      <4>1. Count(pte, y) # 1
        BY <1>3, <3>1
      <4> QED
        BY ONLY <1>2, <3>1, <4>1, CountType
    <3>3. Count(pte', p) # 0
      BY ONLY <1>4, <3>1, <3>2, CountType, p \in Page
    <3> QED
      BY ONLY <3>3, CountType
  <2> QED
    BY <2>3, <2>4
<1> QED
  BY <1>3, <1>6, <1>7, <1>8, <1>9, <1>10, <1>11 DEF Mem

(* Steps that leave tables, counts and free list alone.                    *)
LEMMA SameMem ==
  ASSUME MemType, Mem,
         UNCHANGED <<page_free_list, pp_ref, pte, level>>,
         pp' \in Page \cup {NoPage}, HandInv',
         lost \subseteq lost', lost' \subseteq Page,
         pp' = pp \/ pp = NoPage \/ Settled \/ pp \in lost'
  PROVE  MemType' /\ Mem'
<1>1. MemType'
  BY DEF MemType
<1>2. NoDup(page_free_list)' /\ CellInv' /\ TreeSound' /\ RefCounts'
  BY DEF Mem, NoDup, CellInv, TreeSound, RefCounts, Refs, Free
<1>3. HeldInv'
  <2> SUFFICES ASSUME NEW p \in Page \ (Free \cup lost' \cup {pp'})
               PROVE  Refs(p) # {}
    BY DEF HeldInv, Refs, Free
  <2>1. CASE p = pp
    BY <2>1, SettledHeld, ConstFacts
  <2>2. CASE p # pp
    BY <2>2 DEF Mem, HeldInv
  <2> QED
    BY <2>1, <2>2
<1> QED
  BY <1>1, <1>2, <1>3 DEF Mem

(* TypeOK is the type of the memory and those of the two calls.            *)
LEMMA TypeSplit ==
  /\ TypeOK <=> /\ MemType
               /\ walk \in Walk \cup {NoWalk}
               /\ freeing \in Freeing \cup {NotFreeing}
  /\ TypeOK' <=> /\ MemType'
                /\ walk' \in Walk \cup {NoWalk}
                /\ freeing' \in Freeing \cup {NotFreeing}
BY DEF TypeOK, MemType

(* The entry a walk looks at.                                              *)
LEMMA EntryFacts ==
  ASSUME IInv, walk # NoWalk
  PROVE  /\ walk \in Walk
         /\ walk.t \in Page \ Free /\ walk.l \in 0..(Depth - 1)
         /\ walk.va \in [Level -> Index]
         /\ Entry \in Cell /\ Entry[1] = walk.t /\ Entry[1] \notin AS
         /\ level[walk.t] = walk.l
         /\ pte[Entry] \in Page \cup {NoPage}
         /\ pte[Entry] # NoPage =>
              pte[Entry] \notin Free /\ level[pte[Entry]] = walk.l + 1
<1>1. walk \in Walk /\ level[walk.t] = walk.l /\ walk.t \notin Free
  BY DEF IInv, TypeOK, WalkInv
<1>2. walk.t \in Page /\ walk.l \in Level /\ walk.va \in [Level -> Index]
  BY <1>1 DEF Walk
<1>3. Entry \in Cell /\ Entry[1] = walk.t /\ Entry[1] \notin AS
  BY <1>2, ConstFacts DEF Entry, Cell
<1>4. pte[Entry] \in Page \cup {NoPage}
  BY <1>3 DEF IInv, TypeOK
<1>5. pte[Entry] # NoPage =>
        pte[Entry] \notin Free /\ level[pte[Entry]] = walk.l + 1
  BY <1>1, <1>3 DEF IInv, Mem, CellInv, TreeSound
<1> QED
  BY <1>1, <1>2, <1>3, <1>4, <1>5 DEF Level

(* A page of data holds no entries.                                        *)
LEMMA DataEmpty ==
  ASSUME MemType, Mem, NEW p \in Page, level[p] = Depth, NEW i \in Index
  PROVE  pte[<<p, i>>] = NoPage
<1>1. <<p, i>> \in Cell
  BY DEF Cell
<1>2. pte[<<p, i>>] # NoPage => level[p] < Depth
  BY <1>1, ConstFacts DEF Mem, TreeSound
<1> QED
  BY <1>2, ConstFacts

(* A call starts at the directory of its address space.                    *)
LEMMA StartFacts ==
  ASSUME IInv, NEW op \in WalkOp, NEW a \in AS, NEW va \in [Level -> Index],
         Live(a), StartWalk(op, a, va)
  PROVE  /\ walk' \in Walk /\ walk' # NoWalk
         /\ walk'.op = op /\ walk'.as = a /\ walk'.va = va
         /\ walk'.t = pte[TTBR0(a)] /\ walk'.l = 0
         /\ walk'.t \in Page \ Free /\ level[walk'.t] = 0
<1>1. TTBR0(a) \in Cell /\ TTBR0(a)[1] = a
  BY DEF Cell, TTBR0
<1>2. pte[TTBR0(a)] \in Page \ Free /\ level[pte[TTBR0(a)]] = 0
  BY <1>1 DEF IInv, TypeOK, Mem, CellInv, TreeSound, Live
<1>3. 0 \in Level
  BY ConstFacts DEF Level
<1>4. walk' \in Walk
  BY <1>2, <1>3 DEF StartWalk, Walk
<1> QED
  BY <1>2, <1>4, NullAssumption DEF StartWalk

-----------------------------------------------------------------------------
(* The invariant holds initially and every step keeps it.                  *)

(* page_init establishes the invariant.                                    *)
LEMMA InitInv == ASSUME Init PROVE IInv
<1>1. Free = Page
  BY ConstAssumption DEF Init, Free
<1>2. TypeOK
  <2>1. level \in [Page -> 0..Depth] /\ Depth \in 0..Depth
    BY ConstFacts DEF Init
  <2> QED
    BY <2>1, ConstAssumption DEF Init, TypeOK
<1>3. Mem
  BY <1>1, ConstAssumption
     DEF Init, Mem, NoDup, CellInv, TreeSound, RefCounts, HandInv, HeldInv
<1> QED
  BY <1>2, <1>3 DEF Init, IInv, WalkInv, FreeingInv

(* The start of any call keeps the invariant.                              *)
LEMMA CallInv ==
  ASSUME SelfDestroyOnly, IInv, Call
  PROVE  IInv'
<1> USE TypeSplit DEF IInv
<1>1. CASE page_alloc
  <2>1. /\ Pop(0, Depth) /\ pte' = Bzero(Head(page_free_list))
        /\ pp' = Head(page_free_list) /\ lost' = lost /\ Settled
        /\ walk' = NoWalk /\ freeing' = NotFreeing
        /\ walk = NoWalk /\ freeing = NotFreeing
    BY <1>1 DEF page_alloc, Idle
  <2>2. MemType' /\ Mem'
    BY <2>1, AllocMem
  <2> QED
    BY <2>1, <2>2 DEF WalkInv, FreeingInv
<1>2. ASSUME NEW a \in AS, NEW va \in VA, page_lookup(a, va)
      PROVE  IInv'
  <2>1. /\ Idle /\ Settled /\ Live(a) /\ StartWalk("page_lookup", a, va)
        /\ pp' = NoPage /\ freeing' = freeing
        /\ UNCHANGED <<page_free_list, pp_ref, pte, level, lost>>
    BY <1>2 DEF page_lookup
  <2>2. MemType' /\ Mem'
    BY <2>1, SameMem DEF HandInv, MemType
  <2>3. /\ walk' \in Walk /\ walk' # NoWalk /\ walk'.op = "page_lookup"
        /\ walk'.l = 0 /\ walk'.t \in Page \ Free /\ level[walk'.t] = 0
    BY <2>1, StartFacts, ConstAssumption DEF WalkOp
  <2>4. walk'.as = a /\ pte'[TTBR0(walk'.as)] # NoPage
    <3>1. walk'.as = a
      BY <2>1, StartFacts, ConstAssumption DEF WalkOp
    <3> QED
      BY <2>1, <3>1 DEF Live
  <2> QED
    BY <2>1, <2>2, <2>3, <2>4
       DEF WalkInv, FreeingInv, Idle, Free, Inserting, Live, TTBR0
<1>3. ASSUME NEW a \in AS, NEW va \in VA, page_insert(a, va)
      PROVE  IInv'
  <2>1. /\ Idle /\ Live(a) /\ StartWalk("page_insert", a, va)
        /\ pp # NoPage /\ pp' = pp /\ freeing' = freeing
        /\ UNCHANGED <<page_free_list, pp_ref, pte, level, lost>>
    BY <1>3 DEF page_insert
  <2>2. MemType' /\ Mem'
    BY <2>1, SameMem DEF HandInv, MemType, Mem, Free
  <2>3. /\ walk' \in Walk /\ walk' # NoWalk /\ walk'.op = "page_insert"
        /\ walk'.l = 0 /\ walk'.t \in Page \ Free /\ level[walk'.t] = 0
    BY <2>1, StartFacts, ConstAssumption DEF WalkOp
  <2>4. walk'.as = a /\ pte'[TTBR0(walk'.as)] # NoPage
    <3>1. walk'.as = a
      BY <2>1, StartFacts, ConstAssumption DEF WalkOp
    <3> QED
      BY <2>1, <3>1 DEF Live
  <2> QED
    BY <2>1, <2>2, <2>3, <2>4
       DEF WalkInv, FreeingInv, Idle, Free, Inserting, Live, TTBR0
<1>4. ASSUME NEW a \in AS, NEW va \in VA, page_remove(a, va)
      PROVE  IInv'
  <2>1. /\ Idle /\ Settled /\ Live(a) /\ StartWalk("page_remove", a, va)
        /\ pp' = NoPage /\ freeing' = freeing
        /\ UNCHANGED <<page_free_list, pp_ref, pte, level, lost>>
    BY <1>4 DEF page_remove
  <2>2. MemType' /\ Mem'
    BY <2>1, SameMem DEF HandInv, MemType
  <2>3. /\ walk' \in Walk /\ walk' # NoWalk /\ walk'.op = "page_remove"
        /\ walk'.l = 0 /\ walk'.t \in Page \ Free /\ level[walk'.t] = 0
    BY <2>1, StartFacts, ConstAssumption DEF WalkOp
  <2>4. walk'.as = a /\ pte'[TTBR0(walk'.as)] # NoPage
    <3>1. walk'.as = a
      BY <2>1, StartFacts, ConstAssumption DEF WalkOp
    <3> QED
      BY <2>1, <3>1 DEF Live
  <2> QED
    BY <2>1, <2>2, <2>3, <2>4
       DEF WalkInv, FreeingInv, Idle, Free, Inserting, Live, TTBR0
<1>5. ASSUME NEW a \in AS, env_setup_vm(a)
      PROVE  IInv'
  <2>1. /\ Idle /\ Settled /\ pte[TTBR0(a)] = NoPage
        /\ PopTable(TTBR0(a), 0) /\ pp' = NoPage
        /\ walk' = walk /\ freeing' = freeing /\ lost' = lost
    BY <1>5 DEF env_setup_vm, Live
  <2>2. TTBR0(a) \in Cell /\ TTBR0(a)[1] = a /\ 0 \in 0..(Depth - 1)
    BY ConstFacts DEF TTBR0, Cell
  <2>3. a \notin Free
    <3>1. Free \subseteq Page
      BY DEF TypeOK, Free
    <3> QED
      BY <3>1, ConstFacts
  <2>4. MemType' /\ Mem'
    BY <2>1, <2>2, <2>3, TableMem
  <2> QED
    BY <2>1, <2>4 DEF WalkInv, FreeingInv, Idle
<1>6. ASSUME NEW c \in AS, NEW e \in AS, env_free(c, e)
      PROVE  IInv'
  <2>1. /\ Idle /\ Settled /\ pte[TTBR0(e)] # NoPage /\ c = e
        /\ freeing' = [c |-> c, e |-> e, l |-> 0,
                       tab |-> [m \in Level |-> pte[TTBR0(c)]],
                       pten |-> [m \in Level |-> 0]]
        /\ pp' = NoPage /\ walk' = walk
        /\ UNCHANGED <<page_free_list, pp_ref, pte, level, lost>>
    BY <1>6 DEF env_free, SelfDestroyOnly, Live
  <2>2. MemType' /\ Mem'
    BY <2>1, SameMem DEF HandInv, MemType
  <2>3. TTBR0(e) \in Cell /\ TTBR0(e)[1] = e /\ 0 \in Level
    BY ConstFacts DEF TTBR0, Cell, Level
  <2>4. pte[TTBR0(e)] \in Page /\ level[pte[TTBR0(e)]] = 0
    BY <2>1, <2>3 DEF TypeOK, Mem, TreeSound
  <2>5. freeing' \in Freeing
    <3>1. 0 \in 0..PTE2PT
      BY ConstFacts
    <3> QED
      BY <2>1, <2>3, <2>4, <3>1 DEF Freeing
  <2>6. FreeingInv'
    BY <2>1, <2>3, <2>4 DEF FreeingInv, Idle
  <2> QED
    BY <2>1, <2>2, <2>5, <2>6 DEF WalkInv, Idle
<1> QED
  BY <1>1, <1>2, <1>3, <1>4, <1>5, <1>6 DEF Call

(* Every step of page_insert, page_remove and page_lookup keeps it.        *)
LEMMA WalkStepInv ==
  ASSUME IInv, RefFits', WalkStep
  PROVE  IInv'
<1> USE TypeSplit DEF IInv
<1>1. walk # NoWalk
  BY DEF WalkStep, WalkDown, WalkCreate, WalkNoMem, WalkAbsent, InsertSame,
         InsertReplace, InsertMap, LookupFound, RemoveLeaf, Inserting
<1>2. /\ walk \in Walk
      /\ walk.t \in Page \ Free /\ walk.l \in 0..(Depth - 1)
      /\ walk.va \in [Level -> Index]
      /\ Entry \in Cell /\ Entry[1] = walk.t /\ Entry[1] \notin AS
      /\ level[walk.t] = walk.l
      /\ pte[Entry] \in Page \cup {NoPage}
      /\ pte[Entry] # NoPage =>
           pte[Entry] \notin Free /\ level[pte[Entry]] = walk.l + 1
  BY <1>1, EntryFacts
<1>3. /\ Inserting => pp # NoPage /\ freeing = NotFreeing
      /\ ~Inserting => pp = NoPage
      /\ freeing # NotFreeing => walk.op = "page_remove"
  BY <1>1 DEF WalkInv, FreeingInv
<1>15. /\ walk.as \in AS /\ Live(walk.as)
       /\ TTBR0(walk.as) \in Cell /\ TTBR0(walk.as) # Entry
  <2>1. walk.as \in AS /\ Live(walk.as)
    BY <1>1, <1>2 DEF WalkInv, Walk
  <2> QED
    BY <1>2, <2>1 DEF TTBR0, Cell
<1>4. pte[Entry] # NoPage /\ AtLeaf =>
        \A i \in Index : pte[<<pte[Entry], i>>] = NoPage
  <2> SUFFICES ASSUME pte[Entry] # NoPage, AtLeaf, NEW i \in Index
               PROVE  pte[<<pte[Entry], i>>] = NoPage
    OBVIOUS
  <2>1. pte[Entry] \in Page /\ level[pte[Entry]] = Depth
    BY <1>2, ConstFacts DEF AtLeaf, LeafLevel
  <2> QED
    BY <2>1, DataEmpty
(* The entry, when env_free is waiting for the walk. *)
<1>5. freeing # NotFreeing =>
        /\ freeing.l = LeafLevel
        /\ walk.t = freeing.tab[walk.l]
        /\ Entry = IF AtLeaf THEN <<freeing.tab[LeafLevel], freeing.pten[LeafLevel] - 1>>
                   ELSE <<freeing.tab[walk.l], freeing.pten[walk.l]>>
        /\ pte[Entry] # NoPage
        /\ ~AtLeaf => pte[Entry] = freeing.tab[walk.l + 1]
  <2> SUFFICES ASSUME freeing # NotFreeing
               PROVE  /\ freeing.l = LeafLevel
                      /\ walk.t = freeing.tab[walk.l]
                      /\ Entry = IF AtLeaf
                                 THEN <<freeing.tab[LeafLevel], freeing.pten[LeafLevel] - 1>>
                                 ELSE <<freeing.tab[walk.l], freeing.pten[walk.l]>>
                      /\ pte[Entry] # NoPage
                      /\ ~AtLeaf => pte[Entry] = freeing.tab[walk.l + 1]
    OBVIOUS
  <2>1. /\ freeing.l = LeafLevel
        /\ walk.t = freeing.tab[walk.l]
        /\ \A m \in 0..(LeafLevel - 1) : walk.va[m] = freeing.pten[m]
        /\ walk.va[LeafLevel] = freeing.pten[LeafLevel] - 1
        /\ pte[<<freeing.tab[LeafLevel], walk.va[LeafLevel]>>] # NoPage
        /\ \A m \in 0..(LeafLevel - 1) :
             pte[<<freeing.tab[m], freeing.pten[m]>>] = freeing.tab[m + 1]
        /\ \A m \in 0..LeafLevel : level[freeing.tab[m]] = m
    BY <1>1 DEF FreeingInv
  <2>2. CASE AtLeaf
    BY <2>1, <2>2 DEF AtLeaf, Entry
  <2>3. CASE ~AtLeaf
    <3>1. walk.l \in 0..(LeafLevel - 1) /\ walk.l + 1 \in 0..LeafLevel
      BY <1>2, <2>3, ConstFacts DEF AtLeaf, LeafLevel
    <3>2. Entry = <<freeing.tab[walk.l], freeing.pten[walk.l]>>
      BY <2>1, <3>1 DEF Entry
    <3>3. pte[Entry] = freeing.tab[walk.l + 1]
      BY <2>1, <3>1, <3>2
    <3>4. freeing.tab[walk.l + 1] \in Page
      BY <3>1, ConstFacts DEF TypeOK, Freeing, Level, LeafLevel
    <3> QED
      BY <2>1, <2>3, <3>2, <3>3, <3>4, ConstFacts
  <2> QED
    BY <2>2, <2>3
<1>6. CASE WalkDown
  <2>1. /\ ~AtLeaf /\ pte[Entry] # NoPage
        /\ walk' = [walk EXCEPT !.t = pte[Entry], !.l = walk.l + 1]
        /\ pp' = pp /\ freeing' = freeing
        /\ UNCHANGED <<page_free_list, pp_ref, pte, level, lost>>
    BY <1>6 DEF WalkDown
  <2>2. MemType' /\ Mem'
    BY <2>1, SameMem DEF HandInv, MemType, Mem, Free
  <2>3. walk.l + 1 \in Level
    BY <1>2, <2>1, ConstFacts DEF AtLeaf, LeafLevel, Level
  <2>4. /\ walk' \in Walk
        /\ walk'.op = walk.op /\ walk'.as = walk.as /\ walk'.va = walk.va
        /\ walk'.t = pte[Entry] /\ walk'.l = walk.l + 1
    BY <1>2, <2>1, <2>3 DEF Walk
  <2>5. WalkInv'
    BY <1>1, <1>2, <1>3, <1>15, <2>1, <2>4 DEF WalkInv, Free, Inserting, Live, TTBR0
  <2>6. FreeingInv'
    <3> SUFFICES ASSUME freeing # NotFreeing PROVE FreeingInv'
      BY <2>1 DEF FreeingInv
    <3>1. walk'.t = freeing.tab[walk'.l] /\ walk' # NoWalk
      BY <1>5, <2>1, <2>4, NullAssumption
    <3> QED
      BY <1>1, <2>1, <2>4, <3>1 DEF FreeingInv
  <2> QED
    BY <2>1, <2>2, <2>4, <2>5, <2>6
<1>7. CASE WalkCreate
  <2>1. /\ Inserting /\ ~AtLeaf /\ pte[Entry] = NoPage
        /\ PopTable(Entry, walk.l + 1)
        /\ walk' = [walk EXCEPT !.t = Head(page_free_list), !.l = walk.l + 1]
        /\ freeing' = freeing /\ pp' = pp /\ lost' = lost
    BY <1>7 DEF WalkCreate
  <2>2. walk.l + 1 \in 0..(Depth - 1)
    BY <1>2, <2>1, ConstFacts DEF AtLeaf, LeafLevel
  <2>3. level[Entry[1]] = walk.l + 1 - 1
    BY <1>2
  <2>4. /\ MemType' /\ Mem'
        /\ Head(page_free_list) \in Page \ Free'
        /\ level' = [level EXCEPT ![Head(page_free_list)] = walk.l + 1]
        /\ pte' = [pte EXCEPT ![Entry] = Head(page_free_list)]
    BY <1>2, <2>1, <2>2, <2>3, TableMem
  <2>5. /\ walk' \in Walk
        /\ walk'.op = walk.op /\ walk'.as = walk.as
        /\ walk'.t = Head(page_free_list) /\ walk'.l = walk.l + 1
    BY <1>2, <2>1, <2>2, <2>4 DEF Walk, Level
  <2>6. level'[walk'.t] = walk'.l
    BY <2>4, <2>5 DEF TypeOK
  <2>7. pte'[TTBR0(walk'.as)] # NoPage
    BY <1>15, <2>4, <2>5 DEF TypeOK, Live
  <2>8. WalkInv'
    BY <1>3, <2>1, <2>4, <2>5, <2>6, <2>7 DEF WalkInv, Inserting, Live, TTBR0
  <2> QED
    BY <1>3, <2>1, <2>4, <2>5, <2>8 DEF FreeingInv
<1>8. CASE WalkNoMem
  <2>1. /\ Inserting /\ walk' = NoWalk /\ pp' = NoPage
        /\ lost' = IF Settled THEN lost ELSE lost \cup {pp}
        /\ freeing' = freeing
        /\ UNCHANGED <<page_free_list, pp_ref, pte, level>>
    BY <1>8 DEF WalkNoMem
  <2>2. pp \in Page
    BY <1>3, <2>1 DEF TypeOK
  <2>3. /\ lost \subseteq lost' /\ lost' \subseteq Page
        /\ Settled \/ pp \in lost'
    BY <2>1, <2>2 DEF TypeOK
  <2>4. MemType' /\ Mem'
    BY <2>1, <2>3, SameMem DEF HandInv
  <2> QED
    BY <1>3, <2>1, <2>4 DEF WalkInv, FreeingInv
<1>9. CASE WalkAbsent
  <2>1. /\ pte[Entry] = NoPage /\ walk' = NoWalk /\ pp' = pp /\ freeing' = freeing
        /\ UNCHANGED <<page_free_list, pp_ref, pte, level, lost>>
    BY <1>9 DEF WalkAbsent
  <2>2. MemType' /\ Mem'
    BY <2>1, SameMem DEF HandInv, MemType, Mem, Free
  <2>3. freeing = NotFreeing
    BY <1>5, <2>1
  <2> QED
    BY <2>1, <2>2, <2>3 DEF WalkInv, FreeingInv
<1>10. CASE InsertSame
  <2>1. /\ walk.op = "page_insert" /\ walk' = NoWalk /\ pp' = pp /\ freeing' = freeing
        /\ UNCHANGED <<page_free_list, pp_ref, pte, level, lost>>
    BY <1>10 DEF InsertSame
  <2>3. Inserting
    BY <1>10 DEF InsertSame, Inserting
  <2>2. MemType' /\ Mem'
    BY <2>1, SameMem DEF HandInv, MemType, Mem, Free
  <2> QED
    BY <1>3, <2>1, <2>2, <2>3 DEF WalkInv, FreeingInv
<1>11. CASE InsertReplace
  <2>1. /\ Inserting /\ AtLeaf /\ pte[Entry] # NoPage /\ pte[Entry] # pp
        /\ pp_ref' = Decref(pp_ref, pte[Entry])
        /\ page_free_list' = ListAfterDecref(pte[Entry])
        /\ pte' = [pte EXCEPT ![Entry] = NoPage]
        /\ StartWalk("page_insert_again", walk.as, walk.va)
        /\ pp' = pp /\ freeing' = freeing /\ level' = level /\ lost' = lost
    BY <1>11 DEF InsertReplace, Drop, Inserting
  <2>2. pp # NoPage /\ freeing = NotFreeing
    BY <1>3, <2>1
  <2>3. /\ MemType' /\ Mem'
        /\ Free' \subseteq Free \cup {pte[Entry]}
    BY <1>2, <1>4, <2>1, WriteMem
  <2>4. /\ walk' \in Walk /\ walk' # NoWalk /\ walk'.op = "page_insert_again"
        /\ walk'.as = walk.as /\ walk'.l = 0
        /\ walk'.t = pte[TTBR0(walk.as)]
        /\ walk'.t \in Page \ Free /\ level[walk'.t] = 0
    BY <1>2, <1>15, <2>1, StartFacts DEF WalkOp
  <2>5. pte'[TTBR0(walk.as)] # NoPage
    BY <1>15, <2>1, <2>4, ConstFacts DEF TypeOK
  <2>6. walk'.t # pte[Entry]
    <3>1. level[pte[Entry]] = Depth
      BY <1>2, <2>1, ConstFacts DEF AtLeaf, LeafLevel
    <3> QED
      BY <2>4, <3>1, ConstFacts
  <2>7. WalkInv'
    BY <2>1, <2>2, <2>3, <2>4, <2>5, <2>6 DEF WalkInv, Inserting, Live, TTBR0
  <2> QED
    BY <2>1, <2>2, <2>3, <2>4, <2>7 DEF FreeingInv
<1>12. CASE InsertMap
  <2>1. /\ Inserting /\ AtLeaf /\ pte[Entry] = NoPage
        /\ pp_ref' = Incref(pp_ref, pp)
        /\ page_free_list' = page_free_list
        /\ pte' = [pte EXCEPT ![Entry] = pp]
        /\ walk' = NoWalk /\ freeing' = freeing
        /\ pp' = pp /\ level' = level /\ lost' = lost
    BY <1>12 DEF InsertMap
  <2>2. pp # NoPage /\ pp \in {NoPage, pp} /\ level[Entry[1]] = LeafLevel
    BY <1>2, <1>3, <2>1 DEF AtLeaf
  <2>3. MemType' /\ Mem'
    BY <1>2, <2>1, <2>2, WriteMem
  <2> QED
    BY <1>3, <2>1, <2>3 DEF WalkInv, FreeingInv
<1>13. CASE LookupFound
  <2>1. /\ walk.op = "page_lookup" /\ AtLeaf /\ pte[Entry] # NoPage
        /\ pp' = pte[Entry] /\ walk' = NoWalk /\ freeing' = freeing
        /\ UNCHANGED <<page_free_list, pp_ref, pte, level, lost>>
    BY <1>13 DEF LookupFound
  <2>2. HandInv'
    BY <1>2, <2>1, ConstFacts DEF HandInv, AtLeaf, LeafLevel, Free
  <2>3. pp = NoPage
    BY <1>3, <2>1 DEF Inserting
  <2>4. MemType' /\ Mem'
    BY <1>2, <2>1, <2>2, <2>3, SameMem DEF MemType
  <2> QED
    BY <1>3, <2>1, <2>4 DEF WalkInv, FreeingInv
<1>14. CASE RemoveLeaf
  <2>1. /\ walk.op = "page_remove" /\ AtLeaf /\ pte[Entry] # NoPage
        /\ pp_ref' = Decref(pp_ref, pte[Entry])
        /\ page_free_list' = ListAfterDecref(pte[Entry])
        /\ pte' = [pte EXCEPT ![Entry] = NoPage]
        /\ walk' = NoWalk /\ freeing' = freeing
        /\ pp' = pp /\ level' = level /\ lost' = lost
    BY <1>14 DEF RemoveLeaf, Drop
  <2>2. pp = NoPage /\ NoPage \in {NoPage, pp}
    BY <1>3, <2>1 DEF Inserting
  <2>3. MemType' /\ Mem'
    BY <1>2, <1>4, <2>1, <2>2, WriteMem
  <2>4. FreeingInv'
    <3> SUFFICES ASSUME freeing # NotFreeing PROVE FreeingInv'
      BY <2>1 DEF FreeingInv
    <3>1. /\ freeing.l = LeafLevel /\ Entry = <<freeing.tab[LeafLevel], freeing.pten[LeafLevel] - 1>>
      BY <1>5, <2>1
    <3>2. /\ freeing.c = freeing.e
          /\ freeing.tab[0] = pte[TTBR0(freeing.e)]
          /\ \A m \in 0..LeafLevel : level[freeing.tab[m]] = m
          /\ \A m \in 0..(LeafLevel - 1) :
               /\ freeing.pten[m] \in Index
               /\ pte[<<freeing.tab[m], freeing.pten[m]>>] = freeing.tab[m + 1]
          /\ \A m \in 0..LeafLevel : \A j \in 0..(freeing.pten[m] - 1) :
               \/ pte[<<freeing.tab[m], j>>] = NoPage
               \/ m = LeafLevel /\ j = freeing.pten[m] - 1
      BY <3>1 DEF FreeingInv
    <3>3. \A d : d # Entry => pte'[d] = pte[d]
      BY <2>1 DEF TypeOK
    <3>4. pte'[Entry] = NoPage
      BY <1>2, <2>1 DEF TypeOK
    <3>5. TTBR0(freeing.e) # Entry
      <4>1. freeing.e \in AS
        BY DEF TypeOK, Freeing
      <4> QED
        BY <1>2, <4>1 DEF TTBR0
    <3>6. \A m \in 0..(LeafLevel - 1) : freeing.tab[m] # freeing.tab[LeafLevel]
      BY <3>2, ConstFacts DEF LeafLevel
    <3>7. \A m \in 0..(LeafLevel - 1) :
            pte'[<<freeing.tab[m], freeing.pten[m]>>] = freeing.tab[m + 1]
      BY <3>1, <3>2, <3>3, <3>6
    <3>8. \A m \in 0..LeafLevel : \A j \in 0..(freeing.pten[m] - 1) :
            pte'[<<freeing.tab[m], j>>] = NoPage
      BY <3>1, <3>2, <3>3, <3>4
    <3>9. freeing.tab[0] = pte'[TTBR0(freeing.e)]
      BY <3>2, <3>3, <3>5
    <3>10. /\ freeing'.c = freeing'.e /\ pp' = NoPage
           /\ freeing'.tab[0] = pte'[TTBR0(freeing'.e)]
           /\ \A m \in 0..freeing'.l : level'[freeing'.tab[m]] = m
      BY <2>1, <2>2, <3>1, <3>2, <3>9
    <3>11. \A m \in 0..(freeing'.l - 1) :
             /\ freeing'.pten[m] \in Index
             /\ pte'[<<freeing'.tab[m], freeing'.pten[m]>>] = freeing'.tab[m + 1]
      BY <2>1, <3>1, <3>2, <3>7
    <3>12. \A m \in 0..freeing'.l : \A j \in 0..(freeing'.pten[m] - 1) :
             pte'[<<freeing'.tab[m], j>>] = NoPage
      BY <2>1, <3>1, <3>8
    <3> QED
      BY ONLY <2>1, <3>10, <3>11, <3>12 DEF FreeingInv, TTBR0
  <2> QED
    BY <2>1, <2>3, <2>4 DEF WalkInv
<1> QED
  BY <1>6, <1>7, <1>8, <1>9, <1>10, <1>11, <1>12, <1>13, <1>14 DEF WalkStep

(* Every step of the loops of env_free keeps it.                           *)
LEMMA FreeStepInv ==
  ASSUME IInv, RefFits', FreeStep
  PROVE  IInv'
<1> USE TypeSplit DEF IInv
<1> DEFINE f == freeing
           tab == freeing.tab
           pten == freeing.pten
           l == freeing.l
<1>1. walk = NoWalk /\ f # NotFreeing
  BY DEF FreeStep, FreeEnter, FreeLeaf, FreeLeave, FreeRoot
<1>2. /\ f \in Freeing /\ f.e \in AS /\ l \in 0..LeafLevel
      /\ tab \in [Level -> Page] /\ pten \in [Level -> 0..PTE2PT]
      /\ Level = 0..LeafLevel
  BY <1>1 DEF Freeing, Level, LeafLevel
<1>3. /\ f.c = f.e /\ pp = NoPage
      /\ tab[0] = pte[TTBR0(f.e)]
      /\ \A m \in 0..l : level[tab[m]] = m
      /\ \A m \in 0..(l - 1) :
           pten[m] \in Index /\ pte[<<tab[m], pten[m]>>] = tab[m + 1]
      /\ \A m \in 0..l : \A j \in 0..(pten[m] - 1) : pte[<<tab[m], j>>] = NoPage
  BY <1>1 DEF FreeingInv
<1>4. /\ l \in Level /\ l \in Nat /\ pten[l] \in 0..PTE2PT /\ pten[l] \in Nat
      /\ tab[l] \in Page /\ level[tab[l]] = l /\ FreeTable = tab[l]
  <2>1. l \in Level /\ l \in Nat
    BY <1>2, ConstFacts DEF LeafLevel
  <2>2. pten[l] \in 0..PTE2PT
    BY <1>2, <2>1
  <2>3. pten[l] \in Nat
    BY <2>2, ConstFacts
  <2>4. l \in 0..l
    BY <2>1
  <2> QED
    BY <1>2, <1>3, <2>1, <2>2, <2>3, <2>4 DEF FreeTable
<1>5. Rest = {j \in pten[l]..(PTE2PT - 1) : pte[<<tab[l], j>>] # NoPage}
  BY <1>4 DEF Rest, ValidFrom
<1>6. Rest = {} => \A j \in Index : pte[<<tab[l], j>>] = NoPage
  <2> SUFFICES ASSUME Rest = {}, NEW j \in Index PROVE pte[<<tab[l], j>>] = NoPage
    OBVIOUS
  <2>1. pten[l] \in Nat /\ PTE2PT \in Nat /\ j \in 0..(PTE2PT - 1)
    BY <1>4, ConstFacts DEF Index
  <2>2. j \in 0..(pten[l] - 1) \/ j \in pten[l]..(PTE2PT - 1)
    BY <2>1
  <2>3. l \in 0..l
    BY <1>2, ConstFacts DEF LeafLevel
  <2> QED
    BY <1>3, <1>5, <2>2, <2>3
(* What the search for the next entry finds. *)
<1>7. ASSUME NEW i \in Rest, \A j \in Rest : i <= j
      PROVE  /\ i \in Index /\ i + 1 \in 0..PTE2PT
             /\ pte[<<tab[l], i>>] \in Page
             /\ level[pte[<<tab[l], i>>]] = l + 1
             /\ \A j \in 0..(i - 1) : pte[<<tab[l], j>>] = NoPage
  <2>1. /\ i \in pten[l]..(PTE2PT - 1) /\ pte[<<tab[l], i>>] # NoPage
        /\ pten[l] \in Nat /\ PTE2PT \in Nat
    BY <1>4, <1>5, <1>7, ConstFacts
  <2>2. i \in Index /\ i + 1 \in 0..PTE2PT
    BY <2>1 DEF Index
  <2>3. <<tab[l], i>> \in Cell /\ tab[l] \notin AS
    BY <1>4, <2>2, ConstFacts DEF Cell
  <2>4. pte[<<tab[l], i>>] \in Page /\ level[pte[<<tab[l], i>>]] = l + 1
    BY <1>4, <2>1, <2>3 DEF TypeOK, Mem, TreeSound
  <2>5. ASSUME NEW j \in 0..(i - 1) PROVE pte[<<tab[l], j>>] = NoPage
    <3>1. CASE j < pten[l]
      <4>1. j \in 0..(pten[l] - 1) /\ l \in 0..l
        BY <1>2, <2>1, <3>1, ConstFacts DEF LeafLevel
      <4> QED
        BY <1>3, <4>1
    <3>2. CASE ~(j < pten[l])
      <4>1. j \in pten[l]..(PTE2PT - 1) /\ ~(i <= j)
        BY <2>1, <3>2
      <4> QED
        BY <1>5, <1>7, <4>1
    <3> QED
      BY <3>1, <3>2
  <2> QED
    BY <2>2, <2>4, <2>5
<1>8. CASE FreeEnter
  <2>1. PICK i \in Rest :
          /\ \A j \in Rest : i <= j
          /\ f' = [f EXCEPT !.l = l + 1,
                            !.tab = [tab EXCEPT ![l + 1] = pte[<<tab[l], i>>]],
                            !.pten = [pten EXCEPT ![l] = i, ![l + 1] = 0]]
    BY <1>4, <1>8 DEF FreeEnter
  <2>2. /\ l < LeafLevel /\ walk' = walk /\ pp' = pp
        /\ UNCHANGED <<page_free_list, pp_ref, pte, level, lost>>
    BY <1>8 DEF FreeEnter
  <2>3. /\ i \in Index /\ i + 1 \in 0..PTE2PT
        /\ pte[<<tab[l], i>>] \in Page
        /\ level[pte[<<tab[l], i>>]] = l + 1
        /\ \A j \in 0..(i - 1) : pte[<<tab[l], j>>] = NoPage
    BY <1>7, <2>1
  <2>4. l \in Level /\ l + 1 \in Level /\ i \in 0..PTE2PT /\ 0 \in 0..PTE2PT /\ l \in Nat
    BY <1>2, <2>2, <2>3, ConstFacts DEF LeafLevel, Index
  <2>5. /\ f'.c = f.c /\ f'.e = f.e /\ f'.l = l + 1
        /\ f'.tab = [tab EXCEPT ![l + 1] = pte[<<tab[l], i>>]]
        /\ f'.pten = [pten EXCEPT ![l] = i, ![l + 1] = 0]
        /\ f' \in Freeing
    BY <1>2, <2>1, <2>3, <2>4 DEF Freeing
  <2>6. MemType' /\ Mem'
    BY <2>2, SameMem DEF HandInv, MemType, Mem, Free
  <2>7. /\ f'.tab[l + 1] = pte[<<tab[l], i>>] /\ f'.pten[l] = i /\ f'.pten[l + 1] = 0
        /\ \A m \in 0..l : f'.tab[m] = tab[m]
        /\ \A m \in 0..(l - 1) : f'.pten[m] = pten[m]
    <3>1. \A m \in 0..l : m \in Level /\ m # l + 1
      BY <1>2, <2>2, <2>4, ConstFacts DEF LeafLevel
    <3>2. \A m \in 0..(l - 1) : m \in 0..l /\ m # l
      BY <2>4
    <3>3. l # l + 1
      BY <2>4
    <3>4. /\ f'.tab[l + 1] = pte[<<tab[l], i>>] /\ f'.pten[l + 1] = 0
          /\ \A m \in Level : m # l + 1 =>
               f'.tab[m] = tab[m] /\ f'.pten[m] = IF m = l THEN i ELSE pten[m]
      BY ONLY <1>2, <2>4, <2>5
    <3> QED
      BY ONLY <2>4, <3>1, <3>2, <3>3, <3>4
  <2>8. \A m \in 0..(l + 1) : level[f'.tab[m]] = m
    BY <1>3, <2>3, <2>4, <2>7
  <2>9. \A m \in 0..l : f'.pten[m] \in Index /\ pte[<<f'.tab[m], f'.pten[m]>>] = f'.tab[m + 1]
    BY <1>3, <2>3, <2>4, <2>7
  <2>10. \A m \in 0..(l + 1) : \A j \in 0..(f'.pten[m] - 1) : pte[<<f'.tab[m], j>>] = NoPage
    BY <1>3, <2>3, <2>4, <2>7
  <2>11. f'.tab[0] = pte[TTBR0(f.e)]
    BY <1>3, <2>4, <2>7
  <2>12. FreeingInv'
    BY ONLY <1>1, <1>3, <2>2, <2>4, <2>5, <2>8, <2>9, <2>10, <2>11 DEF FreeingInv, TTBR0
  <2> QED
    BY <1>1, <2>2, <2>5, <2>6, <2>12 DEF WalkInv
<1>9. CASE FreeLeaf
  <2>1. PICK i \in Rest :
          /\ \A j \in Rest : i <= j
          /\ StartWalk("page_remove", f.e, [pten EXCEPT ![LeafLevel] = i])
          /\ f' = [f EXCEPT !.pten = [pten EXCEPT ![LeafLevel] = i + 1]]
    BY <1>9 DEF FreeLeaf
  <2>2. /\ l = LeafLevel /\ pp' = pp
        /\ UNCHANGED <<page_free_list, pp_ref, pte, level, lost>>
    BY <1>9 DEF FreeLeaf
  <2>3. /\ i \in Index /\ i + 1 \in 0..PTE2PT
        /\ pte[<<tab[l], i>>] \in Page
        /\ \A j \in 0..(i - 1) : pte[<<tab[l], j>>] = NoPage
    BY <1>7, <2>1
  <2>4. LeafLevel \in Nat /\ 0 \in Level /\ LeafLevel \in Level
    BY <1>2, ConstFacts DEF LeafLevel
  <2>5. [pten EXCEPT ![LeafLevel] = i] \in [Level -> Index]
    <3> SUFFICES ASSUME NEW m \in Level
                 PROVE  [pten EXCEPT ![LeafLevel] = i][m] \in Index
      BY <1>2
    <3>1. CASE m = LeafLevel
      BY <1>2, <2>3, <2>4, <3>1
    <3>2. CASE m # LeafLevel
      <4>1. m \in 0..(l - 1)
        BY <1>2, <2>2, <2>4, <3>2
      <4> QED
        BY <1>2, <1>3, <3>2, <4>1
    <3> QED
      BY <3>1, <3>2
  <2>6. Live(f.e)
    BY <1>2, <1>3, <2>4, ConstFacts DEF Live
  <2>7. /\ walk' \in Walk /\ walk' # NoWalk
        /\ walk'.op = "page_remove" /\ walk'.as = f.e
        /\ walk'.va = [pten EXCEPT ![LeafLevel] = i]
        /\ walk'.t = pte[TTBR0(f.e)] /\ walk'.l = 0
        /\ walk'.t \in Page \ Free /\ level[walk'.t] = 0
    BY <1>2, <2>1, <2>5, <2>6, StartFacts DEF WalkOp
  <2>8. /\ f'.c = f.c /\ f'.e = f.e /\ f'.l = l /\ f'.tab = tab
        /\ f'.pten = [pten EXCEPT ![LeafLevel] = i + 1]
        /\ f' \in Freeing
    BY <1>2, <2>1, <2>3, <2>4 DEF Freeing
  <2>9. MemType' /\ Mem'
    BY <2>2, SameMem DEF HandInv, MemType, Mem, Free
  <2>10. WalkInv'
    <3>1. pte'[TTBR0(walk'.as)] # NoPage
      BY <2>2, <2>6, <2>7 DEF Live
    <3> QED
      BY <1>3, <2>2, <2>7, <3>1 DEF WalkInv, Free, Inserting, Live, TTBR0
  <2>11. /\ f'.pten[LeafLevel] = i + 1 /\ walk'.va[LeafLevel] = f'.pten[LeafLevel] - 1
         /\ \A m \in 0..(LeafLevel - 1) : f'.pten[m] = pten[m] /\ walk'.va[m] = f'.pten[m]
    <3>1. i \in Nat /\ i + 1 - 1 = i
      BY <2>3, ConstFacts DEF Index
    <3>2. \A m \in 0..(LeafLevel - 1) : m \in Level /\ m # LeafLevel
      BY <1>2, <2>4
    <3>3. f'.pten[LeafLevel] = i + 1 /\ \A m \in Level : m # LeafLevel => f'.pten[m] = pten[m]
      BY ONLY <1>2, <2>4, <2>8
    <3>4. walk'.va[LeafLevel] = i /\ \A m \in Level : m # LeafLevel => walk'.va[m] = pten[m]
      BY ONLY <1>2, <2>4, <2>7
    <3> QED
      BY ONLY <3>1, <3>2, <3>3, <3>4
  <2>12. /\ pte[<<tab[LeafLevel], walk'.va[LeafLevel]>>] # NoPage
         /\ walk'.t = tab[walk'.l]
    <3>1. walk'.va[LeafLevel] = i
      BY <1>2, <2>4, <2>7
    <3>2. pte[<<tab[LeafLevel], i>>] # NoPage
      BY <2>2, <2>3, ConstFacts
    <3> QED
      BY <1>3, <2>7, <3>1, <3>2
  <2>13. \A m \in 0..l : \A j \in 0..(f'.pten[m] - 1) :
           pte[<<tab[m], j>>] = NoPage \/ (m = LeafLevel /\ j = f'.pten[m] - 1)
    <3> SUFFICES ASSUME NEW m \in 0..l, NEW j \in 0..(f'.pten[m] - 1),
                        ~(m = LeafLevel /\ j = f'.pten[m] - 1)
                 PROVE  pte[<<tab[m], j>>] = NoPage
      OBVIOUS
    <3>1. CASE m = LeafLevel
      <4>1. j \in 0..(i - 1)
        BY <2>3, <2>11, <3>1 DEF Index
      <4> QED
        BY <2>2, <2>3, <3>1, <4>1
    <3>2. CASE m # LeafLevel
      <4>1. m \in 0..(LeafLevel - 1)
        BY <2>2, <2>4, <3>2
      <4> QED
        BY <1>3, <2>11, <4>1
    <3> QED
      BY <3>1, <3>2
  <2>14. \A m \in 0..(l - 1) : f'.pten[m] \in Index /\ pte[<<tab[m], f'.pten[m]>>] = tab[m + 1]
    BY <1>3, <2>2, <2>11
  <2>15. FreeingInv'
    BY ONLY <1>3, <2>2, <2>7, <2>8, <2>11, <2>12, <2>13, <2>14 DEF FreeingInv, TTBR0
  <2> QED
    BY <2>7, <2>8, <2>9, <2>10, <2>15
<1>10. CASE FreeLeave
  <2> DEFINE up == l - 1
             c == <<tab[up], pten[up]>>
  <2>1. /\ l > 0 /\ Rest = {}
        /\ pp_ref' = Decref(pp_ref, pte[c])
        /\ page_free_list' = ListAfterDecref(pte[c])
        /\ pte' = [pte EXCEPT ![c] = NoPage]
        /\ f' = [f EXCEPT !.l = up, !.pten = [pten EXCEPT ![up] = pten[up] + 1]]
        /\ walk' = walk /\ pp' = pp /\ level' = level /\ lost' = lost
    BY ONLY <1>10 DEF FreeLeave, Drop
  <2>2. up \in 0..(l - 1) /\ up + 1 = l /\ up \in Level /\ l \in Nat
    BY <1>2, <2>1, ConstFacts DEF LeafLevel
  <2>3. /\ tab[up] \in Page /\ pten[up] \in Index /\ c \in Cell
        /\ pte[c] = tab[l] /\ pte[c] # NoPage
    BY <1>2, <1>3, <1>4, <2>2, ConstFacts DEF Cell
  <2>4. NoPage \in {NoPage, pp} /\ pte[c] # pp
    BY <1>3, <2>3
  <2>5. \A i \in Index : pte[<<pte[c], i>>] = NoPage
    BY <1>6, <2>1, <2>3
  <2>6. MemType' /\ Mem'
    BY <2>1, <2>3, <2>4, <2>5, WriteMem
  <2>7. pten[up] + 1 \in 0..PTE2PT
    BY <2>3, ConstFacts DEF Index
  <2>8. /\ f'.c = f.c /\ f'.e = f.e /\ f'.l = up /\ f'.tab = tab
        /\ f'.pten = [pten EXCEPT ![up] = pten[up] + 1]
        /\ f' \in Freeing
    BY <1>2, <2>1, <2>2, <2>7 DEF Freeing
  <2>9. /\ f'.pten[up] = pten[up] + 1
        /\ \A m \in 0..(up - 1) : f'.pten[m] = pten[m] /\ tab[m] # tab[up]
    <3>1. \A m \in 0..(up - 1) : m \in Level /\ m \in 0..l /\ m # up
      BY <1>2, <2>2, ConstFacts DEF LeafLevel
    <3>2. up \in 0..l
      BY <2>2
    <3>3. \A m \in Level : f'.pten[m] = IF m = up THEN pten[up] + 1 ELSE pten[m]
      BY ONLY <1>2, <2>2, <2>8
    <3>4. level[tab[up]] = up /\ \A m \in 0..(up - 1) : level[tab[m]] = m
      BY <1>3, <3>1, <3>2
    <3> QED
      BY ONLY <2>2, <3>1, <3>3, <3>4
  <2>10. /\ pte'[c] = NoPage /\ \A d : d # c => pte'[d] = pte[d]
    BY <2>1, <2>3 DEF TypeOK
  <2>11. tab[0] = pte'[TTBR0(f.e)]
    <3>1. TTBR0(f.e) # c
      BY <1>2, <2>3, ConstFacts DEF TTBR0
    <3> QED
      BY <1>3, <2>10, <3>1
  <2>12. \A m \in 0..(up - 1) :
           f'.pten[m] \in Index /\ pte'[<<tab[m], f'.pten[m]>>] = tab[m + 1]
    BY <1>3, <2>2, <2>9, <2>10
  <2>13. \A m \in 0..up : \A j \in 0..(f'.pten[m] - 1) : pte'[<<tab[m], j>>] = NoPage
    <3> SUFFICES ASSUME NEW m \in 0..up, NEW j \in 0..(f'.pten[m] - 1),
                        <<tab[m], j>> # c
                 PROVE  pte[<<tab[m], j>>] = NoPage
      BY <2>10
    <3>1. CASE m = up
      <4>1. j \in 0..(pten[up] - 1)
        BY <2>3, <2>9, <3>1 DEF Index
      <4> QED
        BY <1>3, <2>2, <3>1, <4>1
    <3>2. CASE m # up
      <4>1. m \in 0..(up - 1) /\ m \in 0..l
        BY <2>2, <3>2
      <4> QED
        BY <1>3, <2>9, <4>1
    <3> QED
      BY <3>1, <3>2
  <2>14. \A m \in 0..up : level[tab[m]] = m
    BY <1>3, <2>2
  <2>15. FreeingInv'
    BY ONLY <1>1, <1>3, <2>1, <2>8, <2>11, <2>12, <2>13, <2>14 DEF FreeingInv, TTBR0
  <2> QED
    BY <1>1, <2>1, <2>6, <2>8, <2>15 DEF WalkInv
<1>11. CASE FreeRoot
  <2> DEFINE c == TTBR0(f.e)
  <2>1. /\ l = 0 /\ Rest = {}
        /\ pp_ref' = Decref(pp_ref, pte[c])
        /\ page_free_list' = ListAfterDecref(pte[c])
        /\ pte' = [pte EXCEPT ![c] = NoPage]
        /\ f' = NotFreeing
        /\ walk' = walk /\ pp' = pp /\ level' = level /\ lost' = lost
    BY <1>11 DEF FreeRoot, Drop
  <2>2. c \in Cell /\ pte[c] = tab[0] /\ pte[c] # NoPage
    BY <1>2, <1>3, <1>4, <2>1, ConstFacts DEF TTBR0, Cell
  <2>3. NoPage \in {NoPage, pp} /\ pte[c] # pp
    BY <1>3, <2>2
  <2>4. \A i \in Index : pte[<<pte[c], i>>] = NoPage
    BY <1>6, <2>1, <2>2
  <2>5. MemType' /\ Mem'
    BY <2>1, <2>2, <2>3, <2>4, WriteMem
  <2> QED
    BY <1>1, <2>1, <2>5 DEF WalkInv, FreeingInv
<1> QED
  BY <1>8, <1>9, <1>10, <1>11 DEF FreeStep

(* So does every step.                                                     *)
LEMMA NextInv ==
  ASSUME SelfDestroyOnly, IInv, RefFits', [Next]_vars
  PROVE  IInv'
<1>1. CASE Call
  BY <1>1, CallInv
<1>2. CASE WalkStep
  BY <1>2, WalkStepInv
<1>3. CASE FreeStep
  BY <1>3, FreeStepInv
<1>4. CASE UNCHANGED vars
  <2>1. UNCHANGED <<page_free_list, pp_ref, pte, walk, freeing, pp, level, lost>>
    BY <1>4 DEF vars
  <2>2. MemType /\ Mem /\ HandInv
    BY TypeSplit DEF IInv, Mem
  <2>3. MemType' /\ Mem'
    BY <2>1, <2>2, SameMem DEF MemType, HandInv, Free
  <2>4. WalkInv' /\ FreeingInv'
    BY <2>1 DEF IInv, WalkInv, FreeingInv, Free, TTBR0, Inserting, Live
  <2> QED
    BY <2>1, <2>3, <2>4, TypeSplit DEF IInv
<1> QED
  BY <1>1, <1>2, <1>3, <1>4 DEF Next

(* The invariant holds for ever while no count overflows.                  *)
LEMMA InvHolds ==
  ASSUME SelfDestroyOnly
  PROVE  Spec /\ []RefFits => []IInv
<1>1. Init => IInv
  BY InitInv
<1>2. IInv /\ RefFits' /\ [Next]_vars => IInv'
  BY NextInv
<1> QED
  BY <1>1, <1>2, PTL DEF Spec

-----------------------------------------------------------------------------
(* Theorems.  All of them are about a kernel in which an environment       *)
(* destroys only itself and no page has RefMod or more references.         *)

(* The types of the variables; that no table pointer is ever null where    *)
(* pgdir_walk or env_free uses it is part of them.                         *)
THEOREM TypeCorrect ==
  ASSUME SelfDestroyOnly
  PROVE  Spec /\ []RefFits => []TypeOK
<1>1. IInv => TypeOK
  BY DEF IInv
<1> QED
  BY <1>1, InvHolds, PTL

(* pp_ref counts the references of every page in use, at every step of     *)
(* page_insert, page_remove and env_free.                                  *)
THEOREM RefCountsCorrect ==
  ASSUME SelfDestroyOnly
  PROVE  Spec /\ []RefFits => []RefCounts
<1>1. IInv => RefCounts
  BY DEF IInv, Mem
<1> QED
  BY <1>1, InvHolds, PTL

(* A page goes back to the free list once, and only when nothing refers to *)
(* it: neither a table, nor the caller that is about to insert it.         *)
THEOREM FreeListCorrect ==
  ASSUME SelfDestroyOnly
  PROVE  Spec /\ []RefFits => []FreeSound
<1>1. IInv => FreeSound
  <2> SUFFICES ASSUME IInv PROVE FreeSound
    OBVIOUS
  <2>1. pp \notin Free
    BY FreeElems, ConstFacts DEF IInv, TypeOK, Mem, HandInv, Elems
  <2> QED
    BY <2>1 DEF FreeSound, IInv, Mem, NoDup, CellInv
<1> QED
  BY <1>1, InvHolds, PTL

(* The tables form disjoint trees, one below each directory.               *)
THEOREM TablesCorrect ==
  ASSUME SelfDestroyOnly
  PROVE  Spec /\ []RefFits => []TreeSound
<1>1. IInv => TreeSound
  BY DEF IInv, Mem
<1> QED
  BY <1>1, InvHolds, PTL

(* Nothing leaks but the page of a caller whose page_insert ran out of     *)
(* memory.                                                                 *)
THEOREM NoLeakCorrect ==
  ASSUME SelfDestroyOnly
  PROVE  Spec /\ []RefFits => []NoLeak
<1>1. IInv => NoLeak
  <2> SUFFICES ASSUME IInv, NEW p \in Page, p \notin Free \cup lost \cup {pp}
               PROVE  \E c \in Refs(p) : c[1] \notin Free
    BY DEF NoLeak
  <2>1. PICK c \in Cell : pte[c] = p
    BY DEF IInv, Mem, HeldInv, Refs
  <2>2. c[1] \notin Free
    BY <2>1, ConstFacts DEF IInv, Mem, CellInv
  <2> QED
    BY <2>1, <2>2 DEF Refs
<1> QED
  BY <1>1, InvHolds, PTL

(* With fewer table entries than a count has values, no count can wrap.    *)
LEMMA FewEntries ==
  ASSUME Cardinality(Cell) < RefMod
  PROVE  RefFits
<1> SUFFICES ASSUME NEW p \in Page PROVE Cardinality(Refs(p)) < RefMod
  BY DEF RefFits
<1>1. Refs(p) \subseteq Cell
  BY DEF Refs
<1>2. /\ Cardinality(Refs(p)) <= Cardinality(Cell)
      /\ Cardinality(Refs(p)) \in Nat /\ Cardinality(Cell) \in Nat
  BY <1>1, CellFinite, FS_Subset, FS_CardinalityType
<1> QED
  BY <1>2, ConstFacts

(* So in a machine with less memory than that, all of pmap.c is sound,     *)
(* whatever the callers do with it.                                        *)
THEOREM SmallMemoryCorrect ==
  ASSUME SelfDestroyOnly, Cardinality(Cell) < RefMod
  PROVE  Spec => [](TypeOK /\ RefCounts /\ FreeSound /\ TreeSound /\ NoLeak)
<1>1. RefFits
  BY FewEntries
<1> QED
  BY <1>1, TypeCorrect, RefCountsCorrect, FreeListCorrect, TablesCorrect, NoLeakCorrect, PTL

-----------------------------------------------------------------------------
(* The addresses and the tables they lead to.                              *)

(* The tables that the address va of slot a leads to, from the directory   *)
(* down, when the entries are f; last the page of data.                    *)
Tables(f, a, va) ==
  LET tab[l \in 0..Depth] ==
        IF l = 0 THEN f[TTBR0(a)]
        ELSE IF tab[l - 1] = NoPage THEN NoPage
        ELSE f[<<tab[l - 1], va[l - 1]>>]
  IN tab

(* What the entries are, and the addresses a walk can be asked for.        *)
EntryType == [Cell -> Page \cup {NoPage}]
Addr == [Level -> Index]

(* What Tables computes, level by level.                                   *)
LEMMA TablesRec ==
  ASSUME NEW f \in EntryType, NEW a \in AS, NEW va \in Addr
  PROVE  LET T == Tables(f, a, va) IN
         /\ T \in [0..Depth -> Page \cup {NoPage}]
         /\ T[0] = f[TTBR0(a)]
         /\ \A l \in 1..Depth :
              T[l] = IF T[l - 1] = NoPage THEN NoPage ELSE f[<<T[l - 1], va[l - 1]>>]
<1> DEFINE V == Page \cup {NoPage}
           base == f[TTBR0(a)]
           step == [n \in 1..Depth |-> [v \in V |->
                      IF v = NoPage THEN NoPage ELSE f[<<v, va[n - 1]>>]]]
           G(g) == [l \in 0..Depth |->
                      IF l = 0 THEN f[TTBR0(a)]
                      ELSE IF g[l - 1] = NoPage THEN NoPage
                      ELSE f[<<g[l - 1], va[l - 1]>>]]
<1>1. Depth \in Nat /\ base \in V
  BY ConstFacts DEF EntryType, Cell, TTBR0
<1>2. \A n \in 1..Depth, v \in V :
        /\ step[n][v] = IF v = NoPage THEN NoPage ELSE f[<<v, va[n - 1]>>]
        /\ step[n][v] \in V
  <2> TAKE n \in 1..Depth, v \in V
  <2>1. step[n][v] = IF v = NoPage THEN NoPage ELSE f[<<v, va[n - 1]>>]
    OBVIOUS
  <2>2. n - 1 \in Level
    BY <1>1 DEF Level
  <2>3. va[n - 1] \in Index
    BY <2>2 DEF Addr
  <2>4. v # NoPage => <<v, va[n - 1]>> \in Cell
    BY <2>3 DEF Cell
  <2> QED BY <2>1, <2>4 DEF EntryType
<1> HIDE DEF step
<1>3. PICK g : IsRec(g, base, step, V, Depth)
  <2>1. Steps(step, V, Depth)
    BY <1>2 DEF Steps
  <2> HIDE DEF V, base
  <2> QED BY <1>1, <2>1, RecExists
<1>3a. /\ g \in [0..Depth -> V] /\ g[0] = base
       /\ \A n \in 1..Depth : g[n] = step[n][g[n - 1]]
  BY <1>3 DEF IsRec
<1>4. g = G(g)
  <2>1. \A l \in 0..Depth : g[l] = G(g)[l]
    <3> TAKE l \in 0..Depth
    <3>1. CASE l = 0
      BY <1>3a, <3>1
    <3>2. CASE l # 0
      <4>1. l \in 1..Depth /\ l - 1 \in 0..Depth
        BY <3>2, <1>1
      <4>2. g[l - 1] \in V
        BY <4>1, <1>3a
      <4> QED BY <1>2, <1>3a, <3>2, <4>1, <4>2
    <3> QED BY <3>1, <3>2
  <2> QED BY <1>3a, <2>1
<1>5. Tables(f, a, va) = G(Tables(f, a, va))
  BY <1>4, Zenon DEF Tables
<1> DEFINE T == Tables(f, a, va)
<1> HIDE DEF T
<1>6. T = G(T)
  BY <1>5 DEF T
<1>7. T[0] = f[TTBR0(a)] /\ \A l \in 1..Depth :
              T[l] = IF T[l - 1] = NoPage THEN NoPage ELSE f[<<T[l - 1], va[l - 1]>>]
  <2>1. \A l \in 0..Depth :
          T[l] = IF l = 0 THEN f[TTBR0(a)]
                 ELSE IF T[l - 1] = NoPage THEN NoPage ELSE f[<<T[l - 1], va[l - 1]>>]
    BY <1>6
  <2>2. 0 \in 0..Depth /\ \A l \in 1..Depth : l \in 0..Depth /\ l # 0
    BY <1>1
  <2> QED BY <2>1, <2>2
<1>8. T = g
  <2> DEFINE S == {n \in Nat : n <= Depth => T[n] = g[n]}
  <2>1. 0 \in S
    BY <1>3a, <1>7
  <2>2. ASSUME NEW n \in Nat, n \in S PROVE n + 1 \in S
    <3> SUFFICES ASSUME n + 1 <= Depth PROVE T[n + 1] = g[n + 1]
      BY <2>2
    <3>1. T[n] = g[n] /\ n + 1 \in 1..Depth /\ n \in 0..Depth /\ (n + 1) - 1 = n
      BY <1>1, <2>2
    <3>2. g[n] \in V
      BY <1>3a, <3>1
    <3>3. g[n + 1] = step[n + 1][g[(n + 1) - 1]]
      BY <1>3a, <3>1
    <3>4. step[n + 1][g[n]] = IF g[n] = NoPage THEN NoPage ELSE f[<<g[n], va[(n + 1) - 1]>>]
      BY <1>2, <3>1, <3>2
    <3>5. T[n + 1] = IF T[(n + 1) - 1] = NoPage THEN NoPage
                     ELSE f[<<T[(n + 1) - 1], va[(n + 1) - 1]>>]
      BY <1>7, <3>1
    <3> QED BY <3>1, <3>3, <3>4, <3>5
  <2> HIDE DEF S
  <2>3. Nat \subseteq S
    BY <2>1, <2>2, NatInd
  <2>4. \A n \in 0..Depth : T[n] = g[n]
    BY <1>1, <2>3 DEF S
  <2>5. T = [l \in 0..Depth |-> T[l]]
    BY <1>6
  <2> QED BY <1>3a, <2>4, <2>5
<1> QED BY <1>3a, <1>7, <1>8 DEF T

(* Resolve of the model is the end of that path.                           *)
LEMMA ResolveIs ==
  /\ \A a, va : Resolve(a, va) = Tables(pte, a, va)[Depth]
  /\ \A a, va : Resolve(a, va)' = Tables(pte', a, va)[Depth]
  BY DEF Resolve, Tables
-----------------------------------------------------------------------------
(* The tables form trees, when pages are used at the levels lv.            *)
Trees(f, lv) ==
  \A c \in Cell : f[c] # NoPage =>
    /\ IF c[1] \in AS THEN lv[f[c]] = 0
       ELSE lv[c[1]] < Depth /\ lv[f[c]] = lv[c[1]] + 1
    /\ lv[f[c]] < Depth => \A d \in Cell : f[d] = f[c] => d = c

(* The invariant says that the tables form trees.                          *)
LEMMA TreesAre ==
  /\ TreeSound => Trees(pte, level)
  /\ TreeSound' => Trees(pte', level')
  BY DEF TreeSound, Trees, Refs

(* The cell a path uses at level l, l = 0 being the slot.                  *)
PathCell(f, a, va, l) ==
  IF l = 0 THEN TTBR0(a) ELSE <<Tables(f, a, va)[l - 1], va[l - 1]>>

(* Each table on a path is in the cell of the one above; nothing follows   *)
(* an empty entry.                                                         *)
LEMMA PathStep ==
  ASSUME NEW f \in EntryType, NEW a \in AS, NEW va \in Addr, NEW l \in 0..Depth
  PROVE  LET T == Tables(f, a, va) IN
         /\ T[l] \in Page \cup {NoPage}
         /\ l > 0 => l - 1 \in 0..LeafLevel /\ va[l - 1] \in Index
                     /\ (T[l - 1] = NoPage => T[l] = NoPage)
         /\ (l = 0 \/ T[l - 1] # NoPage) =>
              PathCell(f, a, va, l) \in Cell /\ T[l] = f[PathCell(f, a, va, l)]
<1> DEFINE T == Tables(f, a, va)
<1>1. /\ T \in [0..Depth -> Page \cup {NoPage}]
      /\ T[0] = f[TTBR0(a)]
      /\ \A n \in 1..Depth :
           T[n] = IF T[n - 1] = NoPage THEN NoPage ELSE f[<<T[n - 1], va[n - 1]>>]
  BY TablesRec
<1>2. PathCell(f, a, va, l) = IF l = 0 THEN TTBR0(a) ELSE <<T[l - 1], va[l - 1]>>
  BY DEF PathCell
<1> HIDE DEF T
<1>3. Depth \in Nat /\ TTBR0(a) \in Cell
  BY ConstFacts DEF TTBR0, Cell
<1>4. ASSUME l > 0
      PROVE  /\ l - 1 \in 0..LeafLevel /\ va[l - 1] \in Index /\ T[l - 1] \in Page \cup {NoPage}
             /\ T[l] = IF T[l - 1] = NoPage THEN NoPage ELSE f[<<T[l - 1], va[l - 1]>>]
             /\ T[l - 1] # NoPage => <<T[l - 1], va[l - 1]>> \in Cell
  <2>1. l \in 1..Depth /\ l - 1 \in Level /\ l - 1 \in 0..Depth
    BY <1>3, <1>4 DEF Level
  <2>2. va[l - 1] \in Index /\ T[l - 1] \in Page \cup {NoPage}
    BY <1>1, <2>1 DEF Addr
  <2>3. T[l - 1] # NoPage => <<T[l - 1], va[l - 1]>> \in Cell
    BY <2>2 DEF Cell
  <2>4. l - 1 \in 0..LeafLevel
    BY <2>1 DEF Level, LeafLevel
  <2> QED BY <1>1, <2>1, <2>2, <2>3, <2>4
<1>5. CASE l = 0
  BY <1>1, <1>2, <1>3, <1>5 DEF T
<1>6. CASE l > 0
  BY <1>1, <1>2, <1>4, <1>6 DEF T
<1> QED BY <1>3, <1>5, <1>6

(* Nothing follows an empty entry.                                         *)
LEMMA EmptyBelow ==
  ASSUME NEW f \in EntryType, NEW a \in AS, NEW va \in Addr, NEW l \in 0..Depth,
         Tables(f, a, va)[l] = NoPage
  PROVE  \A m \in l..Depth : Tables(f, a, va)[m] = NoPage
<1> DEFINE T == Tables(f, a, va)
           S == {n \in Nat : n \in l..Depth => T[n] = NoPage}
<1>0. Depth \in Nat
  BY ConstFacts
<1>1. 0 \in S
  BY <1>0
<1>2. ASSUME NEW n \in Nat, n \in S PROVE n + 1 \in S
  <2> SUFFICES ASSUME n + 1 \in l..Depth PROVE T[n + 1] = NoPage
    OBVIOUS
  <2>1. CASE n + 1 = l
    BY <2>1
  <2>2. CASE n + 1 > l
    <3>1. n \in l..Depth /\ n + 1 \in 0..Depth /\ n + 1 > 0 /\ (n + 1) - 1 = n
      BY <2>2, <1>0
    <3>2. T[n] = NoPage
      BY <1>2, <3>1
    <3> QED BY <3>1, <3>2, PathStep
  <2> QED BY <2>1, <2>2, <1>0
<1> HIDE DEF S
<1>3. Nat \subseteq S
  BY <1>1, <1>2, NatInd
<1>4. \A m \in l..Depth : m \in S
  BY <1>0, <1>3
<1> QED BY <1>0, <1>4 DEF S

(* A table on a path is used at the level of its position.                 *)
LEMMA PathLevel ==
  ASSUME NEW f \in EntryType, NEW lv, Trees(f, lv), NEW a \in AS, NEW va \in Addr,
         NEW l \in 0..Depth, Tables(f, a, va)[l] # NoPage
  PROVE  lv[Tables(f, a, va)[l]] = l
<1> DEFINE T == Tables(f, a, va)
           S == {n \in Nat : n \in 0..Depth /\ T[n] # NoPage => lv[T[n]] = n}
<1>0. Depth \in Nat
  BY ConstFacts
<1>1. 0 \in S
  <2> SUFFICES ASSUME T[0] # NoPage PROVE lv[T[0]] = 0
    OBVIOUS
  <2>1. TTBR0(a) \in Cell /\ T[0] = f[TTBR0(a)]
    BY TablesRec DEF TTBR0, Cell
  <2>2. TTBR0(a)[1] = a
    BY DEF TTBR0
  <2> QED BY <2>1, <2>2 DEF Trees
<1>2. ASSUME NEW n \in Nat, n \in S PROVE n + 1 \in S
  <2> SUFFICES ASSUME n + 1 \in 0..Depth, T[n + 1] # NoPage PROVE lv[T[n + 1]] = n + 1
    OBVIOUS
  <2>0. n \in 0..Depth /\ (n + 1) - 1 = n /\ n + 1 > 0 /\ n + 1 # 0
    BY <1>0
  <2>1. T[n] # NoPage /\ T[n] \in Page \cup {NoPage}
    BY <2>0, PathStep
  <2>2. <<T[n], va[n]>> \in Cell /\ T[n + 1] = f[<<T[n], va[n]>>]
    <3>1. PathCell(f, a, va, n + 1) = <<T[n], va[n]>>
      BY <2>0 DEF PathCell
    <3> QED BY <2>0, <2>1, <3>1, PathStep
  <2>3. lv[T[n]] = n
    BY <1>2, <2>0, <2>1
  <2>4. <<T[n], va[n]>>[1] = T[n] /\ T[n] \notin AS
    BY <2>1, ConstFacts
  <2> QED BY <2>2, <2>3, <2>4 DEF Trees
<1> HIDE DEF S
<1>3. Nat \subseteq S
  BY <1>1, <1>2, NatInd
<1>4. l \in S
  BY <1>0, <1>3
<1> QED BY <1>4 DEF S

(* Two paths that meet in a table are the same path down to it.            *)
LEMMA SamePath ==
  ASSUME NEW f \in EntryType, NEW lv, Trees(f, lv),
         NEW a \in AS, NEW va \in Addr, NEW b \in AS, NEW vb \in Addr,
         NEW l \in 0..LeafLevel, Tables(f, a, va)[l] # NoPage,
         Tables(f, a, va)[l] = Tables(f, b, vb)[l]
  PROVE  a = b /\ \A m \in 0..(l - 1) : va[m] = vb[m]
<1> DEFINE T == Tables(f, a, va)
           U == Tables(f, b, vb)
           S == {n \in Nat : n \in 0..LeafLevel /\ T[n] # NoPage /\ T[n] = U[n] =>
                   a = b /\ \A m \in 0..(n - 1) : va[m] = vb[m]}
<1>0. Depth \in Nat /\ LeafLevel = Depth - 1
  BY ConstFacts DEF LeafLevel
<1>1. 0 \in S
  <2> SUFFICES ASSUME 0 \in 0..LeafLevel, T[0] # NoPage, T[0] = U[0] PROVE a = b
    OBVIOUS
  <2>1. /\ TTBR0(a) \in Cell /\ T[0] = f[TTBR0(a)] /\ TTBR0(b) \in Cell /\ U[0] = f[TTBR0(b)]
    BY TablesRec DEF TTBR0, Cell
  <2>2. lv[T[0]] < Depth
    BY <1>0, PathLevel
  <2>3. TTBR0(a) = TTBR0(b)
    BY <2>1, <2>2 DEF Trees
  <2> QED BY <2>3 DEF TTBR0
<1>2. ASSUME NEW n \in Nat, n \in S PROVE n + 1 \in S
  <2> SUFFICES ASSUME n + 1 \in 0..LeafLevel, T[n + 1] # NoPage, T[n + 1] = U[n + 1]
               PROVE  a = b /\ \A m \in 0..n : va[m] = vb[m]
    OBVIOUS
  <2>0. /\ n \in 0..LeafLevel /\ (n + 1) - 1 = n /\ n + 1 > 0 /\ n + 1 # 0
        /\ n + 1 \in 0..Depth /\ n \in 0..Depth
    BY <1>0
  <2>1. T[n] # NoPage /\ U[n] # NoPage
    BY <2>0, PathStep
  <2>2. /\ PathCell(f, a, va, n + 1) = <<T[n], va[n]>>
        /\ PathCell(f, b, vb, n + 1) = <<U[n], vb[n]>>
    BY <2>0 DEF PathCell
  <2>3. /\ <<T[n], va[n]>> \in Cell /\ T[n + 1] = f[<<T[n], va[n]>>]
        /\ <<U[n], vb[n]>> \in Cell /\ U[n + 1] = f[<<U[n], vb[n]>>]
    BY <2>0, <2>1, <2>2, PathStep
  <2>4. lv[T[n + 1]] = n + 1
    BY <2>0, PathLevel
  <2>5. lv[T[n + 1]] < Depth
    BY <2>4, <1>0
  <2>6. <<T[n], va[n]>> = <<U[n], vb[n]>>
    BY <2>3, <2>5 DEF Trees
  <2>7. T[n] = U[n] /\ va[n] = vb[n]
    BY <2>6
  <2>8. a = b /\ \A m \in 0..(n - 1) : va[m] = vb[m]
    BY <1>2, <2>0, <2>1, <2>7
  <2> QED BY <2>7, <2>8
<1> HIDE DEF S
<1>3. Nat \subseteq S
  BY <1>1, <1>2, NatInd
<1>4. l \in S
  BY <1>0, <1>3
<1> QED BY <1>4 DEF S
-----------------------------------------------------------------------------
(* One cell changes.                                                       *)

(* A path that does not use the cell stays the same, as far as it does not.*)
LEMMA KeepPath ==
  ASSUME NEW f \in EntryType, NEW g \in EntryType, NEW c \in Cell,
         \A d \in Cell : d # c => g[d] = f[d],
         NEW a \in AS, NEW va \in Addr, NEW n \in 0..Depth,
         \A l \in 0..n : PathCell(f, a, va, l) # c
  PROVE  \A l \in 0..n : Tables(g, a, va)[l] = Tables(f, a, va)[l]
<1> DEFINE T == Tables(f, a, va)
           U == Tables(g, a, va)
           S == {l \in Nat : l \in 0..n => U[l] = T[l]}
<1>0. Depth \in Nat
  BY ConstFacts
<1>1. 0 \in S
  <2>1. PathCell(f, a, va, 0) = TTBR0(a) /\ TTBR0(a) \in Cell
    BY DEF PathCell, TTBR0, Cell
  <2>2. TTBR0(a) # c
    BY <2>1, <1>0
  <2>3. T[0] = f[TTBR0(a)] /\ U[0] = g[TTBR0(a)]
    BY TablesRec
  <2> QED BY <2>1, <2>2, <2>3
<1>2. ASSUME NEW l \in Nat, l \in S PROVE l + 1 \in S
  <2> SUFFICES ASSUME l + 1 \in 0..n PROVE U[l + 1] = T[l + 1]
    OBVIOUS
  <2>0. /\ l \in 0..n /\ l + 1 \in 0..Depth /\ l + 1 > 0 /\ l + 1 # 0 /\ (l + 1) - 1 = l
    BY <1>0
  <2>1. U[l] = T[l]
    BY <1>2, <2>0
  <2>2. PathCell(f, a, va, l + 1) = <<T[l], va[l]>> /\ PathCell(g, a, va, l + 1) = <<U[l], va[l]>>
    BY <2>0 DEF PathCell
  <2>3. CASE T[l] = NoPage
    <3>1. T[l + 1] = NoPage
      BY <2>0, <2>3, PathStep
    <3>2. U[l + 1] = NoPage
      BY <2>0, <2>1, <2>3, PathStep
    <3> QED BY <3>1, <3>2
  <2>4. CASE T[l] # NoPage
    <3>1. <<T[l], va[l]>> \in Cell /\ T[l + 1] = f[<<T[l], va[l]>>]
      BY <2>0, <2>2, <2>4, PathStep
    <3>2. U[l + 1] = g[<<T[l], va[l]>>]
      BY <2>0, <2>1, <2>2, <2>4, PathStep
    <3>3. <<T[l], va[l]>> # c
      BY <2>2
    <3> QED BY <3>1, <3>2, <3>3
  <2> QED BY <2>3, <2>4
<1> HIDE DEF S
<1>3. Nat \subseteq S
  BY <1>1, <1>2, NatInd
<1>4. \A l \in 0..n : l \in S
  BY <1>0, <1>3
<1> QED BY <1>4 DEF S

(* A path uses the entries of a table at the level of that table only.     *)
LEMMA CellLevel ==
  ASSUME NEW f \in EntryType, NEW lv, Trees(f, lv), NEW a \in AS, NEW va \in Addr,
         NEW l \in 0..Depth, NEW t \in Page, NEW i, PathCell(f, a, va, l) = <<t, i>>
  PROVE  /\ l > 0 /\ lv[t] = l - 1 /\ l - 1 \in 0..LeafLevel
         /\ Tables(f, a, va)[l - 1] = t /\ va[l - 1] = i
<1>0. Depth \in Nat /\ LeafLevel = Depth - 1 /\ a # t
  BY ConstFacts DEF LeafLevel
<1>1. l # 0
  BY <1>0 DEF PathCell, TTBR0
<1>2. Tables(f, a, va)[l - 1] = t /\ va[l - 1] = i
  BY <1>1 DEF PathCell
<1>3. l - 1 \in 0..Depth /\ t # NoPage
  BY <1>0, <1>1, ConstFacts
<1>4. lv[t] = l - 1
  BY <1>2, <1>3, PathLevel
<1> QED BY <1>0, <1>1, <1>2, <1>4

(* Writing a leaf entry changes what one address resolves to.              *)
LEMMA LeafWrite ==
  ASSUME NEW f \in EntryType, NEW g \in EntryType, NEW lv, Trees(f, lv),
         NEW a \in AS, NEW va \in Addr, NEW t \in Page,
         Tables(f, a, va)[LeafLevel] = t,
         NEW c, c = <<t, va[LeafLevel]>>, c \in Cell,
         \A d \in Cell : d # c => g[d] = f[d]
  PROVE  /\ \A l \in 0..LeafLevel : Tables(g, a, va)[l] = Tables(f, a, va)[l]
         /\ Tables(g, a, va)[Depth] = g[c] /\ Tables(f, a, va)[Depth] = f[c]
         /\ \A b \in AS, vb \in Addr : b # a \/ vb # va =>
              Tables(g, b, vb)[Depth] = Tables(f, b, vb)[Depth]
<1>0. /\ Depth \in Nat /\ Depth > 0 /\ LeafLevel = Depth - 1 /\ LeafLevel \in 0..LeafLevel
      /\ LeafLevel \in 0..Depth /\ Depth \in 0..Depth /\ t # NoPage
  BY ConstFacts DEF LeafLevel
<1>1. lv[t] = LeafLevel
  BY <1>0, PathLevel
<1>2. \A l \in 0..LeafLevel : Tables(g, a, va)[l] = Tables(f, a, va)[l]
  <2>1. ASSUME NEW l \in 0..LeafLevel PROVE PathCell(f, a, va, l) # c
    <3> SUFFICES ASSUME PathCell(f, a, va, l) = c PROVE FALSE
      OBVIOUS
    <3>1. l \in 0..Depth
      BY <1>0
    <3>2. l > 0 /\ lv[t] = l - 1
      BY <3>1, CellLevel
    <3> QED BY <1>0, <1>1, <3>2
  <2> QED BY <1>0, <2>1, KeepPath
<1>3. Tables(g, a, va)[Depth] = g[c] /\ Tables(f, a, va)[Depth] = f[c]
  <2>1. Tables(g, a, va)[Depth - 1] = t /\ Tables(f, a, va)[Depth - 1] = t
    BY <1>0, <1>2
  <2>2. PathCell(g, a, va, Depth) = c /\ PathCell(f, a, va, Depth) = c
    BY <1>0, <2>1 DEF PathCell
  <2>3. Tables(g, a, va)[Depth] = g[PathCell(g, a, va, Depth)]
    BY <1>0, <2>1, PathStep
  <2>4. Tables(f, a, va)[Depth] = f[PathCell(f, a, va, Depth)]
    BY <1>0, <2>1, PathStep
  <2> QED BY <2>2, <2>3, <2>4
<1>4. ASSUME NEW b \in AS, NEW vb \in Addr, b # a \/ vb # va
      PROVE  Tables(g, b, vb)[Depth] = Tables(f, b, vb)[Depth]
  <2>1. ASSUME NEW l \in 0..Depth PROVE PathCell(f, b, vb, l) # c
    <3> SUFFICES ASSUME PathCell(f, b, vb, l) = c PROVE FALSE
      OBVIOUS
    <3>1. l > 0 /\ lv[t] = l - 1 /\ Tables(f, b, vb)[l - 1] = t /\ vb[l - 1] = va[LeafLevel]
      BY CellLevel
    <3>2. Tables(f, b, vb)[LeafLevel] = t /\ vb[LeafLevel] = va[LeafLevel]
      BY <1>1, <3>1
    <3>3. a = b /\ \A m \in 0..(LeafLevel - 1) : va[m] = vb[m]
      BY <1>0, <3>2, SamePath
    <3>4. \A m \in Level : va[m] = vb[m]
      BY <1>0, <3>2, <3>3 DEF Level
    <3>5. va = vb
      BY <3>4 DEF Addr
    <3> QED BY <1>4, <3>3, <3>5
  <2> QED BY <1>0, <2>1, KeepPath
<1> QED BY <1>2, <1>3, <1>4

(* Linking an empty table, or unlinking one, changes no address.           *)
LEMMA EmptyTable ==
  ASSUME NEW f \in EntryType, NEW g \in EntryType, NEW lv, Trees(g, lv),
         NEW c \in Cell, \A d \in Cell : d # c => g[d] = f[d],
         NEW h \in Page, f[c] = NoPage, g[c] = h, lv[h] < Depth,
         \A i \in Index : g[<<h, i>>] = NoPage,
         NEW a \in AS, NEW va \in Addr
  PROVE  Tables(g, a, va)[Depth] = Tables(f, a, va)[Depth]
<1> DEFINE T == Tables(f, a, va)
           U == Tables(g, a, va)
           Near(l) == U[l] = T[l] \/ (T[l] = NoPage /\ U[l] = h)
           S == {l \in Nat : l \in 0..Depth => Near(l)}
<1>0. Depth \in Nat /\ Depth \in 0..Depth /\ h # NoPage
  BY ConstFacts
<1>1. 0 \in S
  <2>1. TTBR0(a) \in Cell /\ T[0] = f[TTBR0(a)] /\ U[0] = g[TTBR0(a)]
    BY TablesRec DEF TTBR0, Cell
  <2>2. CASE TTBR0(a) = c
    <3>1. T[0] = NoPage /\ U[0] = h
      BY <2>1, <2>2
    <3> QED BY <3>1
  <2>3. CASE TTBR0(a) # c
    <3>1. U[0] = T[0]
      BY <2>1, <2>3
    <3> QED BY <3>1
  <2> QED BY <2>2, <2>3
<1>2. ASSUME NEW l \in Nat, l \in S PROVE l + 1 \in S
  <2> SUFFICES ASSUME l + 1 \in 0..Depth
               PROVE  U[l + 1] = T[l + 1] \/ (T[l + 1] = NoPage /\ U[l + 1] = h)
    BY SMT
  <2>0. l \in 0..Depth /\ l + 1 > 0 /\ l + 1 # 0 /\ (l + 1) - 1 = l
    BY <1>0
  <2>1. U[l] = T[l] \/ (T[l] = NoPage /\ U[l] = h)
    BY <1>2, <2>0
  <2>2. PathCell(f, a, va, l + 1) = <<T[l], va[l]>> /\ PathCell(g, a, va, l + 1) = <<U[l], va[l]>>
    BY <2>0 DEF PathCell
  <2>3. va[l] \in Index /\ (T[l] = NoPage => T[l + 1] = NoPage) /\ (U[l] = NoPage => U[l + 1] = NoPage)
    <3>1. T[l] = NoPage => T[l + 1] = NoPage
      BY <2>0, PathStep
    <3>2. U[l] = NoPage => U[l + 1] = NoPage
      BY <2>0, PathStep
    <3>3. va[l] \in Index
      BY <2>0, PathStep
    <3> QED BY <3>1, <3>2, <3>3
  <2>4. CASE U[l] = T[l] /\ T[l] # NoPage
    <3>1. <<T[l], va[l]>> \in Cell /\ T[l + 1] = f[<<T[l], va[l]>>]
      BY <2>0, <2>2, <2>4, PathStep
    <3>2. U[l + 1] = g[<<T[l], va[l]>>]
      BY <2>0, <2>2, <2>4, PathStep
    <3>3. CASE <<T[l], va[l]>> = c
      <4>1. T[l + 1] = NoPage /\ U[l + 1] = h
        BY <3>1, <3>2, <3>3
      <4> QED BY <4>1
    <3>4. CASE <<T[l], va[l]>> # c
      <4>1. U[l + 1] = T[l + 1]
        BY <3>1, <3>2, <3>4
      <4> QED BY <4>1
    <3> QED BY <3>3, <3>4
  <2>5. CASE U[l] = T[l] /\ T[l] = NoPage
    BY <2>3, <2>5
  <2>6. CASE T[l] = NoPage /\ U[l] = h
    <3>1. U[l + 1] = g[<<h, va[l]>>]
      BY <1>0, <2>0, <2>2, <2>6, PathStep
    <3> QED BY <2>3, <2>6, <3>1
  <2> QED BY <2>1, <2>4, <2>5, <2>6
<1> HIDE DEF S
<1>3. Nat \subseteq S
  BY <1>1, <1>2, NatInd
<1>4. U[Depth] = T[Depth] \/ (T[Depth] = NoPage /\ U[Depth] = h)
  BY <1>0, <1>3 DEF S
<1>5. U[Depth] # h
  <2> SUFFICES ASSUME U[Depth] = h PROVE FALSE
    OBVIOUS
  <2>1. lv[h] = Depth
    BY <1>0, PathLevel
  <2> QED BY <1>0, <2>1
<1> QED BY <1>4, <1>5

-----------------------------------------------------------------------------
(* What pmap.c promises its callers: the memory of PageMap.                *)

(* A walk stands on the path of its address.  The second walk of a         *)
(* page_insert finds the tables of the first.                              *)
PathInv ==
  walk # NoWalk =>
    /\ walk.va \in VA
    /\ Tables(pte, walk.as, walk.va)[walk.l] = walk.t
    /\ walk.op = "page_insert_again" =>
         Tables(pte, walk.as, walk.va)[LeafLevel] # NoPage

(* Only addresses the callers use are mapped.                              *)
MappedInv == \A a \in AS, va \in Addr : Tables(pte, a, va)[Depth] # NoPage => va \in VA

RefInv == IInv /\ PathInv /\ MappedInv

(* The map the entries f make; and when a step leaves every address alone. *)
MapOf(f) == [a \in AS |-> [va \in VA |-> Tables(f, a, va)[Depth]]]
SameAddresses ==
  \A a \in AS, va \in Addr : Tables(pte', a, va)[Depth] = Tables(pte, a, va)[Depth]

(* The addresses of the callers have an index per level.                   *)
LEMMA VAType == \A va \in VA : va \in Addr
BY ConstAssumption DEF Addr

(* The map the callers see, and what keeps it.                             *)
LEMMA MapIs ==
  /\ MapNow = MapOf(pte) /\ MapNow' = MapOf(pte')
  /\ SameAddresses => MapNow' = MapNow
  /\ SameAddresses /\ MappedInv => MappedInv'
<1>1. MapNow = MapOf(pte) /\ MapNow' = MapOf(pte')
  BY ResolveIs DEF MapNow, MapOf
<1>2. SameAddresses => MapNow' = MapNow
  BY <1>1, VAType DEF MapOf, SameAddresses
<1>3. SameAddresses /\ MappedInv => MappedInv'
  BY DEF SameAddresses, MappedInv
<1> QED BY <1>1, <1>2, <1>3

(* A space is there when its slot has a directory.                         *)
LEMMA SpacesAre ==
  /\ (\A a \in AS : pte'[TTBR0(a)] = pte[TTBR0(a)]) => Spaces' = Spaces
  /\ pte' = pte => SameAddresses
<1>1. Spaces = {a \in AS : pte[TTBR0(a)] # NoPage} /\ Spaces' = {a \in AS : pte'[TTBR0(a)] # NoPage}
  BY DEF Spaces, Live, TTBR0
<1>2. pte' = pte => SameAddresses
  BY DEF SameAddresses
<1> QED BY <1>1, <1>2

(* The entries are as TypeOK says, and name pages in use at a level.       *)
LEMMA EntriesAre ==
  /\ TypeOK => pte \in EntryType
  /\ TypeOK' => pte' \in EntryType
BY DEF TypeOK, EntryType

(* The call the callers wait for is one, and stays on while a walk goes on. *)
LEMMA CallIs ==
  ASSUME RefInv, walk # NoWalk
  PROVE  /\ walk \in Walk /\ walk.as \in AS /\ walk.va \in VA /\ walk.va \in Addr
         /\ walk.op \in WalkOp
         /\ CallNow # NoWalk
         /\ CallNow.op = (IF Inserting THEN "page_insert" ELSE walk.op)
         /\ CallNow.as = walk.as /\ CallNow.va = walk.va
         /\ CallNow.unmapped = (walk.op = "page_insert_again")
<1>1. /\ walk \in Walk /\ walk.as \in AS /\ walk.va \in VA /\ walk.va \in Addr
      /\ walk.op \in WalkOp
  BY VAType DEF RefInv, IInv, TypeOK, PathInv, Walk
<1>2. CallNow = [op |-> IF Inserting THEN "page_insert" ELSE walk.op,
                 as |-> walk.as, va |-> walk.va,
                 unmapped |-> walk.op = "page_insert_again"]
  BY DEF CallNow
<1>3. CallNow \in Waiting
  <2>1. (IF Inserting THEN "page_insert" ELSE walk.op) \in {"page_insert", "page_remove", "page_lookup"}
    BY <1>1 DEF Inserting, WalkOp
  <2> QED BY <1>1, <1>2, <2>1 DEF Waiting
<1>4. CallNow # NoWalk
  BY <1>3, NullAssumption
<1> QED BY <1>1, <1>2, <1>4

(* What an address resolves to is in some cell.                            *)
LEMMA MappedInCell ==
  ASSUME NEW f \in EntryType, NEW a \in AS, NEW va \in Addr, Tables(f, a, va)[Depth] # NoPage
  PROVE  \E c \in Cell : f[c] = Tables(f, a, va)[Depth]
<1>1. Depth \in 0..Depth /\ Depth > 0
  BY ConstFacts
<1> QED BY <1>1, PathStep

(* A path that is found entry by entry.                                    *)
LEMMA PathAlong ==
  ASSUME NEW f \in EntryType, NEW a \in AS, NEW va \in Addr,
         NEW tab \in [Level -> Page], tab[0] = f[TTBR0(a)],
         \A m \in 0..(LeafLevel - 1) : f[<<tab[m], va[m]>>] = tab[m + 1]
  PROVE  Tables(f, a, va)[LeafLevel] = tab[LeafLevel]
<1> DEFINE T == Tables(f, a, va)
           S == {m \in Nat : m \in Level => T[m] = tab[m]}
<1>0. Depth \in Nat /\ Level = 0..LeafLevel /\ LeafLevel = Depth - 1 /\ LeafLevel \in Nat
  BY ConstFacts DEF Level, LeafLevel
<1>1. 0 \in S
  BY TablesRec
<1>2. ASSUME NEW m \in Nat, m \in S PROVE m + 1 \in S
  <2> SUFFICES ASSUME m + 1 \in Level PROVE T[m + 1] = tab[m + 1]
    OBVIOUS
  <2>1. m \in 0..(LeafLevel - 1) /\ m \in Level /\ m + 1 \in 1..Depth /\ (m + 1) - 1 = m
    BY <1>0
  <2>2. T[m] = tab[m] /\ tab[m] # NoPage
    BY <1>2, <2>1, ConstFacts
  <2>3. T[m + 1] = f[<<T[m], va[m]>>]
    <3>1. T[m + 1] = IF T[(m + 1) - 1] = NoPage THEN NoPage
                     ELSE f[<<T[(m + 1) - 1], va[(m + 1) - 1]>>]
      BY <2>1, TablesRec
    <3> QED BY <3>1, <2>1, <2>2
  <2> QED BY <2>1, <2>2, <2>3
<1> HIDE DEF S
<1>3. Nat \subseteq S
  BY <1>1, <1>2, NatInd
<1>4. LeafLevel \in S /\ LeafLevel \in Level
  BY <1>0, <1>3
<1> QED BY <1>4 DEF S
-----------------------------------------------------------------------------
(* Steps on which the entries stay.                                        *)

(* pgdir_walk starts: the call of the specification does.                  *)
LEMMA StartSimulated ==
  ASSUME RefInv, NEW op \in {"page_insert", "page_remove", "page_lookup"}, NEW a \in AS, NEW va \in VA,
         walk = NoWalk, Live(a), StartWalk(op, a, va), pte' = pte, walk' \in Walk,
         op = "page_insert" => pp # NoPage,
         pp' = IF op = "page_insert" THEN pp ELSE NoPage
  PROVE  Memory!Next /\ PathInv' /\ MappedInv'
<1>1. walk' = [op |-> op, as |-> a, va |-> va, t |-> pte[TTBR0(a)], l |-> 0]
  BY DEF StartWalk
<1>2. walk' # NoWalk /\ CallNow = NoWalk
  BY NullAssumption DEF CallNow
<1>3. CallNow' = [op |-> op, as |-> a, va |-> va, unmapped |-> FALSE]
  BY <1>1, <1>2 DEF CallNow, Inserting
<1>4. UNCHANGED <<Spaces, MapNow>> /\ MappedInv' /\ a \in Spaces
  BY MapIs, SpacesAre DEF RefInv, Spaces
<1>5. Memory!Start(op, a, va)
  BY <1>2, <1>3, <1>4 DEF Memory!Start
<1>6. PathInv'
  <2>1. Tables(pte, a, va)[0] = pte[TTBR0(a)]
    BY TablesRec, EntriesAre, VAType DEF RefInv, IInv
  <2> QED BY <1>1, <2>1 DEF PathInv
<1> QED BY <1>4, <1>5, <1>6 DEF Memory!Next

(* The steps of a call that the caller does not see.                       *)
LEMMA StutterSimulated ==
  ASSUME RefInv, SameAddresses, CallNow' = CallNow, pp' = pp,
         \A a \in AS : pte'[TTBR0(a)] = pte[TTBR0(a)]
  PROVE  UNCHANGED Memory!vars /\ MappedInv'
BY MapIs, SpacesAre DEF RefInv, Memory!vars

(* A walk goes down.                                                       *)
LEMMA CallGoesOn ==
  ASSUME walk # NoWalk, walk' # NoWalk,
         walk'.op = walk.op, walk'.as = walk.as, walk'.va = walk.va
  PROVE  CallNow' = CallNow
BY DEF CallNow, Inserting

(* A walk goes one level down: its caller sees nothing.                    *)
LEMMA DownSimulated ==
  ASSUME RefInv, WalkDown, walk' \in Walk
  PROVE  UNCHANGED Memory!vars /\ MappedInv' /\ PathInv'
<1>1. /\ walk # NoWalk /\ ~AtLeaf /\ pte[Entry] # NoPage
      /\ walk' = [walk EXCEPT !.t = pte[Entry], !.l = walk.l + 1]
      /\ pte' = pte /\ pp' = pp
  BY DEF WalkDown
<1>2. walk' # NoWalk /\ walk \in Walk
  BY <1>1, NullAssumption, CallIs
<1>3. /\ walk'.op = walk.op /\ walk'.as = walk.as /\ walk'.va = walk.va
      /\ walk'.t = pte[Entry] /\ walk'.l = walk.l + 1
  BY <1>1, <1>2 DEF Walk
<1>4. UNCHANGED Memory!vars /\ MappedInv'
  BY <1>1, <1>2, <1>3, CallGoesOn, SpacesAre, StutterSimulated
<1>5. Tables(pte, walk.as, walk.va)[walk.l + 1] = pte[Entry]
  <2>1. walk.l + 1 \in 1..Depth /\ (walk.l + 1) - 1 = walk.l
    BY <1>1, <1>2, ConstFacts DEF Walk, Level
  <2>2. Tables(pte, walk.as, walk.va)[walk.l] = walk.t /\ walk.t # NoPage
    BY <1>1, <1>2, ConstFacts DEF RefInv, PathInv, Walk
  <2>3. pte \in EntryType /\ walk.as \in AS /\ walk.va \in Addr
    BY <1>1, EntriesAre, CallIs DEF RefInv, IInv
  <2> QED BY <2>1, <2>2, <2>3, TablesRec DEF Entry
<1>6. PathInv'
  BY <1>1, <1>2, <1>3, <1>5 DEF RefInv, PathInv
<1> QED BY <1>4, <1>6

(* A second walk never meets an empty entry above the last level.          *)
LEMMA AgainFinds ==
  ASSUME RefInv, walk # NoWalk, ~AtLeaf, pte[Entry] = NoPage
  PROVE  walk.op # "page_insert_again"
<1>1. walk \in Walk /\ walk.as \in AS /\ walk.va \in Addr
  BY CallIs
<1>2. pte \in EntryType
  BY EntriesAre DEF RefInv, IInv
<1>3. walk.l + 1 \in 1..LeafLevel /\ (walk.l + 1) - 1 = walk.l /\ LeafLevel \in 0..Depth
      /\ Depth \in Nat /\ walk.l + 1 \in 1..Depth
  BY <1>1, ConstFacts DEF Walk, Level, AtLeaf, LeafLevel
<1>4. Tables(pte, walk.as, walk.va)[walk.l] = walk.t
  BY DEF RefInv, PathInv
<1>5. Tables(pte, walk.as, walk.va)[walk.l + 1] = NoPage
  BY <1>1, <1>2, <1>3, <1>4, TablesRec DEF Entry
<1>6. LeafLevel \in (walk.l + 1)..Depth /\ walk.l + 1 \in 0..Depth
  BY <1>3
<1>7. Tables(pte, walk.as, walk.va)[LeafLevel] = NoPage
  BY <1>1, <1>2, <1>5, <1>6, EmptyBelow
<1> QED BY <1>7 DEF RefInv, PathInv

(* What the entry of a walk says of the address it walks for.              *)
LEMMA EntryMeans ==
  ASSUME RefInv, walk # NoWalk
  PROVE  LET T == Tables(pte, walk.as, walk.va) IN
         /\ pte[Entry] = NoPage => T[Depth] = NoPage
         /\ AtLeaf => T[LeafLevel] = walk.t /\ T[Depth] = pte[Entry]
                      /\ Entry = <<walk.t, walk.va[LeafLevel]>> /\ Entry \in Cell
         /\ T[Depth] = MapNow[walk.as][walk.va]
<1> DEFINE T == Tables(pte, walk.as, walk.va)
<1>1. walk \in Walk /\ walk.as \in AS /\ walk.va \in Addr /\ walk.va \in VA
  BY CallIs
<1>2. pte \in EntryType
  BY EntriesAre DEF RefInv, IInv
<1>3. /\ walk.l + 1 \in 1..Depth /\ (walk.l + 1) - 1 = walk.l /\ walk.l + 1 \in 0..Depth
      /\ Depth \in (walk.l + 1)..Depth /\ walk.t # NoPage
  BY <1>1, ConstFacts DEF Walk, Level
<1>4. T[walk.l] = walk.t
  BY DEF RefInv, PathInv
<1>5. T[walk.l + 1] = pte[Entry]
  BY <1>1, <1>2, <1>3, <1>4, TablesRec DEF Entry
<1>6. pte[Entry] = NoPage => T[Depth] = NoPage
  BY <1>1, <1>2, <1>3, <1>5, EmptyBelow
<1>7. AtLeaf => T[LeafLevel] = walk.t /\ T[Depth] = pte[Entry] /\ Entry = <<walk.t, walk.va[LeafLevel]>>
  <2>1. LeafLevel + 1 = Depth
    BY ConstFacts DEF LeafLevel
  <2> QED BY <2>1, <1>4, <1>5 DEF AtLeaf, Entry
<1>8. T[Depth] = MapNow[walk.as][walk.va]
  BY <1>1, MapIs DEF MapOf
<1>9. Entry \in Cell
  BY EntryFacts DEF RefInv
<1> QED BY <1>6, <1>7, <1>8, <1>9

(* No page for a table: page_insert fails.                                 *)
LEMMA NoMemSimulated ==
  ASSUME RefInv, WalkNoMem
  PROVE  Memory!InsertFails /\ MappedInv' /\ PathInv'
<1>1. /\ walk # NoWalk /\ Inserting /\ ~AtLeaf /\ pte[Entry] = NoPage
      /\ walk' = NoWalk /\ pp' = NoPage /\ pte' = pte
  BY DEF WalkNoMem, Inserting
<1>2. UNCHANGED <<Spaces, MapNow>> /\ MappedInv'
  BY <1>1, MapIs, SpacesAre DEF RefInv
<1>3. CallNow # NoWalk /\ CallNow.op = "page_insert" /\ ~CallNow.unmapped
  BY <1>1, CallIs, AgainFinds
<1>4. CallNow' = NoWalk /\ PathInv'
  BY <1>1 DEF CallNow, PathInv
<1> QED BY <1>1, <1>2, <1>3, <1>4 DEF Memory!InsertFails, Memory!Returning

(* An empty entry on the way: page_lookup and page_remove find nothing.    *)
LEMMA AbsentSimulated ==
  ASSUME RefInv, WalkAbsent
  PROVE  (Memory!Lookup \/ Memory!Remove) /\ MappedInv' /\ PathInv'
<1>1. /\ walk # NoWalk /\ ~Inserting /\ pte[Entry] = NoPage
      /\ walk' = NoWalk /\ pp' = pp /\ pte' = pte
  BY DEF WalkAbsent
<1>2. UNCHANGED <<Spaces, MapNow>> /\ MappedInv'
  BY <1>1, MapIs, SpacesAre DEF RefInv
<1>3. /\ CallNow # NoWalk /\ CallNow.op = walk.op /\ CallNow.as = walk.as
      /\ CallNow.va = walk.va /\ walk.as \in AS /\ walk.va \in VA
      /\ walk.op \in {"page_lookup", "page_remove"}
  BY <1>1, CallIs DEF Inserting, WalkOp
<1>4. CallNow' = NoWalk /\ PathInv'
  BY <1>1 DEF CallNow, PathInv
<1>5. MapNow[walk.as][walk.va] = NoPage
  BY <1>1, EntryMeans
<1>6. pp = NoPage
  BY <1>1 DEF RefInv, IInv, WalkInv
<1>7. MapNow = [MapNow EXCEPT ![walk.as][walk.va] = NoPage]
  BY <1>3, <1>5 DEF MapNow
<1> QED BY <1>1, <1>2, <1>3, <1>4, <1>5, <1>6, <1>7 DEF Memory!Lookup, Memory!Remove, Memory!Returning

(* page_lookup finds the page the address has.                             *)
LEMMA FoundSimulated ==
  ASSUME RefInv, LookupFound
  PROVE  Memory!Lookup /\ MappedInv' /\ PathInv'
<1>1. /\ walk # NoWalk /\ walk.op = "page_lookup" /\ AtLeaf /\ ~Inserting
      /\ walk' = NoWalk /\ pp' = pte[Entry] /\ pte' = pte
  BY DEF LookupFound, Inserting
<1>2. UNCHANGED <<Spaces, MapNow>> /\ MappedInv'
  BY <1>1, MapIs, SpacesAre DEF RefInv
<1>3. /\ CallNow # NoWalk /\ CallNow.op = walk.op /\ CallNow.as = walk.as
      /\ CallNow.va = walk.va
  BY <1>1, CallIs
<1>4. CallNow' = NoWalk /\ PathInv'
  BY <1>1 DEF CallNow, PathInv
<1>5. MapNow[walk.as][walk.va] = pte[Entry]
  BY <1>1, EntryMeans
<1> QED BY <1>1, <1>2, <1>3, <1>4, <1>5 DEF Memory!Lookup, Memory!Returning

(* page_insert of the page that is there keeps the map.                    *)
LEMMA SameSimulated ==
  ASSUME RefInv, InsertSame
  PROVE  Memory!Insert /\ MappedInv' /\ PathInv'
<1>1. /\ walk # NoWalk /\ AtLeaf /\ Inserting /\ pte[Entry] = pp
      /\ walk' = NoWalk /\ pp' = pp /\ pte' = pte
  BY DEF InsertSame, Inserting
<1>2. UNCHANGED <<Spaces, MapNow>> /\ MappedInv'
  BY <1>1, MapIs, SpacesAre DEF RefInv
<1>3. /\ CallNow # NoWalk /\ CallNow.op = "page_insert" /\ CallNow.as = walk.as
      /\ CallNow.va = walk.va /\ walk.as \in AS /\ walk.va \in VA
  BY <1>1, CallIs
<1>4. CallNow' = NoWalk /\ PathInv'
  BY <1>1 DEF CallNow, PathInv
<1>5. MapNow[walk.as][walk.va] = pp
  BY <1>1, EntryMeans
<1>6. MapNow = [MapNow EXCEPT ![walk.as][walk.va] = pp]
  BY <1>3, <1>5 DEF MapNow
<1> QED BY <1>1, <1>2, <1>3, <1>4, <1>6 DEF Memory!Insert, Memory!Returning
-----------------------------------------------------------------------------
(* Steps that write a leaf entry, or link or unlink a table.               *)

(* Writing the entry of the address of the call changes the map there only. *)
LEMMA LeafSimulated ==
  ASSUME RefInv, walk # NoWalk, AtLeaf, NEW x \in Page \cup {NoPage}, TypeOK',
         pte' = [pte EXCEPT ![Entry] = x]
  PROVE  /\ MapNow' = [MapNow EXCEPT ![walk.as][walk.va] = x]
         /\ MappedInv' /\ Spaces' = Spaces
         /\ Tables(pte', walk.as, walk.va)[LeafLevel] = walk.t
         /\ pte'[TTBR0(walk.as)] = pte[TTBR0(walk.as)]
<1> DEFINE a == walk.as
           va == walk.va
<1>1. walk \in Walk /\ a \in AS /\ va \in Addr /\ va \in VA /\ walk.t \in Page
  BY CallIs DEF Walk
<1>2. pte \in EntryType /\ pte' \in EntryType /\ Trees(pte, level)
  BY EntriesAre, TreesAre DEF RefInv, IInv, Mem
<1>3. /\ Tables(pte, a, va)[LeafLevel] = walk.t /\ Entry = <<walk.t, va[LeafLevel]>>
      /\ Entry \in Cell
  BY EntryMeans
<1>4. /\ \A d \in Cell : d # Entry => pte'[d] = pte[d]
      /\ pte'[Entry] = x
  BY <1>2, <1>3 DEF EntryType
<1>5. /\ \A l \in 0..LeafLevel : Tables(pte', a, va)[l] = Tables(pte, a, va)[l]
      /\ Tables(pte', a, va)[Depth] = x
      /\ \A b \in AS, vb \in Addr : b # a \/ vb # va =>
           Tables(pte', b, vb)[Depth] = Tables(pte, b, vb)[Depth]
  <2>1. \A f, g \in EntryType, u \in AS, w \in Addr, t \in Page, c \in Cell :
          /\ Trees(f, level)
          /\ Tables(f, u, w)[LeafLevel] = t /\ c = <<t, w[LeafLevel]>>
          /\ \A d \in Cell : d # c => g[d] = f[d]
          => /\ \A l \in 0..LeafLevel : Tables(g, u, w)[l] = Tables(f, u, w)[l]
             /\ Tables(g, u, w)[Depth] = g[c]
             /\ \A b \in AS, vb \in Addr : b # u \/ vb # w =>
                  Tables(g, b, vb)[Depth] = Tables(f, b, vb)[Depth]
    BY LeafWrite
  <2> QED BY ONLY <1>1, <1>2, <1>3, <1>4, <2>1
<1>6. Tables(pte', a, va)[LeafLevel] = walk.t
  <2>1. LeafLevel \in 0..LeafLevel
    BY ConstFacts DEF LeafLevel
  <2> QED BY <1>3, <1>5, <2>1
<1>7. MapOf(pte') = [MapOf(pte) EXCEPT ![a][va] = x]
  <2>1. ASSUME NEW b \in AS, NEW vb \in VA
        PROVE  MapOf(pte')[b][vb] = IF b = a /\ vb = va THEN x ELSE MapOf(pte)[b][vb]
    BY <1>1, <1>5, VAType DEF MapOf
  <2>2. ASSUME NEW f
        PROVE  /\ MapOf(f) = [b \in AS |-> MapOf(f)[b]]
               /\ \A b \in AS : MapOf(f)[b] = [vb \in VA |-> MapOf(f)[b][vb]]
    BY DEF MapOf
  <2> HIDE DEF MapOf
  <2> DEFINE M == MapOf(pte)
             N == MapOf(pte')
  <2> HIDE DEF M, N
  <2>3. \A b \in AS : M[b] = [vb \in VA |-> M[b][vb]] /\ N[b] = [vb \in VA |-> N[b][vb]]
    BY <2>2 DEF M, N
  <2>4. \A b \in AS, vb \in VA : N[b][vb] = IF b = a /\ vb = va THEN x ELSE M[b][vb]
    BY <2>1 DEF M, N
  <2>5. N[a] = [M[a] EXCEPT ![va] = x]
    BY ONLY <1>1, <2>3, <2>4
  <2>6. \A b \in AS : b # a => N[b] = M[b]
    BY ONLY <2>3, <2>4
  <2>7. M = [b \in AS |-> M[b]] /\ N = [b \in AS |-> N[b]]
    BY <2>2 DEF M, N
  <2>8. N = [M EXCEPT ![a] = [M[a] EXCEPT ![va] = x]]
    BY ONLY <1>1, <2>5, <2>6, <2>7
  <2> QED BY <2>8 DEF M, N
<1>8. MappedInv'
  BY <1>1, <1>5 DEF RefInv, MappedInv
<1>9. \A b \in AS : pte'[TTBR0(b)] = pte[TTBR0(b)]
  <2>1. Entry[1] \notin AS
    BY EntryFacts DEF RefInv
  <2> QED BY <1>4, <2>1 DEF TTBR0, Cell
<1> QED BY <1>1, <1>6, <1>7, <1>8, <1>9, MapIs, SpacesAre

(* page_insert at an empty entry: the address gets the page.               *)
LEMMA MapSimulated ==
  ASSUME RefInv, InsertMap, TypeOK'
  PROVE  Memory!Insert /\ MappedInv' /\ PathInv'
<1>1. /\ walk # NoWalk /\ AtLeaf /\ Inserting
      /\ walk' = NoWalk /\ pp' = pp /\ pte' = [pte EXCEPT ![Entry] = pp]
  BY DEF InsertMap, Inserting
<1>2. pp \in Page \cup {NoPage}
  BY DEF RefInv, IInv, TypeOK
<1>3. MapNow' = [MapNow EXCEPT ![walk.as][walk.va] = pp] /\ MappedInv' /\ Spaces' = Spaces
  BY <1>1, <1>2, LeafSimulated
<1>4. /\ CallNow # NoWalk /\ CallNow.op = "page_insert" /\ CallNow.as = walk.as
      /\ CallNow.va = walk.va
  BY <1>1, CallIs
<1>5. CallNow' = NoWalk /\ PathInv'
  BY <1>1 DEF CallNow, PathInv
<1> QED BY <1>1, <1>3, <1>4, <1>5 DEF Memory!Insert, Memory!Returning

(* page_remove: the address loses its page.                                *)
LEMMA RemoveSimulated ==
  ASSUME RefInv, RemoveLeaf, TypeOK'
  PROVE  Memory!Remove /\ MappedInv' /\ PathInv'
<1>1. /\ walk # NoWalk /\ AtLeaf /\ walk.op = "page_remove" /\ ~Inserting
      /\ walk' = NoWalk /\ pp' = pp /\ pte' = [pte EXCEPT ![Entry] = NoPage]
  BY DEF RemoveLeaf, Inserting, Drop
<1>3. MapNow' = [MapNow EXCEPT ![walk.as][walk.va] = NoPage] /\ MappedInv' /\ Spaces' = Spaces
  BY <1>1, LeafSimulated
<1>4. /\ CallNow # NoWalk /\ CallNow.op = "page_remove" /\ CallNow.as = walk.as
      /\ CallNow.va = walk.va
  BY <1>1, CallIs
<1>5. CallNow' = NoWalk /\ PathInv'
  BY <1>1 DEF CallNow, PathInv
<1> QED BY <1>1, <1>3, <1>4, <1>5 DEF Memory!Remove, Memory!Returning

(* page_insert over another page: first the address loses that one.        *)
LEMMA ReplaceSimulated ==
  ASSUME RefInv, InsertReplace, TypeOK'
  PROVE  Memory!InsertUnmaps /\ MappedInv' /\ PathInv'
<1>1. /\ walk # NoWalk /\ AtLeaf /\ walk.op = "page_insert" /\ Inserting
      /\ StartWalk("page_insert_again", walk.as, walk.va)
      /\ pp' = pp /\ pte' = [pte EXCEPT ![Entry] = NoPage]
  BY DEF InsertReplace, Inserting, Drop
<1>2. walk' = [op |-> "page_insert_again", as |-> walk.as, va |-> walk.va,
               t |-> pte[TTBR0(walk.as)], l |-> 0]
  BY <1>1 DEF StartWalk
<1>3. /\ MapNow' = [MapNow EXCEPT ![walk.as][walk.va] = NoPage] /\ MappedInv' /\ Spaces' = Spaces
      /\ Tables(pte', walk.as, walk.va)[LeafLevel] = walk.t
      /\ pte'[TTBR0(walk.as)] = pte[TTBR0(walk.as)]
  BY <1>1, LeafSimulated
<1>4. /\ CallNow # NoWalk /\ CallNow.op = "page_insert" /\ CallNow.as = walk.as
      /\ CallNow.va = walk.va /\ walk.as \in AS /\ walk.va \in VA /\ walk.va \in Addr
      /\ walk \in Walk
  BY <1>1, CallIs
<1>5. CallNow = [op |-> "page_insert", as |-> walk.as, va |-> walk.va, unmapped |-> FALSE]
  <2>1. (walk.op = "page_insert_again") = FALSE
    BY <1>1
  <2> QED BY ONLY <1>1, <2>1 DEF CallNow
<1>6. walk' # NoWalk
  <2>1. StartWalk("page_insert_again", walk.as, walk.va) /\ Live(walk.as)
        /\ walk.va \in [Level -> Index]
    BY <1>1, <1>4 DEF RefInv, IInv, WalkInv, Addr
  <2> QED BY <1>4, <2>1, StartFacts DEF RefInv, WalkOp
<1>7. CallNow' = [op |-> "page_insert", as |-> walk.as, va |-> walk.va, unmapped |-> TRUE]
  <2>1. /\ walk'.op = "page_insert_again" /\ walk'.as = walk.as /\ walk'.va = walk.va
        /\ Inserting' /\ (walk'.op = "page_insert_again") = TRUE
    BY <1>2, <1>6 DEF Inserting
  <2> QED BY ONLY <1>6, <2>1 DEF CallNow
<1>9. PathInv'
  <2>1. Tables(pte', walk.as, walk.va)[0] = pte'[TTBR0(walk.as)]
    BY <1>4, TablesRec, EntriesAre
  <2>2. walk.t # NoPage
    BY <1>4, ConstFacts DEF Walk
  <2> QED BY <1>2, <1>3, <1>4, <2>1, <2>2 DEF PathInv
<1> QED BY <1>1, <1>3, <1>4, <1>7, <1>9 DEF Memory!InsertUnmaps

(* A walk that adds a table: its caller sees nothing.                      *)
LEMMA CreateSimulated ==
  ASSUME RefInv, WalkCreate, IInv'
  PROVE  UNCHANGED Memory!vars /\ MappedInv' /\ PathInv'
<1> DEFINE h == Head(page_free_list)
           a == walk.as
           va == walk.va
<1>1. /\ walk # NoWalk /\ Inserting /\ ~AtLeaf /\ pte[Entry] = NoPage
      /\ PopTable(Entry, walk.l + 1) /\ page_free_list # <<>>
      /\ walk' = [walk EXCEPT !.t = h, !.l = walk.l + 1]
      /\ pp' = pp
  BY DEF WalkCreate, PopTable, Pop, Inserting
<1>2. /\ walk \in Walk /\ a \in AS /\ va \in Addr /\ va \in VA
      /\ walk.l \in Level /\ walk.l + 1 \in Level /\ walk.t \in Page
      /\ walk.l + 1 \in 1..Depth /\ (walk.l + 1) - 1 = walk.l /\ walk.l \in 0..Depth
      /\ Depth \in Nat
  BY <1>1, CallIs, ConstFacts DEF Walk, Level, AtLeaf, LeafLevel
<1>3. /\ pte \in EntryType /\ pte' \in EntryType /\ Trees(pte', level') /\ Trees(pte, level)
      /\ MemType /\ Mem
  BY EntriesAre, TreesAre, TypeSplit DEF RefInv, IInv, Mem
<1>4. /\ h \in Page /\ h \in Free /\ h # NoPage /\ Bzero(h) = pte /\ Refs(h) = {}
  BY <1>1, <1>3, HeadFree
<1>5. /\ Entry \in Cell /\ Entry[1] = walk.t /\ walk.t \notin Free /\ Entry[1] \notin AS
      /\ level[walk.t] = walk.l
  BY <1>1, EntryFacts DEF RefInv
<1>6. /\ pte' = [pte EXCEPT ![Entry] = h] /\ level' = [level EXCEPT ![h] = walk.l + 1]
  BY <1>1, <1>4 DEF PopTable, Pop
<1>7. /\ \A d \in Cell : d # Entry => pte'[d] = pte[d]
      /\ pte'[Entry] = h
  BY <1>3, <1>5, <1>6 DEF EntryType
<1>8. level'[h] < Depth
  BY <1>2, <1>4, <1>6 DEF MemType, RefInv, IInv, TypeOK, Level
<1>9. \A i \in Index : pte'[<<h, i>>] = NoPage
  <2> SUFFICES ASSUME NEW i \in Index PROVE pte'[<<h, i>>] = NoPage
    OBVIOUS
  <2>1. <<h, i>> \in Cell /\ <<h, i>> # Entry /\ <<h, i>>[1] \in Free
    BY <1>4, <1>5 DEF Cell
  <2>2. pte[<<h, i>>] = NoPage
    BY <1>3, <2>1 DEF Mem, CellInv
  <2> QED BY <1>7, <2>1, <2>2
<1>10. SameAddresses
  <2> SUFFICES ASSUME NEW b \in AS, NEW vb \in Addr
               PROVE  Tables(pte', b, vb)[Depth] = Tables(pte, b, vb)[Depth]
    BY DEF SameAddresses
  <2> QED BY <1>1, <1>3, <1>4, <1>5, <1>7, <1>8, <1>9, EmptyTable
<1>11. walk' # NoWalk /\ walk' \in Walk
  <2>1. walk' \in Walk
    BY <1>1, <1>2, <1>4 DEF Walk
  <2> QED BY <2>1, NullAssumption
<1>12. /\ walk'.op = walk.op /\ walk'.as = a /\ walk'.va = va
       /\ walk'.t = h /\ walk'.l = walk.l + 1
  BY <1>1, <1>2 DEF Walk
<1>13. \A b \in AS : pte'[TTBR0(b)] = pte[TTBR0(b)]
  BY <1>5, <1>7 DEF TTBR0, Cell
<1>14. UNCHANGED Memory!vars /\ MappedInv'
  BY <1>1, <1>10, <1>11, <1>12, <1>13, CallGoesOn, StutterSimulated
<1>15. Tables(pte', a, va)[walk.l + 1] = h
  <2>1. ASSUME NEW m \in 0..walk.l PROVE PathCell(pte, a, va, m) # Entry
    <3> SUFFICES ASSUME PathCell(pte, a, va, m) = Entry PROVE FALSE
      OBVIOUS
    <3>1. Entry = <<walk.t, va[walk.l]>> /\ m \in 0..Depth
      BY <1>2 DEF Entry, Level
    <3>2. level[walk.t] = m - 1
      BY <1>2, <1>3, <3>1, CellLevel
    <3> QED BY <1>2, <1>5, <3>2 DEF Level
  <2>2. walk.l \in 0..walk.l
    BY <1>2 DEF Level
  <2>3. Tables(pte', a, va)[walk.l] = Tables(pte, a, va)[walk.l]
    BY <1>2, <1>3, <1>5, <1>7, <2>1, <2>2, KeepPath
  <2>4. Tables(pte', a, va)[walk.l] = walk.t /\ walk.t # NoPage
    BY <1>1, <1>2, <2>3, ConstFacts DEF RefInv, PathInv
  <2>5. Tables(pte', a, va)[walk.l + 1] =
           IF Tables(pte', a, va)[walk.l + 1 - 1] = NoPage THEN NoPage
           ELSE pte'[<<Tables(pte', a, va)[walk.l + 1 - 1], va[walk.l + 1 - 1]>>]
    BY <1>2, <1>3, TablesRec
  <2> QED BY <1>2, <1>7, <2>4, <2>5 DEF Entry
<1>16. walk.op # "page_insert_again"
  BY <1>1, AgainFinds
<1>17. PathInv'
  BY <1>2, <1>12, <1>15, <1>16 DEF PathInv
<1> QED BY <1>14, <1>17

(* page_alloc gives the caller a page.                                     *)
LEMMA AllocSimulated ==
  ASSUME RefInv, page_alloc
  PROVE  Memory!Alloc /\ MappedInv' /\ PathInv'
<1> DEFINE h == Head(page_free_list)
<1>1. /\ walk = NoWalk /\ walk' = NoWalk /\ page_free_list # <<>>
      /\ pte' = Bzero(h) /\ pp' = h
  BY DEF page_alloc, Idle, Pop
<1>2. MemType /\ Mem /\ pte \in EntryType
  BY TypeSplit, EntriesAre DEF RefInv, IInv
<1>3. h \in Page /\ Bzero(h) = pte /\ Refs(h) = {} /\ h # NoPage
  BY <1>1, <1>2, HeadFree
<1>4. UNCHANGED <<Spaces, MapNow>> /\ MappedInv'
  BY <1>1, <1>3, MapIs, SpacesAre DEF RefInv
<1>5. CallNow = NoWalk /\ CallNow' = NoWalk /\ PathInv'
  BY <1>1 DEF CallNow, PathInv
<1>6. h \notin Memory!Mapped
  <2> SUFFICES ASSUME NEW a \in AS, NEW va \in VA, MapNow[a][va] = h PROVE FALSE
    BY DEF Memory!Mapped
  <2>1. Tables(pte, a, va)[Depth] = h /\ va \in Addr
    BY MapIs, VAType DEF MapOf
  <2> QED BY <1>2, <1>3, <2>1, MappedInCell DEF Refs
<1> QED BY <1>1, <1>3, <1>4, <1>5, <1>6 DEF Memory!Alloc

(* env_setup_vm: a space with nothing mapped.                              *)
LEMMA SetupSimulated ==
  ASSUME RefInv, NEW a \in AS, env_setup_vm(a), IInv'
  PROVE  Memory!Setup(a) /\ MappedInv' /\ PathInv'
<1> DEFINE h == Head(page_free_list)
           c == TTBR0(a)
<1>1. /\ walk = NoWalk /\ walk' = NoWalk /\ page_free_list # <<>>
      /\ pte[c] = NoPage /\ PopTable(c, 0) /\ pp' = NoPage
  BY DEF env_setup_vm, Idle, Live, PopTable, Pop
<1>2. /\ MemType /\ Mem /\ pte \in EntryType /\ pte' \in EntryType
      /\ Trees(pte', level')
  BY TypeSplit, EntriesAre, TreesAre DEF RefInv, IInv, Mem
<1>3. h \in Page /\ h \in Free /\ Bzero(h) = pte /\ h # NoPage
  BY <1>1, <1>2, HeadFree
<1>4. c \in Cell /\ c[1] = a /\ a \notin Page
  BY ConstFacts DEF TTBR0, Cell
<1>5. /\ pte' = [pte EXCEPT ![c] = h] /\ level' = [level EXCEPT ![h] = 0]
  BY <1>1, <1>3 DEF PopTable, Pop
<1>6. /\ \A d \in Cell : d # c => pte'[d] = pte[d]
      /\ pte'[c] = h
  BY <1>2, <1>4, <1>5 DEF EntryType
<1>7. level'[h] < Depth
  BY <1>2, <1>3, <1>5, ConstFacts DEF MemType
<1>8. \A i \in Index : pte'[<<h, i>>] = NoPage
  <2> SUFFICES ASSUME NEW i \in Index PROVE pte'[<<h, i>>] = NoPage
    OBVIOUS
  <2>1. <<h, i>> \in Cell /\ <<h, i>> # c /\ <<h, i>>[1] \in Free
    BY <1>3, <1>4 DEF Cell, TTBR0
  <2>2. pte[<<h, i>>] = NoPage
    BY <1>2, <2>1 DEF Mem, CellInv
  <2> QED BY <1>6, <2>1, <2>2
<1>9. SameAddresses
  <2> SUFFICES ASSUME NEW b \in AS, NEW vb \in Addr
               PROVE  Tables(pte', b, vb)[Depth] = Tables(pte, b, vb)[Depth]
    BY DEF SameAddresses
  <2> HIDE DEF c, h
  <2> QED BY <1>1, <1>2, <1>3, <1>4, <1>6, <1>7, <1>8, EmptyTable
<1>10. MapNow' = MapNow /\ MappedInv'
  BY <1>9, MapIs DEF RefInv
<1>11. CallNow = NoWalk /\ CallNow' = NoWalk /\ PathInv'
  BY <1>1 DEF CallNow, PathInv
<1>12. Spaces' = Spaces \cup {a} /\ a \notin Spaces
  <2>1. Spaces = {b \in AS : pte[TTBR0(b)] # NoPage} /\ Spaces' = {b \in AS : pte'[TTBR0(b)] # NoPage}
    BY DEF Spaces, Live, TTBR0
  <2>2. \A b \in AS : b # a => TTBR0(b) \in Cell /\ TTBR0(b) # c
    BY DEF TTBR0, Cell
  <2>3. \A b \in AS : b # a => pte'[TTBR0(b)] = pte[TTBR0(b)]
    BY <1>6, <2>2
  <2> HIDE DEF h
  <2> QED BY <1>1, <1>3, <1>6, <2>1, <2>3
<1> QED BY <1>1, <1>10, <1>11, <1>12 DEF Memory!Setup

(* The caller lets go of a page it has.                                    *)
LEMMA ForgetSimulated ==
  ASSUME RefInv, NEW c \in AS, NEW e \in AS, env_free(c, e)
  PROVE  Memory!Forget /\ MappedInv' /\ PathInv'
<1>1. /\ walk = NoWalk /\ walk' = NoWalk /\ pte' = pte /\ pp' = NoPage
  BY DEF env_free, Idle
<1>2. UNCHANGED <<Spaces, MapNow>> /\ MappedInv'
  BY <1>1, MapIs, SpacesAre DEF RefInv
<1>3. CallNow = NoWalk /\ CallNow' = NoWalk /\ PathInv'
  BY <1>1 DEF CallNow, PathInv
<1> QED BY <1>1, <1>2, <1>3 DEF Memory!Forget

(* env_free goes into a table: nothing to see.                             *)
LEMMA EnterSimulated ==
  ASSUME RefInv, FreeEnter
  PROVE  UNCHANGED Memory!vars /\ MappedInv' /\ PathInv'
<1>1. /\ walk = NoWalk /\ walk' = NoWalk /\ pte' = pte /\ pp' = pp
  BY DEF FreeEnter
<1>2. CallNow' = CallNow /\ PathInv'
  BY <1>1 DEF CallNow, PathInv
<1> QED BY <1>1, <1>2, StutterSimulated, SpacesAre

(* Where env_free stands.                                                  *)
LEMMA FreeingFacts ==
  ASSUME IInv, freeing # NotFreeing, walk = NoWalk
  PROVE  /\ freeing.e \in AS /\ freeing.l \in Level
         /\ freeing.tab \in [Level -> Page] /\ freeing.pten \in [Level -> 0..PTE2PT]
         /\ freeing.tab[0] = pte[TTBR0(freeing.e)] /\ pp = NoPage
         /\ FreeTable = freeing.tab[freeing.l] /\ level[freeing.tab[freeing.l]] = freeing.l
         /\ \A m \in 0..(freeing.l - 1) :
              /\ freeing.pten[m] \in Index
              /\ pte[<<freeing.tab[m], freeing.pten[m]>>] = freeing.tab[m + 1]
         /\ Rest \subseteq Index
         /\ Rest = {} => \A j \in Index : pte[<<FreeTable, j>>] = NoPage
         /\ \A i \in Rest : pte[<<FreeTable, i>>] # NoPage
<1>1. freeing \in Freeing
  BY DEF IInv, TypeOK
<1>2. /\ freeing.e \in AS /\ freeing.l \in Level
      /\ freeing.tab \in [Level -> Page] /\ freeing.pten \in [Level -> 0..PTE2PT]
  BY <1>1 DEF Freeing
<1>3. freeing.l \in 0..freeing.l /\ freeing.l \in Nat
  BY <1>2, ConstFacts DEF Level
<1>4. /\ freeing.tab[0] = pte[TTBR0(freeing.e)] /\ pp = NoPage
      /\ \A m \in 0..freeing.l : level[freeing.tab[m]] = m
      /\ \A m \in 0..(freeing.l - 1) :
           /\ freeing.pten[m] \in Index
           /\ pte[<<freeing.tab[m], freeing.pten[m]>>] = freeing.tab[m + 1]
      /\ \A m \in 0..freeing.l : \A j \in 0..(freeing.pten[m] - 1) :
           pte[<<freeing.tab[m], j>>] = NoPage
  BY DEF IInv, FreeingInv
<1>5. freeing.pten[freeing.l] \in Nat /\ PTE2PT \in Nat
  BY <1>2, ConstFacts
<1>6. Rest = {j \in freeing.pten[freeing.l]..(PTE2PT - 1) : pte[<<FreeTable, j>>] # NoPage}
  BY DEF Rest, ValidFrom
<1>7. Rest \subseteq Index
  BY <1>5, <1>6 DEF Index
<1>8. Rest = {} => \A j \in Index : pte[<<FreeTable, j>>] = NoPage
  <2> SUFFICES ASSUME Rest = {}, NEW j \in Index PROVE pte[<<FreeTable, j>>] = NoPage
    OBVIOUS
  <2>1. j \in 0..(freeing.pten[freeing.l] - 1) \/ j \in freeing.pten[freeing.l]..(PTE2PT - 1)
    BY <1>5 DEF Index
  <2> QED BY <1>3, <1>4, <1>6, <2>1 DEF FreeTable
<1> QED BY <1>2, <1>3, <1>4, <1>6, <1>7, <1>8 DEF FreeTable

(* env_free calls page_remove on a page it finds.                          *)
LEMMA FreeLeafSimulated ==
  ASSUME RefInv, FreeLeaf, IInv'
  PROVE  Memory!Next /\ MappedInv' /\ PathInv'
<1> DEFINE e == freeing.e
           tab == freeing.tab
<1>1. /\ walk = NoWalk /\ freeing # NotFreeing /\ freeing.l = LeafLevel
      /\ pte' = pte /\ pp' = pp
  BY DEF FreeLeaf
<1>2. PICK i \in Rest :
        StartWalk("page_remove", e, [freeing.pten EXCEPT ![LeafLevel] = i])
  BY DEF FreeLeaf
<1> DEFINE va == [freeing.pten EXCEPT ![LeafLevel] = i]
<1>3. /\ e \in AS /\ tab \in [Level -> Page] /\ freeing.pten \in [Level -> 0..PTE2PT]
      /\ tab[0] = pte[TTBR0(e)] /\ pp = NoPage /\ FreeTable = tab[LeafLevel]
      /\ \A m \in 0..(LeafLevel - 1) :
           freeing.pten[m] \in Index /\ pte[<<tab[m], freeing.pten[m]>>] = tab[m + 1]
      /\ i \in Index /\ pte[<<tab[LeafLevel], i>>] # NoPage
  BY <1>1, <1>2, FreeingFacts DEF RefInv
<1>4. /\ LeafLevel \in Level /\ Level = 0..LeafLevel /\ LeafLevel \in Nat /\ LeafLevel + 1 = Depth
      /\ LeafLevel \in 0..Depth /\ Depth \in 1..Depth /\ Depth - 1 = LeafLevel /\ Depth \in 0..Depth
  BY ConstFacts DEF Level, LeafLevel
<1>5. va[LeafLevel] = i /\ \A m \in 0..(LeafLevel - 1) : va[m] = freeing.pten[m]
  BY <1>3, <1>4
<1>6. va \in Addr
  <2>1. ASSUME NEW m \in Level PROVE va[m] \in Index
    <3>1. m = LeafLevel \/ m \in 0..(LeafLevel - 1)
      BY <1>4
    <3> QED BY <1>3, <1>5, <3>1
  <2>2. va = [m \in Level |-> va[m]]
    BY <1>3
  <2> HIDE DEF va
  <2> QED BY <2>1, <2>2 DEF Addr
<1> HIDE DEF va
<1>7. pte \in EntryType
  BY EntriesAre DEF RefInv, IInv
<1>8. Tables(pte, e, va)[LeafLevel] = tab[LeafLevel] /\ tab[LeafLevel] # NoPage
  <2>1. \A m \in 0..LeafLevel : tab[m] # NoPage
    BY <1>3, <1>4, ConstFacts
  <2>2. \A m \in 0..(LeafLevel - 1) : pte[<<tab[m], va[m]>>] = tab[m + 1]
    BY <1>3, <1>5
  <2>3. LeafLevel \in 0..LeafLevel
    BY <1>4
  <2> QED BY <1>3, <1>4, <1>6, <1>7, <2>1, <2>2, <2>3, PathAlong
<1>9. Tables(pte, e, va)[Depth] = pte[<<tab[LeafLevel], i>>]
  BY <1>3, <1>4, <1>5, <1>6, <1>7, <1>8, TablesRec
<1>10. va \in VA
  BY <1>3, <1>6, <1>9 DEF RefInv, MappedInv
<1>11. Live(e)
  <2>1. 0 \in Level
    BY <1>4
  <2> QED BY <1>3, <2>1, ConstFacts DEF Live
<1>12. walk' \in Walk
  <2>1. walk' # NoWalk
    <3>1. va \in [Level -> Index]
      BY <1>6 DEF Addr
    <3>2. StartWalk("page_remove", e, va)
      BY <1>2 DEF va
    <3> QED BY <1>3, <1>11, <3>1, <3>2, StartFacts DEF RefInv, WalkOp
  <2> QED BY <2>1 DEF IInv, TypeOK
<1>13. StartWalk("page_remove", e, va)
  BY <1>2 DEF va
<1> QED BY <1>1, <1>3, <1>10, <1>11, <1>12, <1>13, StartSimulated

(* env_free gives back an empty table: nothing to see.                     *)
LEMMA LeaveSimulated ==
  ASSUME RefInv, FreeLeave, TypeOK'
  PROVE  UNCHANGED Memory!vars /\ MappedInv' /\ PathInv'
<1> DEFINE l == freeing.l
           up == freeing.l - 1
           c == <<freeing.tab[up], freeing.pten[up]>>
           h == freeing.tab[l]
<1>1. /\ walk = NoWalk /\ walk' = NoWalk /\ freeing # NotFreeing /\ l > 0 /\ Rest = {}
      /\ pte' = [pte EXCEPT ![c] = NoPage] /\ pp' = pp
  BY DEF FreeLeave, Drop
<1>2. /\ l \in Level /\ h \in Page /\ FreeTable = h /\ level[h] = l
      /\ up \in 0..(l - 1) /\ up \in Level /\ up + 1 = l
      /\ freeing.tab[up] \in Page /\ freeing.pten[up] \in Index
      /\ pte[c] = h
      /\ \A j \in Index : pte[<<h, j>>] = NoPage
  <2>1. /\ l \in Level /\ freeing.tab \in [Level -> Page]
        /\ FreeTable = h /\ level[h] = l
    BY <1>1, FreeingFacts DEF RefInv
  <2>2. up \in 0..(l - 1) /\ up \in Level /\ up + 1 = l
    BY <1>1, <2>1, ConstFacts DEF Level
  <2>3. freeing.pten[up] \in Index /\ pte[c] = freeing.tab[up + 1]
    BY <1>1, <2>2, FreeingFacts DEF RefInv
  <2>4. \A j \in Index : pte[<<FreeTable, j>>] = NoPage
    BY <1>1, FreeingFacts DEF RefInv
  <2> HIDE DEF l, up, c
  <2> QED BY <2>1, <2>2, <2>3, <2>4
<1>3. pte \in EntryType /\ pte' \in EntryType /\ Trees(pte, level)
  BY EntriesAre, TreesAre DEF RefInv, IInv, Mem
<1>4. c \in Cell /\ freeing.tab[up] \notin AS
  BY <1>2, ConstFacts DEF Cell
<1>5. (\A d \in Cell : d # c => pte[d] = pte'[d]) /\ pte'[c] = NoPage
  BY <1>1, <1>3, <1>4 DEF EntryType
<1>6. level[h] < Depth
  BY <1>2, ConstFacts DEF Level
<1>7. SameAddresses
  <2> SUFFICES ASSUME NEW b \in AS, NEW vb \in Addr
               PROVE  Tables(pte, b, vb)[Depth] = Tables(pte', b, vb)[Depth]
    BY DEF SameAddresses
  <2> HIDE DEF c, h
  <2> QED BY <1>2, <1>3, <1>4, <1>5, <1>6, EmptyTable
<1>8. \A b \in AS : pte'[TTBR0(b)] = pte[TTBR0(b)]
  BY <1>4, <1>5 DEF TTBR0, Cell
<1>9. CallNow' = CallNow /\ PathInv'
  BY <1>1 DEF CallNow, PathInv
<1> QED BY <1>1, <1>7, <1>8, <1>9, StutterSimulated

(* env_free gives back the directory: the space is gone, and was empty.    *)
LEMMA RootSimulated ==
  ASSUME RefInv, FreeRoot, TypeOK'
  PROVE  Memory!Retire(freeing.e) /\ freeing.e \in AS /\ MappedInv' /\ PathInv'
<1> DEFINE e == freeing.e
           c == TTBR0(e)
           h == freeing.tab[0]
<1>1. /\ walk = NoWalk /\ walk' = NoWalk /\ freeing # NotFreeing /\ freeing.l = 0 /\ Rest = {}
      /\ pte' = [pte EXCEPT ![c] = NoPage] /\ pp' = pp
  BY DEF FreeRoot, Drop
<1>2. /\ e \in AS /\ 0 \in Level /\ h \in Page /\ FreeTable = h /\ level[h] = 0
      /\ pte[c] = h /\ h # NoPage
      /\ \A j \in Index : pte[<<h, j>>] = NoPage
  BY <1>1, FreeingFacts, ConstFacts DEF RefInv
<1>3. pte \in EntryType /\ pte' \in EntryType /\ Trees(pte, level)
  BY EntriesAre, TreesAre DEF RefInv, IInv, Mem
<1>4. c \in Cell
  BY <1>2 DEF Cell, TTBR0
<1>5. (\A d \in Cell : d # c => pte[d] = pte'[d]) /\ pte'[c] = NoPage
  BY <1>1, <1>3, <1>4 DEF EntryType
<1>6. level[h] < Depth
  BY <1>2, ConstFacts
<1>7. SameAddresses
  <2> SUFFICES ASSUME NEW b \in AS, NEW vb \in Addr
               PROVE  Tables(pte, b, vb)[Depth] = Tables(pte', b, vb)[Depth]
    BY DEF SameAddresses
  <2> HIDE DEF c, h
  <2> QED BY <1>2, <1>3, <1>4, <1>5, <1>6, EmptyTable
<1>8. MapNow' = MapNow /\ MappedInv'
  BY <1>7, MapIs DEF RefInv
<1>9. CallNow = NoWalk /\ CallNow' = NoWalk /\ PathInv'
  BY <1>1 DEF CallNow, PathInv
<1>10. Spaces' = Spaces \ {e} /\ e \in Spaces
  <2>1. Spaces = {b \in AS : pte[TTBR0(b)] # NoPage} /\ Spaces' = {b \in AS : pte'[TTBR0(b)] # NoPage}
    BY DEF Spaces, Live, TTBR0
  <2>2. \A b \in AS : b # e => TTBR0(b) \in Cell /\ TTBR0(b) # c
    BY DEF TTBR0, Cell
  <2>3. \A b \in AS : b # e => pte'[TTBR0(b)] = pte[TTBR0(b)]
    BY <1>5, <2>2
  <2> HIDE DEF h
  <2> QED BY <1>2, <1>5, <2>1, <2>3
<1>11. \A va \in VA : MapNow[e][va] = NoPage
  <2> SUFFICES ASSUME NEW va \in VA PROVE Tables(pte, e, va)[Depth] = NoPage
    BY <1>2, MapIs DEF MapOf
  <2>1. va \in Addr /\ va[0] \in Index
    BY <1>2, VAType DEF Addr
  <2>2. Tables(pte, e, va)[0] = h
    BY <1>2, <1>3, <2>1, TablesRec
  <2>3. 1 \in 1..Depth /\ 1 - 1 = 0 /\ 1 \in 0..Depth /\ Depth \in 1..Depth
    BY ConstFacts
  <2>4. Tables(pte, e, va)[1] = pte[<<h, va[0]>>]
    BY <1>2, <1>3, <2>1, <2>2, <2>3, TablesRec
  <2>5. Tables(pte, e, va)[1] = NoPage
    BY <1>2, <2>1, <2>4
  <2> QED BY <1>2, <1>3, <2>1, <2>3, <2>5, EmptyBelow
<1> QED BY <1>1, <1>2, <1>8, <1>9, <1>10, <1>11 DEF Memory!Retire
-----------------------------------------------------------------------------
(* Every step of pmap.c is one of the memory it promises, or is not seen.  *)
LEMMA RefNext ==
  ASSUME SelfDestroyOnly, RefInv, RefFits', [Next]_vars
  PROVE  RefInv' /\ [Memory!Next]_(Memory!vars)
<1>1. IInv'
  BY NextInv DEF RefInv
<1>2. TypeOK' /\ walk' \in Walk \cup {NoWalk}
  BY <1>1 DEF IInv, TypeOK
<1> SUFFICES MappedInv' /\ PathInv' /\ [Memory!Next]_(Memory!vars)
  BY <1>1 DEF RefInv
<1>3. CASE Call
  <2>1. CASE page_alloc
    BY <2>1, AllocSimulated DEF Memory!Next
  <2>2. ASSUME NEW a \in AS, NEW va \in VA, page_lookup(a, va) \/ page_remove(a, va)
        PROVE  MappedInv' /\ PathInv' /\ Memory!Next
    <3>1. PICK op \in {"page_lookup", "page_remove"} :
            /\ walk = NoWalk /\ Live(a) /\ StartWalk(op, a, va)
            /\ pte' = pte /\ pp' = NoPage
      BY <2>2 DEF page_lookup, page_remove, Idle
    <3>2. walk' \in Walk
      <4>1. va \in [Level -> Index] /\ op \in WalkOp
        BY VAType DEF Addr, WalkOp
      <4> QED BY <3>1, <4>1, StartFacts DEF RefInv
    <3> QED BY <3>1, <3>2, StartSimulated
  <2>3. ASSUME NEW a \in AS, NEW va \in VA, page_insert(a, va)
        PROVE  MappedInv' /\ PathInv' /\ Memory!Next
    <3>1. /\ walk = NoWalk /\ Live(a) /\ StartWalk("page_insert", a, va)
          /\ pte' = pte /\ pp' = pp /\ pp # NoPage
      BY <2>3 DEF page_insert, Idle
    <3>2. walk' \in Walk
      <4>1. va \in [Level -> Index] /\ "page_insert" \in WalkOp
        BY VAType DEF Addr, WalkOp
      <4> QED BY <3>1, <4>1, StartFacts DEF RefInv
    <3> QED BY <3>1, <3>2, StartSimulated
  <2>4. ASSUME NEW a \in AS, env_setup_vm(a)
        PROVE  MappedInv' /\ PathInv' /\ Memory!Next
    BY <1>1, <2>4, SetupSimulated DEF Memory!Next
  <2>5. ASSUME NEW c \in AS, NEW e \in AS, env_free(c, e)
        PROVE  MappedInv' /\ PathInv' /\ Memory!Next
    BY <2>5, ForgetSimulated DEF Memory!Next
  <2> QED BY <1>3, <2>1, <2>2, <2>3, <2>4, <2>5 DEF Call
<1>4. CASE WalkStep
  <2>1. CASE WalkDown
    <3>1. walk' # NoWalk
      <4>1. /\ walk # NoWalk /\ walk' = [walk EXCEPT !.t = pte[Entry], !.l = walk.l + 1]
            /\ ~AtLeaf /\ pte[Entry] # NoPage
        BY <2>1 DEF WalkDown
      <4>2. walk \in Walk /\ pte[Entry] \in Page /\ walk.l + 1 \in Level
        BY <4>1, CallIs, EntryFacts, ConstFacts DEF RefInv, AtLeaf, LeafLevel, Level
      <4>3. walk' \in Walk
        BY <4>1, <4>2 DEF Walk
      <4> QED BY <4>3, NullAssumption
    <3> QED BY <1>2, <2>1, <3>1, DownSimulated
  <2>2. CASE WalkCreate
    BY <1>1, <2>2, CreateSimulated
  <2>3. CASE WalkNoMem
    BY <2>3, NoMemSimulated DEF Memory!Next
  <2>4. CASE WalkAbsent
    BY <2>4, AbsentSimulated DEF Memory!Next
  <2>5. CASE InsertSame
    BY <2>5, SameSimulated DEF Memory!Next
  <2>6. CASE InsertReplace
    BY <1>2, <2>6, ReplaceSimulated DEF Memory!Next
  <2>7. CASE InsertMap
    BY <1>2, <2>7, MapSimulated DEF Memory!Next
  <2>8. CASE LookupFound
    BY <2>8, FoundSimulated DEF Memory!Next
  <2>9. CASE RemoveLeaf
    BY <1>2, <2>9, RemoveSimulated DEF Memory!Next
  <2> QED BY <1>4, <2>1, <2>2, <2>3, <2>4, <2>5, <2>6, <2>7, <2>8, <2>9 DEF WalkStep
<1>5. CASE FreeStep
  <2>1. CASE FreeEnter
    BY <2>1, EnterSimulated
  <2>2. CASE FreeLeaf
    BY <1>1, <2>2, FreeLeafSimulated
  <2>3. CASE FreeLeave
    BY <1>2, <2>3, LeaveSimulated
  <2>4. CASE FreeRoot
    BY <1>2, <2>4, RootSimulated DEF Memory!Next
  <2> QED BY <1>5, <2>1, <2>2, <2>3, <2>4 DEF FreeStep
<1>6. CASE UNCHANGED vars
  <2>1. walk' = walk /\ pte' = pte /\ pp' = pp
    BY <1>6 DEF vars
  <2>2. CallNow' = CallNow /\ PathInv'
    BY <2>1 DEF CallNow, Inserting, PathInv, RefInv
  <2> QED BY <2>1, <2>2, StutterSimulated, SpacesAre
<1> QED BY <1>3, <1>4, <1>5, <1>6 DEF Next

(* At boot there is no address space.                                      *)
LEMMA RefInit ==
  ASSUME Init
  PROVE  RefInv /\ Memory!Init
<1>1. /\ walk = NoWalk /\ pp = NoPage /\ pte = [c \in Cell |-> NoPage]
      /\ pte \in EntryType /\ IInv
  BY InitInv DEF Init, EntryType
<1>2. ASSUME NEW a \in AS, NEW va \in Addr PROVE Tables(pte, a, va)[Depth] = NoPage
  <2>1. TTBR0(a) \in Cell /\ 0 \in 0..Depth /\ Depth \in 0..Depth
    BY ConstFacts DEF TTBR0, Cell
  <2>2. Tables(pte, a, va)[0] = NoPage
    BY <1>1, <2>1, TablesRec
  <2> QED BY <1>1, <2>1, <2>2, EmptyBelow
<1>3. MappedInv /\ PathInv
  BY <1>1, <1>2 DEF MappedInv, PathInv
<1>4. MapNow = [a \in AS |-> [va \in VA |-> NoPage]]
  BY <1>2, MapIs, VAType DEF MapOf
<1>5. Spaces = {}
  <2>1. \A a \in AS : TTBR0(a) \in Cell
    BY DEF TTBR0, Cell
  <2> QED BY <1>1, <2>1 DEF Spaces, Live
<1>6. CallNow = NoWalk
  BY <1>1 DEF CallNow
<1> QED BY <1>1, <1>3, <1>4, <1>5, <1>6 DEF RefInv, Memory!Init

(* pmap.c implements the memory of PageMap: whatever tables, counts and    *)
(* free pages it goes through, its callers see a map per address space     *)
(* that changes at the address of a call, and nowhere else.                *)
THEOREM PageMapCorrect ==
  ASSUME SelfDestroyOnly
  PROVE  Spec /\ []RefFits => PageMapSpec
<1>1. Init => RefInv /\ Memory!Init
  BY RefInit
<1>2. RefInv /\ RefFits' /\ [Next]_vars => RefInv' /\ [Memory!Next]_(Memory!vars)
  BY RefNext
<1> QED
  BY <1>1, <1>2, PTL DEF Spec, PageMapSpec, Memory!Spec

(* With less memory than a count can hold no count wraps around, and       *)
(* pmap.c implements that memory unconditionally.                          *)
THEOREM SmallMemoryPageMap ==
  ASSUME SelfDestroyOnly, Cardinality(Cell) < RefMod
  PROVE  Spec => PageMapSpec
<1>1. RefFits
  BY FewEntries
<1> QED
  BY <1>1, PageMapCorrect, PTL
=============================================================================
