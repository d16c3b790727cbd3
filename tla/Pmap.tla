-------------------------------- MODULE Pmap --------------------------------
(***************************************************************************)
(* The physical page allocator and the page tables of user address spaces  *)
(* (src/os/mm/pmap.c), with the two operations of src/os/lib/env.c that    *)
(* build and tear down a table tree: env_setup_vm and env_free.            *)
(*                                                                         *)
(* Tables are modelled where they live, in physical pages: pte maps a cell *)
(* <<t, i>>, entry i of page t, to the page it points to.  A call of       *)
(* pgdir_walk is a cursor that goes down one level per step, and env_free  *)
(* is the four nested loops of the code, so every intermediate state of a  *)
(* call is a state of the model.  The kernel runs with interrupts masked:  *)
(* one call ends before the next one starts.  Which call comes next is up  *)
(* to the rest of the kernel, and any is allowed that respects the way the *)
(* callers use the page pointer they hold (variable pp).                   *)
(*                                                                         *)
(* The permission bits of an entry, the TLB and the contents of data pages *)
(* are left to the modules above this one.                                 *)
(***************************************************************************)
EXTENDS Integers, Sequences, FiniteSets

CONSTANTS
  Page,        \* the pages page_init puts on the free list
  AS,          \* address spaces: the slots of envs[], one page directory each
  Depth,       \* levels of table: pgtable0 .. pgtable3, 4 in the code
  PTE2PT,      \* entries in a table, 512 in the code
  VA,          \* the addresses the callers use, each as its table indices
  RefMod,      \* pp_ref is an u_short: 2^16 in the code
  BootList,    \* the free list page_init builds: the last page first
  BootRef,     \* what the pp_ref words hold when page_init has run
  MayDestroy,  \* <<c, e>>: env_free(e) may be called while curenv is c
  NoPage,      \* an entry without PTE_V; a null struct Page pointer
  NoWalk,      \* no call of pmap.c is in progress
  NotFreeing   \* env_free is not in progress

Level == 0..(Depth - 1)
LeafLevel == Depth - 1
Index == 0..(PTE2PT - 1)

(* TTBR0(a) is the field env_ttbr0 of slot a: it holds NoPage while the    *)
(* slot is free (env_free leaves a stale pointer there that nothing reads).*)
TTBR0(a) == <<a, 0>>
Cell == (Page \X Index) \cup (AS \X {0})

ASSUME ConstAssumption ==
  /\ Depth \in Nat \ {0}
  /\ PTE2PT \in Nat \ {0}
  /\ RefMod \in Nat \ {0, 1}
  /\ IsFiniteSet(Page) /\ IsFiniteSet(AS)
  /\ Page \cap AS = {}
  /\ NoPage \notin Page
  /\ VA \subseteq [Level -> Index]
  /\ BootList \in Seq(Page)
  /\ \A i, j \in 1..Len(BootList) : BootList[i] = BootList[j] => i = j
  /\ {BootList[i] : i \in 1..Len(BootList)} = Page
  /\ BootRef \in [Page -> 0..(RefMod - 1)]
  /\ MayDestroy \subseteq AS \X AS

(* A walk down the tables of one address space.  It starts at env_ttbr0    *)
(* and t is the table of level l it has reached.  "page_insert_again" is   *)
(* the second walk of a page_insert that has removed the old page.         *)
WalkOp == {"page_insert", "page_insert_again", "page_remove", "page_lookup"}
Walk == [op : WalkOp, as : AS, va : [Level -> Index], t : Page, l : Level]

(* env_free(e) while curenv is c: tab[l] is the table the loop of level l  *)
(* goes through and pten[l] the index it has reached, l the innermost loop *)
(* that is running.                                                        *)
Freeing == [c : AS, e : AS, l : Level, tab : [Level -> Page],
            pten : [Level -> 0..PTE2PT]]

(* What the caller knows of the walk it waits for.                         *)
Waiting == [op : {"page_insert", "page_remove", "page_lookup"}, as : AS, va : VA,
            unmapped : BOOLEAN]

ASSUME NullAssumption ==
  NoWalk \notin Walk \cup Waiting /\ NotFreeing \notin Freeing

VARIABLES
  page_free_list,  \* the free list, its head first
  pp_ref,          \* reference counts
  pte,             \* the table entries, and env_ttbr0 of every slot
  walk,            \* the call of page_insert, _remove or _lookup in progress
  freeing,         \* the call of env_free in progress
  pp,              \* the page the caller got from page_alloc or page_lookup
  level,           \* auxiliary: what a page was last allocated for, a table
                   \* of level 0..Depth-1 or (Depth) a page of data
  lost             \* auxiliary: pages given up because page_insert failed

vars == <<page_free_list, pp_ref, pte, walk, freeing, pp, level, lost>>

Free == {page_free_list[i] : i \in 1..Len(page_free_list)}
Live(a) == pte[TTBR0(a)] # NoPage

(***************************************************************************)
(* page_alloc, page_free and page_decref                                   *)
(***************************************************************************)

(* The bzero of page_alloc.                                                *)
Bzero(p) == [c \in Cell |-> IF c[1] = p THEN NoPage ELSE pte[c]]

(* The body of page_alloc; its callers then count the page n times.        *)
Pop(n, lev) ==
  LET p == Head(page_free_list) IN
  /\ page_free_list # <<>>
  /\ page_free_list' = Tail(page_free_list)
  /\ pp_ref' = [pp_ref EXCEPT ![p] = n]
  /\ level' = [level EXCEPT ![p] = lev]

(* Mutant of PopTable: pgdir_walk without ppage->pp_ref++.                 *)
PopTableUncounted(c, lev) ==
  /\ Pop(0, lev)
  /\ pte' = [Bzero(Head(page_free_list)) EXCEPT ![c] = Head(page_free_list)]

(* page_alloc of a table of level lev, linked from cell c.                 *)
PopTable(c, lev) ==
  /\ Pop(1, lev)
  /\ pte' = [Bzero(Head(page_free_list)) EXCEPT ![c] = Head(page_free_list)]

Decref(ref, p) == IF ref[p] = 0 THEN ref ELSE [ref EXCEPT ![p] = @ - 1]
Incref(ref, p) == [ref EXCEPT ![p] = (@ + 1) % RefMod]

(* Mutant of ListAfterDecref: page_free without the test of pp_ref.        *)
ListAfterEveryDecref(p) == <<p>> \o page_free_list

(* page_decref puts p back when its count is, or becomes, zero.            *)
ListAfterDecref(p) ==
  IF pp_ref[p] \in {0, 1} THEN <<p>> \o page_free_list ELSE page_free_list

(* Mutant of Drop: page_remove without *pagetable_entry = 0.               *)
DropKeepingEntry(c) ==
  /\ pp_ref' = Decref(pp_ref, pte[c])
  /\ page_free_list' = ListAfterDecref(pte[c])
  /\ UNCHANGED pte

(* Clearing a cell and page_decref of the page it pointed to.              *)
Drop(c) ==
  /\ pp_ref' = Decref(pp_ref, pte[c])
  /\ page_free_list' = ListAfterDecref(pte[c])
  /\ pte' = [pte EXCEPT ![c] = NoPage]

(***************************************************************************)
(* Calls.  Outside any call the kernel may start one.                      *)
(***************************************************************************)
Idle == walk = NoWalk /\ freeing = NotFreeing

(* Every caller inserts a page it has allocated before it asks for another *)
(* one: pp is null, or is in some table.                                   *)
Settled == pp # NoPage => pp_ref[pp] # 0

StartWalk(op, a, va) ==
  walk' = [op |-> op, as |-> a, va |-> va, t |-> pte[TTBR0(a)], l |-> 0]

(* There is always an address space to insert the page into.               *)
page_alloc ==
  /\ Idle /\ Settled /\ \E a \in AS : Live(a)
  /\ Pop(0, Depth)
  /\ pte' = Bzero(Head(page_free_list))
  /\ pp' = Head(page_free_list)
  /\ UNCHANGED <<walk, freeing, lost>>

page_lookup(a, va) ==
  /\ Idle /\ Settled /\ Live(a)
  /\ StartWalk("page_lookup", a, va)
  /\ pp' = NoPage
  /\ UNCHANGED <<page_free_list, pp_ref, pte, freeing, level, lost>>

page_insert(a, va) ==
  /\ Idle /\ Live(a) /\ pp # NoPage
  /\ StartWalk("page_insert", a, va)
  /\ UNCHANGED <<page_free_list, pp_ref, pte, freeing, pp, level, lost>>

page_remove(a, va) ==
  /\ Idle /\ Settled /\ Live(a)
  /\ StartWalk("page_remove", a, va)
  /\ pp' = NoPage
  /\ UNCHANGED <<page_free_list, pp_ref, pte, freeing, level, lost>>

(* The slot comes from env_free_list.  Without a free page the kernel      *)
(* panics, which ends the run.                                             *)
env_setup_vm(a) ==
  /\ Idle /\ Settled /\ ~Live(a)
  /\ PopTable(TTBR0(a), 0)
  /\ pp' = NoPage
  /\ UNCHANGED <<walk, freeing, lost>>

(***************************************************************************)
(* The steps of a walk                                                     *)
(***************************************************************************)
(* Mutant of Entry: every level indexed as the first one.                  *)
EntryOfTopIndex == <<walk.t, walk.va[0]>>

Entry == <<walk.t, walk.va[walk.l]>>
AtLeaf == walk.l = LeafLevel
Inserting == walk # NoWalk /\ walk.op \in {"page_insert", "page_insert_again"}

(* Mutant of WalkDown: pgdir_walk without the test of PTE_V.               *)
WalkDownUnchecked ==
  /\ walk # NoWalk /\ ~AtLeaf
  /\ walk' = [walk EXCEPT !.t = pte[Entry], !.l = @ + 1]
  /\ UNCHANGED <<page_free_list, pp_ref, pte, freeing, pp, level, lost>>

WalkDown ==
  /\ walk # NoWalk /\ ~AtLeaf /\ pte[Entry] # NoPage
  /\ walk' = [walk EXCEPT !.t = pte[Entry], !.l = @ + 1]
  /\ UNCHANGED <<page_free_list, pp_ref, pte, freeing, pp, level, lost>>

(* pgdir_walk with create = 1.                                             *)
WalkCreate ==
  /\ Inserting /\ ~AtLeaf /\ pte[Entry] = NoPage
  /\ PopTable(Entry, walk.l + 1)
  /\ walk' = [walk EXCEPT !.t = Head(page_free_list), !.l = @ + 1]
  /\ UNCHANGED <<freeing, pp, lost>>

(* Mutant of WalkNoMem: the walk waits for a page instead of failing.      *)
WalkNoMemRetry ==
  /\ Inserting /\ ~AtLeaf /\ pte[Entry] = NoPage
  /\ page_free_list = <<>>
  /\ UNCHANGED vars

(* -E_NO_MEM.  A caller that has just allocated pp has no other pointer to *)
(* it and never gives it back.                                             *)
WalkNoMem ==
  /\ Inserting /\ ~AtLeaf /\ pte[Entry] = NoPage
  /\ page_free_list = <<>>
  /\ walk' = NoWalk
  /\ pp' = NoPage
  /\ lost' = IF Settled THEN lost ELSE lost \cup {pp}
  /\ UNCHANGED <<page_free_list, pp_ref, pte, freeing, level>>

(* pgdir_walk with create = 0 finds no table, or page_lookup no page.      *)
WalkAbsent ==
  /\ walk # NoWalk /\ ~Inserting /\ pte[Entry] = NoPage
  /\ walk' = NoWalk
  /\ UNCHANGED <<page_free_list, pp_ref, pte, freeing, pp, level, lost>>

(* The page is there already: only its permission bits are rewritten.      *)
InsertSame ==
  /\ walk # NoWalk /\ walk.op = "page_insert" /\ AtLeaf /\ pte[Entry] = pp
  /\ walk' = NoWalk
  /\ UNCHANGED <<page_free_list, pp_ref, pte, freeing, pp, level, lost>>

(* Mutant of InsertReplace: page_insert without the page_remove.           *)
InsertOverwrite ==
  /\ walk # NoWalk /\ walk.op = "page_insert" /\ AtLeaf
  /\ pte[Entry] \notin {NoPage, pp}
  /\ pp_ref' = Incref(pp_ref, pp)
  /\ pte' = [pte EXCEPT ![Entry] = pp]
  /\ walk' = NoWalk
  /\ UNCHANGED <<page_free_list, freeing, pp, level, lost>>

(* Another page is there: page_remove, and the second walk.                *)
InsertReplace ==
  /\ walk # NoWalk /\ walk.op = "page_insert" /\ AtLeaf
  /\ pte[Entry] \notin {NoPage, pp}
  /\ Drop(Entry)
  /\ StartWalk("page_insert_again", walk.as, walk.va)
  /\ UNCHANGED <<freeing, pp, level, lost>>

(* The entry is written, and the page counted.                             *)
InsertMap ==
  /\ Inserting /\ AtLeaf /\ pte[Entry] = NoPage
  /\ pp_ref' = Incref(pp_ref, pp)
  /\ pte' = [pte EXCEPT ![Entry] = pp]
  /\ walk' = NoWalk
  /\ UNCHANGED <<page_free_list, freeing, pp, level, lost>>

LookupFound ==
  /\ walk # NoWalk /\ walk.op = "page_lookup" /\ AtLeaf /\ pte[Entry] # NoPage
  /\ pp' = pte[Entry]
  /\ walk' = NoWalk
  /\ UNCHANGED <<page_free_list, pp_ref, pte, freeing, level, lost>>

RemoveLeaf ==
  /\ walk # NoWalk /\ walk.op = "page_remove" /\ AtLeaf /\ pte[Entry] # NoPage
  /\ Drop(Entry)
  /\ walk' = NoWalk
  /\ UNCHANGED <<freeing, pp, level, lost>>

WalkStep == \/ WalkDown \/ WalkCreate \/ WalkNoMem \/ WalkAbsent
            \/ InsertSame \/ InsertReplace \/ InsertMap
            \/ LookupFound \/ RemoveLeaf

(***************************************************************************)
(* env_free(e).  The loops go through the tables of curenv, c; the leaves  *)
(* are removed from the tables of e.                                       *)
(***************************************************************************)
FreeTable == freeing.tab[freeing.l]
ValidFrom(t, i) == {j \in i..(PTE2PT - 1) : pte[<<t, j>>] # NoPage}
Rest == ValidFrom(FreeTable, freeing.pten[freeing.l])

env_free(c, e) ==
  /\ Idle /\ Settled /\ Live(c) /\ Live(e) /\ <<c, e>> \in MayDestroy
  /\ freeing' = [c |-> c, e |-> e, l |-> 0,
                 tab |-> [m \in Level |-> pte[TTBR0(c)]],
                 pten |-> [m \in Level |-> 0]]
  /\ pp' = NoPage
  /\ UNCHANGED <<page_free_list, pp_ref, pte, walk, level, lost>>

(* The next valid entry is a table: its loop starts.                       *)
FreeEnter ==
  /\ walk = NoWalk /\ freeing # NotFreeing /\ freeing.l < LeafLevel
  /\ \E i \in Rest :
       /\ \A j \in Rest : i <= j
       /\ freeing' = [freeing EXCEPT
            !.l = @ + 1,
            !.tab = [@ EXCEPT ![freeing.l + 1] = pte[<<FreeTable, i>>]],
            !.pten = [@ EXCEPT ![freeing.l] = i, ![freeing.l + 1] = 0]]
  /\ UNCHANGED <<page_free_list, pp_ref, pte, walk, pp, level, lost>>

(* The next valid entry is a leaf: page_remove of its address in e.        *)
FreeLeaf ==
  /\ walk = NoWalk /\ freeing # NotFreeing /\ freeing.l = LeafLevel
  /\ \E i \in Rest :
       /\ \A j \in Rest : i <= j
       /\ StartWalk("page_remove", freeing.e, [freeing.pten EXCEPT ![LeafLevel] = i])
       /\ freeing' = [freeing EXCEPT !.pten = [@ EXCEPT ![LeafLevel] = i + 1]]
  /\ UNCHANGED <<page_free_list, pp_ref, pte, pp, level, lost>>

(* Mutant of FreeLeave: env_free without the page_decref of a table.       *)
FreeLeaveKeepingTable ==
  /\ walk = NoWalk /\ freeing # NotFreeing /\ freeing.l > 0 /\ Rest = {}
  /\ LET up == freeing.l - 1 IN
       /\ pte' = [pte EXCEPT ![<<freeing.tab[up], freeing.pten[up]>>] = NoPage]
       /\ freeing' = [freeing EXCEPT !.l = up,
                                    !.pten = [@ EXCEPT ![up] = freeing.pten[up] + 1]]
  /\ UNCHANGED <<page_free_list, pp_ref, walk, pp, level, lost>>

(* No entry left: the entry above is cleared and the table given back.     *)
FreeLeave ==
  /\ walk = NoWalk /\ freeing # NotFreeing /\ freeing.l > 0 /\ Rest = {}
  /\ LET up == freeing.l - 1 IN
       /\ Drop(<<freeing.tab[up], freeing.pten[up]>>)
       /\ freeing' = [freeing EXCEPT !.l = up,
                                    !.pten = [@ EXCEPT ![up] = freeing.pten[up] + 1]]
  /\ UNCHANGED <<walk, pp, level, lost>>

(* Mutant of FreeRoot: env_free without the page_decref of the directory.  *)
FreeRootKeepingDirectory ==
  /\ walk = NoWalk /\ freeing # NotFreeing /\ freeing.l = 0 /\ Rest = {}
  /\ pte' = [pte EXCEPT ![TTBR0(freeing.e)] = NoPage]
  /\ freeing' = NotFreeing
  /\ UNCHANGED <<page_free_list, pp_ref, walk, pp, level, lost>>

(* The page directory of e goes back, and e becomes ENV_FREE.              *)
FreeRoot ==
  /\ walk = NoWalk /\ freeing # NotFreeing /\ freeing.l = 0 /\ Rest = {}
  /\ Drop(TTBR0(freeing.e))
  /\ freeing' = NotFreeing
  /\ UNCHANGED <<walk, pp, level, lost>>

FreeStep == FreeEnter \/ FreeLeaf \/ FreeLeave \/ FreeRoot

-----------------------------------------------------------------------------
Init ==
  /\ page_free_list = BootList
  /\ pp_ref = BootRef
  /\ pte = [c \in Cell |-> NoPage]
  /\ walk = NoWalk
  /\ freeing = NotFreeing
  /\ pp = NoPage
  /\ level = [p \in Page |-> Depth]
  /\ lost = {}

Call == \/ page_alloc
        \/ \E a \in AS, va \in VA :
             page_lookup(a, va) \/ page_insert(a, va) \/ page_remove(a, va)
        \/ \E a \in AS : env_setup_vm(a)
        \/ \E c, e \in AS : env_free(c, e)

Next == Call \/ WalkStep \/ FreeStep

Spec == Init /\ [][Next]_vars

(* Nothing else runs while a call is in progress: interrupts are masked.   *)
FairSpec == Spec /\ WF_vars(WalkStep \/ FreeStep)
-----------------------------------------------------------------------------
(***************************************************************************)
(* Properties                                                              *)
(***************************************************************************)

(* The pages and cells that hold a reference to p.                         *)
Refs(p) == {c \in Cell : pte[c] = p}

(* The address va of slot a, as pgdir_walk resolves it.                    *)
Resolve(a, va) ==
  LET tab[l \in 0..Depth] ==
        IF l = 0 THEN pte[TTBR0(a)]
        ELSE IF tab[l - 1] = NoPage THEN NoPage
        ELSE pte[<<tab[l - 1], va[l - 1]>>]
  IN tab[Depth]

(* The variables keep the shapes the code gives them, and the pages a walk *)
(* or env_free stands on are real tables, never null.                      *)
TypeOK ==
  /\ page_free_list \in Seq(Page)
  /\ pp_ref \in [Page -> 0..(RefMod - 1)]
  /\ pte \in [Cell -> Page \cup {NoPage}]
  /\ walk \in Walk \cup {NoWalk}
  /\ freeing \in Freeing \cup {NotFreeing}
  /\ pp \in Page \cup {NoPage}
  /\ level \in [Page -> 0..Depth]
  /\ lost \subseteq Page

(* pp_ref is the count of pointers to a page (pmap.h:17), between any two  *)
(* steps of a walk or of the teardown of a tree.                           *)
RefCounts == \A p \in Page \ Free : pp_ref[p] = Cardinality(Refs(p))

(* What that takes: no page is mapped more often than an u_short can tell. *)
RefFits == \A p \in Page : Cardinality(Refs(p)) < RefMod

(* The free list has no page twice, no page some table still points to, no *)
(* page the kernel is about to insert, and no page with entries left in    *)
(* it: page_free happens exactly once, when the last reference goes.       *)
FreeSound ==
  /\ \A i, j \in 1..Len(page_free_list) :
       page_free_list[i] = page_free_list[j] => i = j
  /\ pp \notin Free
  /\ \A c \in Cell : pte[c] \notin Free /\ (c[1] \in Free => pte[c] = NoPage)

(* The entries form trees: a table of level l is pointed to by exactly one *)
(* entry, of a table of level l - 1 (a directory by its slot only), and a  *)
(* page of data is never used as a table.  So no two address spaces share  *)
(* a table, whatever pages they share.                                     *)
TreeSound ==
  \A c \in Cell : pte[c] # NoPage =>
    /\ IF c[1] \in AS THEN level[pte[c]] = 0
       ELSE level[c[1]] < Depth /\ level[pte[c]] = level[c[1]] + 1
    /\ level[pte[c]] < Depth => Refs(pte[c]) = {c}

(* Every page is free, or reachable from a table that is itself in use, or *)
(* in the hands of the kernel, or was given up when memory ran out: env_free *)
(* and page_remove give back everything else.                              *)
NoLeak ==
  \A p \in Page :
    \/ p \in Free \cup lost \cup {pp}
    \/ \E c \in Refs(p) : c[1] \notin Free

(* Every call returns: the loops of pgdir_walk and env_free end.           *)
CallsReturn == ~Idle ~> Idle

(* What the rest of the kernel is promised: the abstract memory of PageMap.*)
Spaces == {a \in AS : Live(a)}
MapNow == [a \in AS |-> [va \in VA |-> Resolve(a, va)]]
CallNow ==
  IF walk = NoWalk THEN NoWalk
  ELSE [op |-> IF Inserting THEN "page_insert" ELSE walk.op,
        as |-> walk.as, va |-> walk.va,
        unmapped |-> walk.op = "page_insert_again"]

Memory == INSTANCE PageMap WITH
  live <- Spaces, map <- MapNow, hand <- pp, call <- CallNow, NoCall <- NoWalk
PageMapSpec == Memory!Spec
=============================================================================
