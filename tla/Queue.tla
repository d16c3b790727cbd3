-------------------------------- MODULE Queue --------------------------------
(***************************************************************************)
(* The lists of src/os/include/queue.h, as page_free_list and              *)
(* env_free_list use them: the macros, assignment by assignment.           *)
(*                                                                         *)
(* A list l is what its macros can reach: the head's lh_first, and le_next *)
(* and le_prev of every element.  le_prev is the address of the pointer    *)
(* that leads to the element: HEAD for lh_first, or x for the le_next of x.*)
(***************************************************************************)
EXTENDS Integers, Sequences

CONSTANTS
  Element,  \* struct Page or struct Env
  NULL,
  HEAD      \* the address of lh_first

ASSUME QueueAssumption == NULL \notin Element /\ HEAD \notin Element

List == [first : Element \cup {NULL},
         next : [Element -> Element \cup {NULL}],
         prev : [Element -> Element \cup {NULL, HEAD}]]

(* Assignments: through a pointer to a pointer, to le_next, to le_prev.    *)
Assign(l, address, x) ==
  IF address = HEAD THEN [l EXCEPT !.first = x] ELSE [l EXCEPT !.next[address] = x]
SetPrev(l, x, address) == [l EXCEPT !.prev[x] = address]

LIST_FIRST(l) == l.first
LIST_NEXT(l, x) == l.next[x]
LIST_INIT(l) == Assign(l, HEAD, NULL)

(* Mutant of LIST_INSERT_HEAD: le_prev of the old first stays.             *)
InsertHeadOneWay(l, x) ==
  SetPrev(Assign(Assign(l, x, LIST_FIRST(l)), HEAD, x), x, HEAD)

LIST_INSERT_HEAD(l, x) ==
  LET a == Assign(l, x, LIST_FIRST(l))
      b == IF LIST_NEXT(a, x) # NULL THEN SetPrev(a, LIST_FIRST(a), x) ELSE a
      c == Assign(b, HEAD, x)
  IN  SetPrev(c, x, HEAD)

LIST_REMOVE(l, x) ==
  LET a == IF LIST_NEXT(l, x) # NULL
           THEN SetPrev(l, LIST_NEXT(l, x), l.prev[x]) ELSE l
  IN  Assign(a, a.prev[x], LIST_NEXT(a, x))
-----------------------------------------------------------------------------
(* The sequence s is what LIST_FOREACH meets in l, and every element can   *)
(* be removed: its le_prev leads back.                                     *)
Represents(l, s) ==
  /\ \A i, j \in 1 .. Len(s) : s[i] = s[j] => i = j
  /\ l.first = IF s = <<>> THEN NULL ELSE s[1]
  /\ \A i \in 1 .. Len(s) :
       /\ l.next[s[i]] = IF i = Len(s) THEN NULL ELSE s[i + 1]
       /\ l.prev[s[i]] = IF i = 1 THEN HEAD ELSE s[i - 1]
=============================================================================
