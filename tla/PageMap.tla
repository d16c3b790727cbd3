------------------------------ MODULE PageMap ------------------------------
(***************************************************************************)
(* What pmap.c promises its callers: a map from the addresses of each      *)
(* address space to pages, one page at a time in the caller's hand, and    *)
(* one call at a time, which ends with its effect or fails without one.    *)
(* There are no tables, no counts and no free list here: a page is free    *)
(* when no address maps to it.                                             *)
(***************************************************************************)
CONSTANTS Page, AS, VA, NoPage, NoCall

VARIABLES
  live,  \* the address spaces that exist
  map,   \* map[a][va], NoPage when va is not mapped
  hand,  \* the page the caller holds
  call   \* the call in progress

vars == <<live, map, hand, call>>

Mapped == {map[a][va] : a \in AS, va \in VA} \ {NoPage}

(* A page handed out by page_alloc is mapped nowhere.                      *)
Alloc ==
  /\ call = NoCall
  /\ hand' \in Page \ Mapped
  /\ UNCHANGED <<live, map, call>>

Forget == call = NoCall /\ hand' = NoPage /\ UNCHANGED <<live, map, call>>

Start(op, a, va) ==
  /\ call = NoCall /\ a \in live
  /\ op = "page_insert" => hand # NoPage
  /\ call' = [op |-> op, as |-> a, va |-> va, unmapped |-> FALSE]
  /\ hand' = IF op = "page_insert" THEN hand ELSE NoPage
  /\ UNCHANGED <<live, map>>

Returning(op) == call # NoCall /\ call.op = op /\ call' = NoCall

Lookup ==
  /\ Returning("page_lookup")
  /\ hand' = map[call.as][call.va]
  /\ UNCHANGED <<live, map>>

(* page_insert changes the address it was given, and only that one.  It    *)
(* may unmap the old page first, and then it must not fail any more.       *)
InsertUnmaps ==
  /\ call # NoCall /\ call.op = "page_insert"
  /\ map' = [map EXCEPT ![call.as][call.va] = NoPage]
  /\ call' = [op |-> call.op, as |-> call.as, va |-> call.va, unmapped |-> TRUE]
  /\ UNCHANGED <<live, hand>>

Insert ==
  /\ Returning("page_insert")
  /\ map' = [map EXCEPT ![call.as][call.va] = hand]
  /\ UNCHANGED <<live, hand>>

InsertFails ==
  /\ Returning("page_insert") /\ ~call.unmapped
  /\ hand' = NoPage
  /\ UNCHANGED <<live, map>>

Remove ==
  /\ Returning("page_remove")
  /\ map' = [map EXCEPT ![call.as][call.va] = NoPage]
  /\ UNCHANGED <<live, hand>>

(* A new space maps nothing, and a space goes away with nothing mapped.    *)
Setup(a) ==
  /\ call = NoCall /\ a \notin live
  /\ live' = live \cup {a}
  /\ hand' = NoPage
  /\ UNCHANGED <<map, call>>

Retire(a) ==
  /\ call = NoCall /\ a \in live
  /\ \A va \in VA : map[a][va] = NoPage
  /\ live' = live \ {a}
  /\ UNCHANGED <<map, hand, call>>

Init ==
  /\ live = {}
  /\ map = [a \in AS |-> [va \in VA |-> NoPage]]
  /\ hand = NoPage
  /\ call = NoCall

Next ==
  \/ Alloc \/ Forget \/ Lookup \/ Remove
  \/ InsertUnmaps \/ Insert \/ InsertFails
  \/ \E a \in AS : Setup(a) \/ Retire(a)
  \/ \E op \in {"page_insert", "page_remove", "page_lookup"}, a \in AS, va \in VA :
       Start(op, a, va)

Spec == Init /\ [][Next]_vars
=============================================================================
