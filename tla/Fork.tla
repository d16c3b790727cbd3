-------------------------------- MODULE Fork --------------------------------
(***************************************************************************)
(* Copy-on-write memory: _fork and the page-transfer half of _ipc_can_send *)
(* (src/os/lib/env.c) and mmu_fault_handler (src/os/lib/handler.c), over   *)
(* the memory that PageMap promises (Pmap implements it).                  *)
(*                                                                         *)
(* A handler runs with interrupts masked, so it is one step; which         *)
(* environment takes the next step is up to the scheduler, and any may.    *)
(* The page tables themselves are not here: a page is free when no entry   *)
(* holds it, and page_insert may fail at any time for want of a table.     *)
(***************************************************************************)
EXTENDS Integers, FiniteSets

CONSTANTS
  Page,      \* pages of physical memory
  AS,        \* slots of envs[]
  VA,        \* pages of user address space
  Stack,     \* USTACKTOP - BY2PG, the page of the user's stack
  Temp,      \* USTACKTOP, where mmu_fault_handler maps a page for a moment
  Value,     \* contents of a page
  Made,      \* Made[p]: the entries page_insert makes of page p and the perm
             \* of some message, with all the bits of perm ORed in
  Invalid,   \* an entry without PTE_V
  Unmapped   \* what an address without a page holds

ASSUME ForkAssumption ==
  /\ Stack \in VA /\ Temp \in VA /\ Stack # Temp
  /\ Unmapped \notin Value

(* The four values of the AP bits; EL1 is the kernel only.                 *)
AP == {"RW_ALL", "RO_ALL", "RW_EL1", "RO_EL1"}
Entry == [page : Page, ap : AP]

(* Nothing is known of perm, 32 bits that the program chooses: page_insert *)
(* masks none of them, so they may set AP bits and bits of the address.    *)
ASSUME PermAssumption == Made \in [Page -> SUBSET Entry] /\ Invalid \notin Entry

VARIABLES
  live,    \* the slots in use
  pte,     \* the leaf entries of each environment
  data,    \* contents of the pages
  lost,    \* pages allocated and then mapped nowhere
  sent,    \* auxiliary: pages some ipc_can_send has made an entry of
  kernel   \* "running", "panic", "wild" after the use of a pointer that
           \* a failed page_alloc left uninitialised, or "stray" when an
           \* entry names another page than the one page_insert counted

vars == <<live, pte, data, lost, sent, kernel>>

Valid(e, va) == pte[e][va] # Invalid
Mapped(e) == {va \in VA : Valid(e, va)}
InUse == {p \in Page : \E e \in AS, va \in VA : Valid(e, va) /\ pte[e][va].page = p}
Free == Page \ (InUse \cup lost)
NoMemory == [va \in VA |-> Invalid]

(* What mmu_fault_handler takes for copy-on-write: not writable for the    *)
(* program, and any AP bit set.                                            *)
ReadOnly(e, va) == Valid(e, va) /\ pte[e][va].ap \in {"RO_ALL", "RO_EL1"}

(* One of the programs does something.                                     *)
Runs(e) == kernel = "running" /\ e \in live

(* A store the MMU lets through.                                           *)
Write(e, va, v) ==
  /\ Runs(e) /\ Valid(e, va) /\ pte[e][va].ap = "RW_ALL"
  /\ data' = [data EXCEPT ![pte[e][va].page] = v]
  /\ UNCHANGED <<live, pte, lost, sent, kernel>>

(* Mutant of mmu_fault_handler: the page is made writable where it is.     *)
FaultWithoutCopy(e, va) ==
  /\ Runs(e) /\ ReadOnly(e, va)
  /\ pte' = [pte EXCEPT ![e][va].ap = "RW_ALL", ![e][Temp] = Invalid]
  /\ UNCHANGED <<live, data, lost, sent, kernel>>

(* A store to a read-only page, or any access if that is the kernel's: a   *)
(* fresh page goes to Temp, gets the contents, takes the place of the old  *)
(* one, and leaves Temp.                                                   *)
mmu_fault_handler(e, va) ==
  /\ Runs(e) /\ ReadOnly(e, va)
  /\ \E q \in Free :
       /\ data' = [data EXCEPT ![q] = data[pte[e][va].page]]
       /\ pte' = [pte EXCEPT ![e][va] = [page |-> q, ap |-> "RW_ALL"],
                             ![e][Temp] = Invalid]
       /\ sent' = sent \ {q}
  /\ UNCHANGED <<live, lost, kernel>>

(* An access to no page, or to one only the kernel may touch; or there is  *)
(* no table for Temp, and the copy faults inside the handler.              *)
FaultPanic(e, va) ==
  /\ Runs(e)
  /\ \/ ~Valid(e, va)
     \/ Valid(e, va) /\ pte[e][va].ap # "RW_ALL"
  /\ kernel' = "panic"
  /\ UNCHANGED <<live, pte, data, lost, sent>>

(* page_alloc fails, in mmu_fault_handler or in _fork, and the result is   *)
(* not looked at.                                                          *)
AllocIgnored(e) ==
  /\ Runs(e)
  /\ \/ \E va \in VA : ReadOnly(e, va)
     \/ Valid(e, Stack) /\ live # AS
  /\ kernel' = "wild"
  /\ UNCHANGED <<live, pte, data, lost, sent>>

(* Mutant of ChildEntry: the stack is shared like the other pages.         *)
ChildEntryAllShared(e, va, q) == [page |-> pte[e][va].page, ap |-> "RO_ALL"]

(* The loop of _fork shares every page read-only, the parent's entry first,*)
(* except the stack, which is copied to q.  The page_insert of an address  *)
(* of miss fails and _fork goes on.  A child that lost its stack faults    *)
(* before it can call anything.                                            *)
ChildEntry(e, va, q) ==
  IF va = Stack THEN [page |-> q, ap |-> "RW_ALL"]
  ELSE [page |-> pte[e][va].page, ap |-> "RO_ALL"]

(* Mutant of ForkTables: the parent keeps its writable entries.            *)
ForkTablesChildOnly(e, c, q, miss) ==
  [pte EXCEPT
     ![c] = [va \in VA |-> IF Valid(e, va) /\ va \notin miss
                           THEN ChildEntry(e, va, q) ELSE Invalid]]

ForkTables(e, c, q, miss) ==
  [pte EXCEPT
     ![e] = [va \in VA |-> IF Valid(e, va) /\ va # Stack
                           THEN [page |-> pte[e][va].page, ap |-> "RO_ALL"]
                           ELSE pte[e][va]],
     ![c] = [va \in VA |-> IF Valid(e, va) /\ va \notin miss
                           THEN ChildEntry(e, va, q) ELSE Invalid]]

_fork(e, c, miss) ==
  /\ Runs(e) /\ c \in AS \ live /\ miss \subseteq Mapped(e)
  /\ Valid(e, Stack)
  /\ \E q \in Free :
       /\ data' = [data EXCEPT ![q] = data[pte[e][Stack].page]]
       /\ pte' = ForkTables(e, c, q, miss)
       /\ lost' = IF Stack \in miss THEN lost \cup {q} ELSE lost
       /\ sent' = sent \ {q}
  /\ live' = live \cup {c}
  /\ UNCHANGED kernel

(* env_alloc fails: no free slot, or no page for the directory.            *)
ForkPanic(e) ==
  /\ Runs(e)
  /\ kernel' = "panic"
  /\ UNCHANGED <<live, pte, data, lost, sent>>

(* Mutant of _env_destroy: the tables of e are not walked.                 *)
DestroyKeepingTables(e) ==
  /\ Runs(e)
  /\ live' = live \ {e}
  /\ UNCHANGED <<pte, data, lost, sent, kernel>>

(* _env_destroy of the running environment itself.                         *)
_env_destroy(e) ==
  /\ Runs(e)
  /\ live' = live \ {e}
  /\ pte' = [pte EXCEPT ![e] = NoMemory]
  /\ UNCHANGED <<data, lost, sent, kernel>>

(* ipc_can_send with a page: page_insert replaces the entry of r, whatever *)
(* it was, and counts a reference to the page of s.  If the entry names    *)
(* another page, counts and tables no longer agree and what PageMap        *)
(* promises is over: the model stops there.                                *)
SendPage(s, r, srcva, dstva) ==
  /\ Runs(s) /\ r \in live /\ Valid(s, srcva)
  /\ \E made \in Made[pte[s][srcva].page] :
       /\ pte' = [pte EXCEPT ![r][dstva] = made]
       /\ sent' = sent \cup {made.page}
       /\ kernel' = IF made.page = pte[s][srcva].page THEN kernel ELSE "stray"
  /\ UNCHANGED <<live, data, lost>>
-----------------------------------------------------------------------------
(* env_create: a page for the stack, and pages for the segments of the     *)
(* program, all of them writable.                                          *)
Init ==
  /\ \E e \in AS, loaded \in [VA \ {Temp} -> Page \cup {Invalid}] :
       /\ loaded[Stack] # Invalid
       /\ \A u, v \in VA \ {Temp} :
            loaded[u] = loaded[v] /\ loaded[u] # Invalid => u = v
       /\ live = {e}
       /\ pte = [a \in AS |-> [va \in VA |->
            IF a = e /\ va # Temp /\ loaded[va] # Invalid
            THEN [page |-> loaded[va], ap |-> "RW_ALL"] ELSE Invalid]]
  /\ data \in [Page -> Value]
  /\ lost = {} /\ sent = {}
  /\ kernel = "running"

Next ==
  \/ \E e \in AS, va \in VA, v \in Value : Write(e, va, v)
  \/ \E e \in AS, va \in VA : mmu_fault_handler(e, va) \/ FaultPanic(e, va)
  \/ \E e, c \in AS : \E miss \in SUBSET VA : _fork(e, c, miss)
  \/ \E e \in AS : AllocIgnored(e) \/ ForkPanic(e) \/ _env_destroy(e)
  \/ \E s, r \in AS, srcva \in VA, dstva \in VA : SendPage(s, r, srcva, dstva)

Spec == Init /\ [][Next]_vars
-----------------------------------------------------------------------------
(***************************************************************************)
(* Properties                                                              *)
(***************************************************************************)

(* The shapes of the variables; a slot that is not in use maps nothing,    *)
(* and a lost page is in no entry but a stray one.                         *)
TypeOK ==
  /\ live \subseteq AS
  /\ pte \in [AS -> [VA -> Entry \cup {Invalid}]]
  /\ data \in [Page -> Value]
  /\ lost \subseteq Page /\ (kernel # "stray" => lost \cap InUse = {})
  /\ sent \subseteq Page
  /\ kernel \in {"running", "panic", "wild", "stray"}
  /\ \A e \in AS \ live : pte[e] = NoMemory

(* A page that fork has made common to two addresses, of whatever          *)
(* environments, is writable at neither of them: however forks, faults and *)
(* exits interleave, the only way to a page two programs can write is      *)
(* ipc_can_send, with a page the sender has or, by the address bits of     *)
(* perm, with any page.                                                    *)
CowExclusive ==
  \A e, f \in AS, u, v \in VA :
    /\ <<e, u>> # <<f, v>>
    /\ Valid(e, u) /\ Valid(f, v)
    /\ pte[e][u].page = pte[f][v].page
    /\ pte[e][u].page \notin sent
    => pte[e][u].ap = "RO_ALL" /\ pte[f][v].ap = "RO_ALL"

(* The stack of a program is never a copy-on-write page: the kernel pushes *)
(* on it when it enters an exception (push_time_stack), and could not take *)
(* a fault there.  Only a message can make it one, and then its page is in *)
(* sent, whether the sender passed it or the address bits of perm named it.*)
StackWritable ==
  \A e \in AS : Valid(e, Stack) /\ pte[e][Stack].page \notin sent
                => pte[e][Stack].ap = "RW_ALL"

(* Each environment has a memory of its own: what its programs read at an  *)
(* address.  It behaves as PrivateMem promises in every step before and    *)
(* after which no page in use has been passed on in a message.             *)
Memory == [e \in AS |-> [va \in VA |->
             IF Valid(e, va) THEN data[pte[e][va].page] ELSE Unmapped]]

Private == INSTANCE PrivateMem WITH mem <- Memory
PrivateMemSpec == Private!Init /\ [][sent = {} /\ sent' = {} => Private!Next]_(Private!vars)
=============================================================================
