-------------------------------- MODULE Trap --------------------------------
(***************************************************************************)
(* What the handlers do inside one exception: the writes of page-table     *)
(* entries, the TLB maintenance, the change of address space, and the      *)
(* accesses the kernel itself makes to user addresses, on the stack that   *)
(* src/os/lib/handler.s gives it.                                          *)
(*                                                                         *)
(* Env and Fork take a handler as one step.  Here a handler is the         *)
(* sequence of its memory operations, todo, and the MMU may walk the       *)
(* current tables and fill or drop a TLB entry between any two of them.    *)
(* User entries carry no ASID.  Leaf entries only: the kernel's own        *)
(* addresses go through TTBR1, which never changes.                        *)
(***************************************************************************)
EXTENDS Integers, Sequences, FiniteSets

CONSTANTS
  AS,        \* slots of envs[]
  Page,      \* pages of memory for programs
  KernelPage,\* a page of the kernel, as the boot tables map it
  Boot,      \* the boot tables, in TTBR0 until the first env_run
  Kernel,    \* the kernel stack at KSTACKTOP
  None,      \* no environment; no TLB entry
  Invalid    \* an entry without PTE_V

ASSUME TrapAssumption ==
  /\ Boot \notin AS /\ Kernel \notin AS /\ None \notin AS
  /\ KernelPage \notin Page

(* A page of the program, the page of its stack below USTACKTOP, and       *)
(* USTACKTOP itself, in the order of their addresses.                      *)
VA == {"data", "stack", "temp"}
Entry == [page : Page \cup {KernelPage}, ap : {"RW_ALL", "RO_ALL", "RW_EL1"}]

ASSUME EntryAssumption == Invalid \notin Entry /\ None \notin Entry /\ None # Invalid

VARIABLES
  live,   \* the slots in use
  cur,    \* curenv
  recv,   \* env_ipc_recving: "no" 0, "waiting" 1, "mail" 2
  pt,     \* the leaf entries of each environment, and of the boot tables
  ttbr0,  \* whose tables the MMU walks
  tlb,    \* the cached translations
  sp1,    \* SP_EL1: Kernel, or the stack of an environment
  todo    \* what the running handler has left to do; <<>> outside handlers

vars == <<live, cur, recv, pt, ttbr0, tlb, sp1, todo>>

UserMode == todo = <<>> /\ cur # None
Free == {p \in Page : \A e \in AS, va \in VA :
                         pt[e][va] = Invalid \/ pt[e][va].page # p}
Runnable == {e \in live : recv[e] # "waiting"}

(* What the MMU makes of a user address.                                   *)
Translation(va) == IF tlb[va] # None THEN tlb[va] ELSE pt[ttbr0][va]
-----------------------------------------------------------------------------
(* The operations of handlers.                                             *)
WriteOp(e, va, entry) == [op |-> "write", as |-> e, va |-> va, to |-> entry]
FlushOp == [op |-> "flush"]
Load(va) == [op |-> "load", va |-> va]
Store(va) == [op |-> "store", va |-> va]
SpinOp == [op |-> "spin"]

ReadOnly(entry) == [entry EXCEPT !.ap = "RO_ALL"]
Writable(p) == [page |-> p, ap |-> "RW_ALL"]

(* held is the entry at va when the call is made.                          *)
page_remove(e, va, held) ==
  IF held = Invalid THEN <<>> ELSE <<WriteOp(e, va, Invalid), FlushOp>>

(* The flush comes before the new entry is written.                        *)
page_insert(e, va, new, held) ==
  (IF held # Invalid /\ held.page # new.page
   THEN page_remove(e, va, held) ELSE <<>>)
  \o <<FlushOp, WriteOp(e, va, new)>>

(* push_time_stack saves x0 below SP_EL1, wherever that points.            *)
push_time_stack == IF sp1 = Kernel THEN <<>> ELSE <<Store("stack")>>

(* Mutant of env_run: the TLB is not flushed.                              *)
RunWithoutFlush(e) ==
  <<[op |-> "ttbr0", as |-> e]>>
  \o IF recv[e] = "mail" THEN <<Store("stack")>> ELSE <<>>

(* The results of a receive go through the pointers the program gave; in   *)
(* ipc_recv and in the test programs they point into the stack.            *)
env_run(e) ==
  <<[op |-> "ttbr0", as |-> e], FlushOp>>
  \o IF recv[e] = "mail" THEN <<Store("stack")>> ELSE <<>>

(* _sched_yield, after the operations of before, among the environments of *)
(* set; with none of them it goes round for ever.                          *)
Schedule(before, set) ==
  \/ \E e \in set :
       /\ cur' = e
       /\ recv' = [recv EXCEPT ![e] = "no"]
       /\ todo' = before \o env_run(e)
  \/ /\ set = {}
     /\ todo' = Append(before, SpinOp)
     /\ UNCHANGED <<cur, recv>>
-----------------------------------------------------------------------------
(* Exceptions.                                                             *)

(* Mutant of IRQStub: the handler runs on the stack it finds.              *)
IRQOnCurrentStack ==
  /\ todo = <<>>
  /\ Schedule(push_time_stack, Runnable)
  /\ UNCHANGED <<live, pt, ttbr0, tlb, sp1>>

(* The timer, in a program or in main, which waits with interrupts open.   *)
IRQStub ==
  /\ todo = <<>>
  /\ Schedule(push_time_stack, Runnable)
  /\ sp1' = Kernel
  /\ UNCHANGED <<live, pt, ttbr0, tlb>>

(* Calls 0-5 run on the caller's stack, and leave SP_EL1 there.            *)
OnUserStack(ops) ==
  /\ UserMode
  /\ todo' = push_time_stack \o <<Store("stack")>> \o ops
  /\ sp1' = cur

(* _putchar, _printf (which reads its format), _sleep, _getenvid.          *)
Call ==
  /\ recv[cur] = "no"
  /\ OnUserStack(IF pt[cur]["data"] = Invalid THEN <<>> ELSE <<Load("data")>>)
  /\ UNCHANGED <<live, cur, recv, pt, ttbr0, tlb>>

(* ipc_recv yields at once: only the timer can come in between.            *)
_ipc_can_recv ==
  /\ recv[cur] = "no"
  /\ OnUserStack(<<>>)
  /\ recv' = [recv EXCEPT ![cur] = "waiting"]
  /\ UNCHANGED <<live, cur, pt, ttbr0, tlb>>

(* With or without a page, to another environment.                         *)
_ipc_can_send(r, ap) ==
  /\ recv[cur] = "no" /\ r # cur /\ r \in live /\ recv[r] = "waiting"
  /\ \/ OnUserStack(<<>>)
     \/ /\ pt[cur]["data"] # Invalid
        /\ OnUserStack(page_insert(r, "data",
             [page |-> pt[cur]["data"].page, ap |-> ap], pt[r]["data"]))
  /\ recv' = [recv EXCEPT ![r] = "mail"]
  /\ UNCHANGED <<live, cur, pt, ttbr0, tlb>>

(* Calls 6-8 and data aborts run on the kernel stack.                      *)
OnKernelStack == UserMode /\ sp1' = Kernel

_sched_yield ==
  /\ OnKernelStack
  /\ Schedule(push_time_stack, Runnable)
  /\ UNCHANGED <<live, pt, ttbr0, tlb>>

(* The pages in the order of their addresses; the copy of the stack is     *)
(* read at its user address.  What the parent may still have cached as     *)
(* writable goes with the flush of the child's page_insert.                *)
ForkOps(c, q) ==
  push_time_stack
  \o (IF pt[cur]["data"] = Invalid THEN <<>>
      ELSE LET shared == ReadOnly(pt[cur]["data"])
           IN page_insert(cur, "data", shared, pt[cur]["data"])
              \o page_insert(c, "data", shared, Invalid))
  \o <<Load("stack")>> \o page_insert(c, "stack", Writable(q), Invalid)
  \o <<FlushOp>>

_fork(c) ==
  /\ recv[cur] = "no" /\ c \notin live
  /\ OnKernelStack
  /\ \E q \in Free : todo' = ForkOps(c, q)
  /\ live' = live \cup {c}
  /\ UNCHANGED <<cur, recv, pt, ttbr0, tlb>>

(* Mutant of FaultOps: the copy is made where the page will be.            *)
FaultOpsInPlace(q) ==
  LET old == pt[cur]["data"] IN
  push_time_stack
  \o <<Load("data"), Store("data")>>
  \o page_insert(cur, "data", Writable(q), old)
  \o <<FlushOp>>

(* The copy goes through USTACKTOP.                                        *)
FaultOps(q) ==
  LET old == pt[cur]["data"] IN
  push_time_stack
  \o page_insert(cur, "temp", Writable(q), Invalid)
  \o <<Load("data"), Store("temp")>>
  \o page_insert(cur, "data", Writable(q), old)
  \o page_remove(cur, "temp", Writable(q))
  \o <<FlushOp>>

(* A store of the program that the MMU refuses.                            *)
mmu_fault_handler ==
  /\ recv[cur] = "no"
  /\ Translation("data") # Invalid /\ Translation("data").ap # "RW_ALL"
  /\ OnKernelStack
  /\ \E q \in Free : todo' = FaultOps(q)
  /\ UNCHANGED <<live, cur, recv, pt, ttbr0, tlb>>

(* Mutant of DestroyOps: the stack's entry is forgotten.                   *)
DestroyOpsDataOnly == push_time_stack \o page_remove(cur, "data", pt[cur]["data"])

DestroyOps ==
  push_time_stack \o page_remove(cur, "data", pt[cur]["data"])
                  \o page_remove(cur, "stack", pt[cur]["stack"])

(* An environment destroys itself; TTBR0 keeps its tables, which are       *)
(* empty now and free, until env_run.                                      *)
_env_destroy ==
  /\ recv[cur] = "no"
  /\ OnKernelStack
  /\ live' = live \ {cur}
  /\ Schedule(DestroyOps, Runnable \ {cur})
  /\ UNCHANGED <<pt, ttbr0, tlb>>
-----------------------------------------------------------------------------
(* One operation of the handler that runs.                                 *)
Begins(op) == todo # <<>> /\ Head(todo).op = op /\ todo' = Tail(todo)

WriteEntry ==
  /\ Begins("write")
  /\ pt' = [pt EXCEPT ![Head(todo).as][Head(todo).va] = Head(todo).to]
  /\ UNCHANGED <<live, cur, recv, ttbr0, tlb, sp1>>

tlb_invalidate ==
  /\ Begins("flush")
  /\ tlb' = [va \in VA |-> None]
  /\ UNCHANGED <<live, cur, recv, pt, ttbr0, sp1>>

load_ttbr0_context ==
  /\ Begins("ttbr0")
  /\ ttbr0' = Head(todo).as
  /\ UNCHANGED <<live, cur, recv, pt, tlb, sp1>>

AccessUser ==
  /\ Begins("load") \/ Begins("store")
  /\ tlb' = [tlb EXCEPT ![Head(todo).va] = Translation(Head(todo).va)]
  /\ UNCHANGED <<live, cur, recv, pt, ttbr0, sp1>>

(* The MMU: a walk ahead of any access, and the loss of an entry.          *)
Fill(va) ==
  /\ tlb[va] = None /\ pt[ttbr0][va] # Invalid
  /\ tlb' = [tlb EXCEPT ![va] = pt[ttbr0][va]]
  /\ UNCHANGED <<live, cur, recv, pt, ttbr0, sp1, todo>>

Evict(va) ==
  /\ tlb[va] # None
  /\ tlb' = [tlb EXCEPT ![va] = None]
  /\ UNCHANGED <<live, cur, recv, pt, ttbr0, sp1, todo>>
-----------------------------------------------------------------------------
(* main waits for the first interrupt; env_create has made one program,    *)
(* and the boot tables map low addresses to themselves.                    *)
Init ==
  /\ \E e \in AS, p, q \in Page :
       /\ p # q
       /\ live = {e}
       /\ pt = [a \in AS \cup {Boot} |-> [va \in VA |->
            IF a = e /\ va = "data" THEN Writable(p)
            ELSE IF a = e /\ va = "stack" THEN Writable(q)
            ELSE IF a = Boot /\ va = "data"
                 THEN [page |-> KernelPage, ap |-> "RW_EL1"] ELSE Invalid]]
  /\ cur = None
  /\ recv = [e \in AS |-> "no"]
  /\ ttbr0 = Boot
  /\ tlb = [va \in VA |-> None]
  /\ sp1 = Kernel
  /\ todo = <<>>

Next ==
  \/ IRQStub
  \/ cur # None /\ \/ Call \/ _ipc_can_recv \/ _sched_yield
                   \/ mmu_fault_handler \/ _env_destroy
                   \/ \E r \in AS, ap \in {"RW_ALL", "RO_ALL"} : _ipc_can_send(r, ap)
                   \/ \E c \in AS : _fork(c)
  \/ WriteEntry \/ tlb_invalidate \/ load_ttbr0_context \/ AccessUser
  \/ \E va \in VA : Fill(va) \/ Evict(va)

Spec == Init /\ [][Next]_vars
-----------------------------------------------------------------------------
(***************************************************************************)
(* Properties                                                              *)
(***************************************************************************)

(* The shapes of the variables; outside handlers a free slot maps nothing  *)
(* and nothing is left at USTACKTOP.                                       *)
TypeOK ==
  /\ live \subseteq AS /\ cur \in AS \cup {None}
  /\ recv \in [AS -> {"no", "waiting", "mail"}]
  /\ pt \in [AS \cup {Boot} -> [VA -> Entry \cup {Invalid}]]
  /\ ttbr0 \in AS \cup {Boot} /\ sp1 \in AS \cup {Kernel}
  /\ tlb \in [VA -> Entry \cup {Invalid, None}]
  /\ todo = <<>> => \A e \in AS :
       /\ pt[e]["temp"] = Invalid
       /\ e \notin live => \A va \in VA : pt[e][va] = Invalid

(* A program never runs on an old translation: whatever the TLB holds then *)
(* is what the tables of the running environment say now.  The handlers    *)
(* write entries after flushing, and share the TLB between environments.   *)
TlbCoherent ==
  UserMode => /\ ttbr0 = cur
              /\ \A va \in VA : tlb[va] \in {None, pt[cur][va]}

(* The kernel's accesses to user addresses (the push on entry, its own     *)
(* frames during calls 0-5, the copies, the results of a receive) never    *)
(* fault, and meet the page the tables mean: a fault inside a handler would*)
(* overwrite the saved registers and restart on the kernel stack.          *)
NoNestedAbort ==
  todo # <<>> /\ Head(todo).op \in {"load", "store"} =>
    LET t == Translation(Head(todo).va) IN
      /\ t # Invalid /\ t = pt[ttbr0][Head(todo).va]
      /\ Head(todo).op = "store" => t.ap # "RO_ALL"

(* SP_EL1 may stay on a user stack after a call, and the next exception    *)
(* writes below it: it is then the stack of the program that is            *)
(* interrupted, never that of one that ran before it.                      *)
OnlyOwnStack == todo = <<>> /\ sp1 # Kernel => sp1 = cur
=============================================================================
