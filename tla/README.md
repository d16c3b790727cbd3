# A verification of the RaspberryPi3_OS kernel

RaspberryPi3_OS is a small kernel in C for one core of a Raspberry Pi 3
(AArch64): page tables and a page allocator, processes ("environments") with
copy-on-write fork, a round-robin scheduler driven by a timer, and system calls
that pass messages. This directory holds TLA+ modules of it, the configurations
TLC checks them with, and proofs that TLAPS checks.

    tlc -config MCPmap.cfg MCPmap         check a run (see "The runs")
    tlapm PmapProofs.tla                  check the proofs

Paths below are relative to `src/os` unless they start with `src/`.

## 1. The system

Everything in the kernel happens in an exception handler: `lib/handler.s` saves
the registers of the running program in one frame at `TIMESTACK`, calls a C
handler with interrupts masked, and restores registers from the same frame. So
handlers exclude one another, and all concurrency is between user programs: the
timer may cut a program anywhere, also between two system calls of one library
function, and hand over to any other.

| part | state | operations | what makes it correct |
|---|---|---|---|
| page allocator, page tables (`mm/pmap.c`) | free list, `pp_ref` of each page, four levels of tables in pages | `page_alloc`, `page_free`, `page_decref`, `pgdir_walk`, `page_insert`, `page_lookup`, `page_remove` | counts equal references; a page is freed once, when the last one goes; tables form disjoint trees |
| address spaces (`lib/env.c`) | `env_ttbr0` | `env_setup_vm`, `env_free` | teardown gives back every page, and follows no entry it has freed |
| environments (`lib/env.c`) | `envs[]`, free list, `curenv`, counter of `mkenvid` | `env_alloc`, `envid2env`, `_fork`, `_env_destroy`, `env_run`, `_getenvid` | a slot has one owner; a name finds its environment; registers are private |
| copy-on-write (`lib/env.c`, `lib/handler.c`) | leaf entries and their permission bits | `_fork`, `mmu_fault_handler` | programs do not see one another's writes |
| scheduler (`lib/sched.c`) | `static index` | `_sched_yield`, `irq_handler` | nobody runnable waits for ever |
| messages (`lib/env.c`) | `env_ipc_*` fields | `_ipc_can_recv`, `_ipc_can_send`, delivery in `env_run` | a message arrives once, whole, at the one it was meant for |
| user library (`user/syscall.c`) | program counter, arguments | `ipc_send`, `ipc_recv` | the two are a rendezvous although each is several traps |
| exception entry (`lib/handler.s`) | the frame, EL1's stack pointer, the TLB | stubs, `svc_handler`, `data_abort_handler` | the frame belongs to `curenv`; no fault inside a handler; no old translation is used |
| timer, sleep (`driver/timer.c`, `lib/sleep.c`) | compare register, `saved_delay` | `set_system_timer_irq`, `get_system_timer`, `_sleep` | it keeps ticking; no sleep is short |
| boot (`boot/`, `mm/mm_init.c`) | kernel page tables, `freemem` | `main`, `vm_init`, `boot_alloc` | RAM and devices map to themselves; tables do not overlap what follows |
| ELF loader (`lib/kernel_elfloader.c`, `lib/env.c`) | the first program's tables | `load_elf`, `load_icode_mapper` | every byte of the file is where its header says |
| console (`lib/print.c`, `driver/uart.c`) | format position, transmitter FIFO | `_printf`, `_putchar`, `_panic`, `uart_init`, `uart_send` | fields read back as values; output complete and in order |
| pins (`driver/gpio.c`) | `GPFSEL*`, lamps | `gpio_output_init`, `gpio_set`, `gpio_clr` | no register update disturbs another pin |
| lists (`include/queue.h`) | `lh_first`, `le_next`, `le_prev` | `LIST_*` | each macro keeps the list the sequence it stands for |

They interact through calls (a handler of `env.c` calls `pmap.c` many times),
through `curenv` and the frame (scheduler, fork and system calls all write it),
and through `envs[]` (a sender writes the fields and page tables of its
receiver). What is hard: long sequences of `pmap.c` calls that must keep counts
and trees consistent although each may fail half way for want of memory;
walking a tree while clearing it; entries shared by many environments after
forks of forks; receives that are set up in one trap and waited for in the
next; names and counters of finite width. `PROJECT.json` lists these hazards
line by line with the properties that cover them.

## 2. The modules

| module | models | corresponds to |
|---|---|---|
| `Pmap` | allocator, page tables, teardown | a call of `pgdir_walk` is a cursor (`walk`) that goes down a level per step; `env_free` is a second cursor (`freeing`) with one table and index per nested loop |
| `PageMap` | what `pmap.c` promises: a partial map from addresses to pages | abstract specification of `Pmap` |
| `Fork` | copy-on-write, fault handler, page transfer | one action per handler, over the leaf entries |
| `PrivateMem` | what fork promises: a memory for each | abstract specification of `Fork` |
| `Env` | environments, scheduler, registers, messages | one action per handler |
| `IpcLib` | `ipc_send`, `ipc_recv`, on top of `Env` | one action per instruction sequence between traps; a program counter for each program |
| `Rendezvous` | what the two promise | abstract specification of `IpcLib` |
| `PingPong` | `src/user/test-pingpong.c` on `IpcLib` | one action per statement that calls |
| `Trap` | what a handler does to memory, operation by operation, with a TLB and EL1's stack pointer | an exception puts the handler's operations in `todo`; one action per operation, and two of the MMU |
| `Clock` | the timer's interrupt and `_sleep` | one action per access to a timer register |
| `Queue` | the list macros | one operator per macro, assignment by assignment |
| `Boot` | `vm_init`, `page_init`, `env_create` with the ELF loader | one action per round of a loop; the list of free pages is that of `Queue` |
| `Format` | the conversions of `lp_print` | one operator per function |
| `Console` | `_printf`, `_putchar`, UART, pins and lamps, on `Format` | one action per character or register update; one of the transmitter |
| `MC*` | values of constants | |
| `PmapProofs`, `ForkProofs`, `IpcProofs`, `TrapProofs`, `ClockProofs`, `BootProofs`, `ConsoleProofs` | theorems about `Pmap`, `Fork`, `Env` with `IpcLib` and `PingPong`, `Trap`, `Clock`, `Queue` with `Boot`, `Format` with `Console` | |
| `DataLemmas` | lemmas on the two free lists as stacks, and induction over `Nat` | |

**Pmap.** `pte` maps a cell `<<t, i>>` (entry `i` of the table in page `t`) to a
page; the cell `<<a, 0>>` of a slot is its `env_ttbr0`. `pp` is the page pointer
the caller holds. `Settled` says how callers use it: `load_icode_mapper`,
`_fork` and the fault handler insert a page before they ask for another.
`page_insert` walks twice in the code (lines 214 and 234). Where nothing is mapped
nothing changes in between, and the model goes down once and creates the tables
that are missing. Where another page is mapped, `InsertReplace` is the
`page_remove` and the second walk starts from the directory
(`page_insert_again`). That this walk never fails, though `page_insert` does not
put the old page back when it does, is part of the refinement:
`PageMap!InsertFails` is allowed only before anything was unmapped. Auxiliary variables: `level`, what a
page was allocated for, and `lost`, pages that nobody can reach because
`page_insert` failed.

**Fork.** The tables are gone: an environment has leaf entries `[page, ap]`, a
page is free when no entry holds it, and whatever needs a table may fail. A
program's store is the one external action (the MMU's rule for the AP bits).
`AllocIgnored` is the use of the uninitialised `p` after a `page_alloc` whose
result nobody looks at: the kernel is "wild" then and the model stops.

`_ipc_can_send` takes `perm`, 32 bits that the sender chooses, and `page_insert`
ORs all of them into the entry of the receiver (`lib/env.c:620`,
`mm/pmap.c:212,239`; the comment at `mm/pmap.c:199` speaks of the low 12 bits, and
nothing masks the others). So `perm` decides the AP bits,
all four values of them, and its upper bits are ORed to the address of the page.
The constant `Made` gives for each page the entries that this can make of it: any
set of entries, of the same page or another. An entry that names another page
than the one that was passed is a "stray" one: `page_insert` has counted a
reference to the page that was passed, and `page_remove` will give one back to
the page that is named, so counts and entries no longer agree, a page can be free
while an entry leads to it, and what `PageMap` promises is over. The model makes
that step, with the stray entry in it, and stops after it. `sent` is auxiliary
and records the pages that messages have made entries of.

**Env.** `frame` is x0 in the frame at `TIMESTACK`, `env_tf` x0 in the saved
registers: one register is enough to tell whose registers they are. `view` is
auxiliary: what each program must find. `kernel` becomes "panic", "spin" (the
endless search of `_sched_yield`), or "wild" (a parent that destroyed a child
has lost its own tables, see finding 1). The programs are arbitrary: any system
call with any name they may know.

**Trap.** `Env` and `Fork` take a handler as one step, which is right for
what programs can see only if the steps inside it cannot go wrong. `Trap` is
about those: the writes of page-table entries, the flushes, the change of
`TTBR0`, and the kernel's own accesses to user addresses, in the order of the
code. Calls 0 to 5 run on the program's stack and leave `SP_EL1` there, so that
the next exception pushes x0 on it. Between any two operations the MMU may walk
the current tables and keep what it finds (`Fill`) or drop an entry (`Evict`).
An environment has one data page, one stack page and the temporary address
`USTACKTOP`. The pointers a receiver gives for its results point into its stack,
as those of `ipc_recv` and of both test programs do; the programs use the
library, so that only the timer comes between `ipc_can_recv` and `yield`, and
nobody sends to itself. While there is nothing to run, `SpinOp` stays at the
head of `todo` for ever.

**Clock.** `now` is the counter, in its two words; it may move between any two
steps of the processor. `Slack` is how far it may get between the read of `CLO`
and the write of `C3` in one statement of `set_system_timer_irq`; the property
`TimerArmed` needs that it is less than the period, that is, one second for a
few instructions. `asked`, `begun`, `torn` and `read` are auxiliary.

**Boot.** RAM at reset is taken to look like valid entries (`Garbage`), so that
what is not cleared shows. `freemem`, `pgdir` and the tables follow
`boot_alloc`; a walk that leaves RAM ends in "aborted". The byte at offset `o`
of the file is `o`, which makes the contents of memory say where they were
copied from. When `load_elf` fails, `elr` is "uninitialised" as in the code, and
the model ends. `load_icode` does not notice that no page is left for the stack
(its `r` is unsigned, `lib/env.c:312`) and goes on without one; `env_create`
comes right after `page_init` and finds a page for the directory.

**Format, Console.** Characters are strings of length one. A field is made as
the code makes it, from its last digit, and checked by reading it back
(`IsField`). The firmware may leave the pins at any of the functions the
constant `Firmware` names; the reset state of the three bits of one pin is kept
in `reset`. Nobody types: the receive bit of the UART is off. `_panic` prints
its message, of which one letter is left, and goes on printing nothing for ever.
`index` is that of `_sched_yield`, and `writes` are the writes to `GPSET0` and
`GPCLR0` that it still has to do: for an even slot lamp 17 is put on before lamp 27
is put out (`lib/sched.c:31-32`), so that for a moment both are on.

**IpcLib, PingPong** restrict the programs of `Env` to those that use the
library, and to one program. At pc `"got"` the trap of `yield` has been taken
and has not returned.

## 3. The runs

| run | module | shows | bounds |
|---|---|---|---|
| `pmap` | `MCPmap` | types, counts, free list, trees, no leak at every step; refinement of `PageMap` | 6 pages, 2 spaces, 2 levels of 2 entries, 3 addresses |
| `pmap_deep` | `MCPmap` | no leak and refinement with a middle level; every call returns | 3 levels, 2 addresses, 5 pages |
| `pmap_parent` | `MCPmap` | **finding 1** | a parent may destroy a child |
| `fork` | `MCFork` | private memories (refinement); shared pages read-only and stacks writable, but for what messages made entries of | 2 environments, 4 pages, 3 addresses, 2 values, at most one page in `sent` or `lost` |
| `env` | `MCEnv` | table, names, scheduler, receive states, registers agree | 3 slots, 3 allocations, names of 4 generations |
| `ipclib` | `MCIpcLib` | library = rendezvous, never the panic of a second receive | 3 slots, 3 allocations |
| `pingpong` | `MCPingPong` | one ball; the rally ends; nobody runnable starves | the program's own, 10 |
| `trap` | `MCTrap` | TLB, aborts inside handlers, stacks | 3 environments, 5 pages |
| `clock` | `MCClock` | sleeps are long enough and end; the timer stays armed | words of 2 bits, counter to 12, sleeps of 0 to 3 "milliseconds" of 2 ticks |
| `boot` | `MCBoot` | identity mapping, layout, free list, loaded program | 32 pages of RAM, tables of 8 entries, pages of 2 bytes, 195 files |
| `boot_alloc` | `MCBoot` | **finding 2** | `KSTACKTOP` above `MAXPA` |
| `console` | `MCConsole` | fields, order of output, pins, output ends | `int` of 3 and `long` of 5 bits, a buffer of 8, a FIFO of 2 |

Why the bounds are enough. Two address spaces and three addresses give a page
shared by two entries of a table, of two tables and of two spaces; six pages let
two trees be built (three pages each), and are too few for more, so every kind
of `-E_NO_MEM` occurs, after zero, one or two tables have been created. Three
levels are the smallest number with a table that is neither a directory nor a
leaf table; the fourth level of the code repeats it. In `Fork` two environments
and four pages give a fork, the copy on either side, a page passed in a message,
running out of pages in the middle of each, and a slot used again; that it holds
for more sharers of a page is proved. Messages make the entries of `AnyPerm`: the
page that was passed, writable or for the kernel only, and every other page,
writable or read-only. States with more than one page in `sent` or `lost` are left
out (`FewSent`); the proofs know no such bound, and take any entries for `Made`.
In `Env`, three slots let two programs interact while a third competes for the
scheduler, and three allocations reuse a slot whose old name is still known.
With `Gens` = 4 names do not wrap.

In `Trap` five pages let three environments have a stack each and the data page
have a copy besides its shared original. In `Clock` a sleep crosses a carry of
the low word, a product overflows, and the compare register wraps, all within
the twelve ticks; the proofs cover other words. `MCBoot` keeps the shape of the
real layout: the two segments together fill exactly what one entry of the second
level covers, half of it RAM and half devices; there the kernel's tables fill
all the pages up to the array of page descriptors, in the code 515 of 1024. The files have segments that begin on and off a page
boundary, that fill a page exactly or not, with and without zeros, headers to be
skipped, second segments behind, over or far from the first, and one too large
for memory. In `Console` the width of a number can be below, at and above the
length of its digits and of the buffer, all types of conversion meet all flags,
numbers have both signs, the least `long` is one of them, and two
characters of FIFO fill up under any string.

Two limits of the code are kept out of the runs by their constants, and no run
shows them: `pp_ref` is 16 bits wide and `page_insert` does not look
(`mm/pmap.c:240`), so that a page with 65536 references counts as unreferenced
(`RefMod` counts modulo that width; `SmallMemoryCorrect` and the assumption
`RefFits` name the condition); and `mkenvid` cuts its result to 32 bits
(`lib/env.c:42`), so that after 2^21 environments names come again and slot 0
can get name 0, which means "myself" (`IdResolvesCorrect` assumes
`MaxAlloc < Gens`). With `RefMod = 2` (`MCPmap`), or `Gens = 2` and
`MaxAlloc = 4` (`MCEnv`), TLC finds `RefCounts` and `IdResolves` violated.

Symmetry is over pages and address spaces (`Pmap`, `Trap`) and pages,
environments and values (`Fork`): the modules treat them alike, the properties
are safety, and the initial free list is one order among orders that differ by a
permutation; `pmap_deep`, which has a liveness property, uses none. `AnyPerm`
treats all pages alike. The views of
`MCEnv`, `MCIpcLib` and `MCFork` leave out fields that no later step reads before it
writes them (the comment there lists them).
`CHECK_DEADLOCK FALSE` is set where the system can really stop: the kernel
panics or searches for ever, all programs have exited, the bound of a counter is
reached, or a sequence of operations has come to its end.

Fairness. `CallsReturn` assumes that a call in progress takes its steps: nothing
else runs, interrupts are masked. `NoStarvation` needs that the timer
keeps firing: every interrupt sets it again (`TimerArmed` of `Clock` is that
fact), and interrupts are open whenever a program runs. `RallyEnds` assumes
that, and that a program which gets the processor again and again gets a step
done now and then: a turn is a second. Under that assumption the two programs
never starve one another, whatever the order of timer and traps. `SleepReturns`
assumes that neither the counter nor the processor stops. `AllPrinted` assumes
that the kernel, one busy thread, goes on, and that the transmitter sends what
it has.

### Findings

1. `env_free(e)` goes through the tables of `curenv` (`lib/env.c:364,368,404`).
   When a parent destroys its child, the parent's tables go and the child's are
   lost. The comment at line 350 says "Frees env e and all memory it uses".
2. `boot_alloc` begins at `KSTACKTOP`, a virtual address since
   `include/sysconfig.h:7`, and compares it with `MAXPA`, a size of physical
   memory (`mm/mm_init.c:47`): its first call returns `(void *)-E_NO_MEM`, which
   `vm_init` takes for its directory, against the comment at line 25, "If we're
   out of memory, should panic, else return this address of memory we have
   allocated". Run `boot` uses the address the memory map of `mm/include/mmu.h:75`
   and the table base of `boot/init.s:66` give.

## 4. What is proved

All safety properties of `Pmap`, `Fork`, `Env`, `IpcLib`, `PingPong`, `Trap` and
`Clock` that the runs check are theorems, three of the four of `Boot`, and all
three refinements: `Pmap` implements `PageMap`, `Fork` implements `PrivateMem`,
the message library implements `Rendezvous`. In `Queue` the macros themselves
are proved.

### Pmap

`PmapProofs` proves for any number of pages, address spaces, levels and entries:

| theorem | states |
|---|---|
| `TypeCorrect` | `TypeOK`: no walk or teardown ever uses a null table |
| `RefCountsCorrect` | `RefCounts` |
| `FreeListCorrect` | `FreeSound` |
| `TablesCorrect` | `TreeSound` |
| `NoLeakCorrect` | `NoLeak` |
| `PageMapCorrect` | `PageMapSpec`: `Pmap` implements `PageMap` |
| `SmallMemoryCorrect`, `SmallMemoryPageMap` | the five and the refinement, without `RefFits`, when there are fewer table entries than a count has values |

Assumptions: `SelfDestroyOnly` (an environment destroys only itself, without it
finding 1 is a counterexample) and `[]RefFits` (no page has `RefMod` references,
without it the count wraps). None of the
five properties is inductive. The invariant is

    IInv == TypeOK /\ Mem /\ WalkInv /\ FreeingInv

`Mem` is counts, trees and free list together, with two facts about the page in
the caller's hand: it is data and not free (`HandInv`), and any other page not
free or lost is in some table (`HeldInv`). They need one another: that
`page_decref` frees at the right moment needs exact counts, that a freed table
has no other parent needs the trees, and that creating a table makes no cycle
needs free pages to be outside all trees. `WalkInv` says that a walk stands on a
table of its own level that is not free, in an address space that has a
directory, so that the second walk of `page_insert` can start. `FreeingInv` ties the loops of
`env_free` to the tree: they stand on a path of it, everything to the left of
the path is cleared, and the `page_remove` started for a leaf goes down the very
same path, hence finds the leaf and drops that entry and no other.

The lemmas follow the code: `TableMem` (linking a new table), `AllocMem`
(`page_alloc` for a caller), `WriteMem` (one leaf or table entry written, with
the `page_decref` of what was there and the `pp_ref++` of what comes), `SameMem`
(nothing written). `CountPut` says how one written cell moves one reference.

For the refinement, `PageMap`'s map at an address is what `pgdir_walk` would
find there, the function `Tables` evaluated down all levels. `RefInv` adds to
`IInv` that a walk stands on the path of its own address, and that the second
walk of `page_insert` finds the tables of the first (`PathInv`). The lemmas on
paths are inductions over the levels: a table is reached by one path only
(`SamePath`), so a written leaf entry changes the map at one address
(`LeafWrite`), linking a cleared table or dropping an empty one at none
(`EmptyTable`), and a directory that is given up maps nothing (`EmptyBelow`). Each
action then maps to one action of `PageMap` or to a stutter (the lemmas
`...Simulated`). `page_insert` may fail, in `PageMap`, only before the old page is
gone; that is where `PathInv` is needed.

### Fork

`ForkProofs` proves for any number of pages, environments, addresses and values:

| theorem | states |
|---|---|
| `ForkTypeCorrect` | `TypeOK` |
| `CowExclusiveCorrect` | `CowExclusive` |
| `StackWritableCorrect` | `StackWritable` |
| `PrivateMemCorrect` | `PrivateMemSpec`: every step of `Fork` taken before a page has been passed in a message is a step of `PrivateMem` |

The only assumption about messages is that `Made` gives entries (`PermAssumption`):
the theorems hold whatever a `perm` makes of a page, up to and including the first
stray entry, after which the model stops (see `Fork` in section 2). What a
message made an entry of is exempt from `CowExclusive` and `StackWritable`, be it
the page that was passed or the one the address bits of `perm` name: that a
program can make any page of memory writable, or a stack read-only, in this way
is the code's behaviour.

`TypeOK /\ CowExclusive` is inductive: a page fresh from the free list has no
entry (the definition of `Free`), so the copy a fault makes has one owner; and
the entries `_fork` leaves in the parent and writes in the child are read-only,
while a third environment's entry of the same page was read-only before, because
it shared the page with the parent. The refinement has a lemma per action
(`WriteSimulated`, ...): a store changes one address of one memory because, by
`CowExclusive`, a writable page has one entry; a fault changes nothing a program
reads. It needs that `Temp` is mapped nowhere between two steps, which is false
once a page may be sent to that address.

### Env

`IpcProofs` first proves about `Env`, for any number of slots, generations of
names and values:

| theorem | states |
|---|---|
| `EnvTypeCorrect` | `TypeOK` |
| `FreeListExactCorrect` | `FreeListExact` |
| `CurrentIsIndexCorrect` | `CurrentIsIndex` |
| `BlockedIffReceivingCorrect` | `BlockedIffReceiving` |
| `MailHandedOverCorrect` | `MailHandedOver` |
| `RegistersPrivateCorrect` | `RegistersPrivate` |
| `IdResolvesCorrect` | `IdResolves`, if fewer environments are made than there are generations (`MaxAlloc < Gens`) |

The conjunction `Inv` of the first six is inductive, none of the last five is by
itself: the frame belongs to `curenv` only because `curenv` is in use
(`CurrentIsIndex`), a new slot is not the caller's only because the free list is
exact. `SwitchInv` carries the argument for the scheduler: whoever is switched
to is runnable, the frame is saved for the one that had it, and nobody is left
with an undelivered message. For the names, `NameInv` says that slot `i` has
the name of some generation `g`, `g * 2 * NENV + i`, and `NameArith` that this
fits, is not 0, and leads back to `i`. `NextRunnableFacts` needs that the search
of `_sched_yield` has a first hit (`Least`).

### IpcLib and PingPong

`IpcProofs` proves on top of that, for any number of slots and a rally of
any length:

| theorem | states |
|---|---|
| `RecvNeverPanicsCorrect` | `RecvNeverPanics` |
| `RendezvousCorrect` | `RendezvousSpec`: the library implements `Rendezvous`, if `MaxAlloc < Gens` |
| `OneBallCorrect` | `OneBall` |

The invariant ties the program counter of each program to its receive state: it
is receiving, or has mail, only between the trap of `ipc_can_recv` and the return
of `yield`, and whoever is in the kernel's list of free slots is at the start.
For the rally the argument is one token: a player that is sending has not been
told of success, so its partner has not got the ball from it; a partner that has
got it was receiving, hence not sending; and whoever the two players are, the
names they keep are each other's. Hence the sends and receives can only move
the token, and `SendRetry`, which repeats a send, does so only when the answer
says that nothing was delivered.

For `RendezvousSpec` a program's state as its callers see it is `Party`. The
passing of a message is the one step of `ipc_can_send` that is accepted
(`AcceptedMeets`): it makes the sender "answered" and the receiver "received" at
once. That the receiver still has to be switched to, that its values are stored
by `env_run`, and that a refused send yields and tries again, are stutters
(`SwitchMeets`, `RefusedMeets`, `SendRetryMeets`). The proof needs that the answer in
`x0` stays the caller's own across switches (`RegistersPrivate`), and that a name
stands for at most one slot (`NameInv`).

### Trap

`TrapProofs` proves for any number of environments and pages, from
`TrapAssumption` and `EntryAssumption`:

| theorem | states |
|---|---|
| `TlbCoherentCorrect` | `TlbCoherent` |
| `OnlyOwnStackCorrect` | `OnlyOwnStack` |
| `NoNestedAbortCorrect` | `NoNestedAbort` |
| `TrapTypeCorrect` | `TypeOK`: between handlers a free slot maps nothing, and nothing is left at `USTACKTOP` |

`TlbCoherent` speaks of the moments when a program runs, so `IInv` has to say of
a handler in the middle why it will end well. Either the TLB is coherent with the
tables of `curenv` and nothing left to do writes to them or changes `TTBR0`
(`Coherent`: calls on the caller's stack, and the end of every handler); or a
flush is still to come after which that is so, with `TTBR0` loaded before it
(`Settles`: a fork, a copy, `env_run`); or the handler ends in the scheduler's
endless loop (`Spins`). The entries a handler writes between its first flush and
its last may be cached too early, and this is why the last flush matters. For
`OnlyOwnStack` the invariant also covers the inside of handlers.

`NoNestedAbort` needs to know which entry an access will meet that lies behind
writes and flushes still to come. The invariant `AbortInv` therefore runs what is
left of the handler ahead: from the tables, `TTBR0`, and the set of addresses at
which the TLB may be out of date, each operation leads on (`OpStep`), an access
only where the TLB is right and the entry is there; and all that is left leads
to tables in which live environments have a writable stack and the others
nothing (`Leads`, `Settled`). A handler starts from such tables. One lemma per part
of a handler says where it leads (`LeadsRemove`, `LeadsInsert`, `LeadsEnvRun`,
...), one per handler that all of it goes through (`ForkRuns`, `FaultRuns`, ...); a
step of the handler drops the first operation of the run (`RunStep`, `GoesOn`), and
the MMU only copies what the tables in use say. That the TLB never holds an
invalid entry is part of the invariant: a write over an invalid entry needs no
flush after it, which is what `page_insert` relies on.

### Clock

`ClockProofs` proves for every width of a word, every period and slack below it:

| theorem | states |
|---|---|
| `ClockTypeCorrect` | `TypeOK` |
| `SleepLongEnoughCorrect` | `SleepLongEnough` |
| `TimerArmedCorrect` | `TimerArmed` |

For a sleep the invariant is that a reading which is not torn is at most the
counter, since the high half was read first and the counter only grows; a
reading in the loop that is torn is too small, and the loop goes round again.
For the timer it is that the counter is still within `Slack` of the value the
compare register will be computed from.

### Queue and Boot

`BootProofs` first proves `InitEmpties`, `InsertHeadPushes` and `RemoveDrops`: if
a list represents a sequence without repetitions, the macro leaves a list that
represents the empty sequence, the sequence with the element in front, the
sequence without its first element (the kernel removes no other). `Pmap` and
`Env` may therefore take their free lists for sequences. On these rest, for
memories, tables and program files of any size:

| theorem | states |
|---|---|
| `IdentityMappedCorrect` | `IdentityMapped` |
| `TablesFitCorrect` | `TablesFit` |
| `FreePagesUnusedCorrect` | `FreePagesUnused` |
| `LoadsSegmentsCorrect` | `LoadsSegments` |
| `BoardLayoutFits` | the layout of `sysconfig.h` satisfies `LayoutFits` |

The hypothesis of the first four is `LayoutFits`: between `KSTACKTOP` and
`KERNEL_PAGES` there is room for the tables that `2 * MAXPA` pages need at each
of the three levels below the directory, and the user's addresses do not need
more than the two entries of a directory that `PT0X` (a single bit of the
address) tells apart. `BoardLayoutFits` computes that the
board's numbers satisfy it, the addresses taken as the physical ones they stand
for; with the virtual ones of finding 2 it fails. `MCBoot` satisfies it exactly.

The invariant `BootInv` has two parts. For the kernel's tables it is `Shape`:
since `boot_map_segment` takes addresses in order, the tables of a level can be
numbered, entry `x` of a level is in its table number `Up(x)`, and there are
numberings `L` and counts `n` such that the tables hold exactly the entries
`x < n[level]` and nothing else. No weaker statement is inductive: that a walk
finds a table, and finds the right one, depends on which entries are still clear
in all the others, and those on what was in RAM at reset. One step of
`boot_pgdir_walk` (`BootStepShapes`) either finds the table or adds number
`n[level]` to it; a round of the loop is three of them and one entry
(`RoundShapes`). For the pages above the kernel it is `Mem`: the linked list
represents a set `F`, and the other pages are a tree (`Tree`), in which `lv`
gives each page its level, 4 for the directory and 0 for a page of the program;
every entry leads one level down, no two lead to the same page. While memory
lasts every page has a parent (`Parents`); after `page_insert` failed the page
it was called for is lost, and `F` is empty then. In the middle of a call,
allocated pages that nothing leads to yet are in `loose`. `AllocTree`,
`LinkTree` and `UnlinkTree` are the three things that can happen to the tree,
`WalkTree` and `InsertTree` put the calls together. `ShapeStays` says that the
second part leaves the first alone.

`LoadsSegments` is about a well-formed program (`WellFormed`: its segments start
at a page boundary, as `load_icode_mapper` takes for granted, they are below the
stack page, and no two share a page). It needs a third part, `LoadInv`, of what
is in memory while such a program is loaded and a page is free (`Progress`): the
stack page is clear, every segment before `ph` is there as a whole, the one at
`ph` up to `pos`, and `pos` is at a page boundary. "There" is said page by page
(`Loaded`): the address is mapped (`Holds`) to a page with the bytes of the file
and zeros behind them (`Image`). A round of the loop adds a page to that
(`PageLoads`), and has to leave the others: `page_alloc` clears a page and
`pgdir_walk` adds tables, but only free pages are written and no entry that is
there is changed (`Kept`); the one entry that `page_insert` writes is another
address's, because in a tree two addresses that the directory tells apart do not
share an entry (`WaysApart`); and in a well-formed program another page of a
segment, or a page of another segment, is at another address (`PagesApart`).
That a page is still free at the end is what rules out that `page_insert` failed
unnoticed on the way; for the loop it has to be known of each step, and
`HadPage` takes it back from the end of a step to its beginning. `InvLoads` goes
from pages to bytes.

### Console

`ConsoleProofs` proves, for any FIFO, any buffer, any widths of the words and
any operations:

| theorem | states |
|---|---|
| `OutputInOrder` | `InOrder` |
| `FieldsCorrect` | `FieldsReadBack` |
| `PinsCorrect` | `PinsKept` |

`OutputInOrder` assumes of the callers what C leaves to them (`SensibleCalls`):
each directive of a format finds an argument of the type it reads. Since a
format is used up from its front, this is said of a set `P` of pairs, what may
be left of a format and of its arguments, that one directive or one plain
character leads from one pair of `P` to another. The invariant `OrderInv` is
`InOrder` and that the running `_printf` is at a pair of `P`; that the fields it
appends are texts at all is `DirectiveTyped`, `ReversedText` and `ConvertText`,
and the step of `_putchar` is `SentConcat`: what is sent of two texts is what is
sent of the one and then of the other. What `panic` prints in between is allowed
for (`EnoughExists`).

`FieldsCorrect` needs of this invariant only that the argument has its type; the
rest is about `make_num`, for every number, base, width and flag. It goes three
ways. What the divisions leave (`DigitsFound`, `DigitsFew`): digits, no zero in
front, and no more of them than the number has bits, so that `buf` has room
whenever the width fits, and the absolute value of a signed word is itself a
word, the least one included (`WordsBounded`, `PowersGrow`). Where they stand
(`FieldShape`): blanks, a sign, zeros, the digits turned round, blanks, in the
numbers the flags ask for, also where the sign is put behind the zeros. What
this reads as (`ReadBack`, `ShapedReads`): read from the left, each digit takes
the value from `n \div base` to `n`, and zeros in front add nothing.

`PinsCorrect` assumes what `main` does (`PinsByMain`): it calls `uart_init`,
and `gpio_output_init` for 17 and 27 only, and nothing after `main` calls either.
`PinsInv` adds to `PinsKept` that before `main` is through, each of the three has
been done or is still to come, or `main` has panicked; then no program runs.
`SelectPins` is the arithmetic of the three bits of a pin. For the lamps
`LampInv` says which are on before, between and after the two writes of a switch,
for each lamp that was on before it.

`MCConsole` has TLC evaluate `SensibleCalls` and `PinsByMain` of its operations.
Powers of two are a function here (`Pow2`), since the provers do not know
exponentiation; `Powers` is what they need of it.

### Induction

None of the provers can instantiate the library's induction theorems.
`DataLemmas` proves instead, from the well-ordering of the naturals, that a set
that holds 0 and the successor of each of its members holds every natural
(`NatInd`), and that a function defined by recursion over `Nat` exists
(`RecExists`). The paths through the page tables in `PmapProofs` rest on these,
and so do the reading of the free list in `BootProofs` and the digits and texts of
`ConsoleProofs`.

Only model-checked is all liveness, which is beyond the prover.

## 5. What is not modelled

* A self-send of a page, and results of a receive that a program has put
  elsewhere than in its stack: no program of the repository does either. With an
  unmapped pointer `env_run` would abort inside the handler and the nested entry
  would overwrite the frame; `NoNestedAbort` is about the programs there are.
* In `Fork`, the low bits of `perm` other than AP (memory type, shareability,
  the access flag, which `page_insert` sets anyway), and address bits that name
  something outside the pages `Page` (kernel memory, devices, no memory). `Pmap`,
  `PageMap`, `Env` and `Trap` take `perm` for permission bits only: what they
  promise holds as long as no message makes a stray entry.
* In `Trap`, what `push_time_stack` overwrites (`lib/handler.s:31`): it pushes x0
  where an earlier call left `SP_EL1`, which may be over something the program has
  put on its stack since. `Trap` has no contents of memory, and the
  stores of `Fork` are the programs' own; so `OnlyOwnStack` says whose stack it
  is, and nothing says that the push does no harm there.
* In `Trap`, translations of kernel addresses (`TTBR1` never changes) and of
  instructions, running out of pages inside a handler (in `Fork`), and a second
  program address.
* The second core and above, parked by `boot/init.s`; the switch of exception
  levels and the values of the system registers it writes: hardware setup.
* `uart_recv`, `LIST_INSERT_AFTER`, `LIST_INSERT_BEFORE` and the tail queues:
  never used. `boot_alloc` is always asked for one cleared page.
* Settling times of pins and of the UART's clock (`_sleep(0)`), baud rate and
  line format: the model has no electrical state.
* `generic_handler`: it prints and stops, like every panic.
* `src/user/user.c` is a generated image of a program, and the makefiles and the
  ELF-to-C converter are not part of the running system.

## 6. Plan

1. Done: `Pmap`, `PageMap`, `PmapProofs`; `Fork`, `PrivateMem`, `ForkProofs`;
   `Env`, `IpcLib`, `Rendezvous`, `PingPong`, `IpcProofs`; `Trap`, `TrapProofs`;
   `Clock`, `ClockProofs`; `Queue`, `Boot`, `BootProofs`; `Format`, `Console`,
   `ConsoleProofs`.
2. Left: nothing of the plan; the liveness properties stay with TLC.
