-------------------------------- MODULE Boot --------------------------------
(***************************************************************************)
(* From the reset vector to the first program: vm_init builds the tables   *)
(* of the kernel with the MMU off (src/os/mm/mm_init.c), page_init puts    *)
(* the pages above the kernel on the free list, and env_create loads the   *)
(* program linked into the kernel (src/os/lib/env.c, kernel_elfloader.c).  *)
(*                                                                         *)
(* Addresses are page numbers, except inside a program, where a page has   *)
(* BY2PG bytes.  The byte at offset o of the program's file is o itself,   *)
(* so that a byte in memory says where it was copied from; a cleared byte  *)
(* is Zero.                                                                *)
(***************************************************************************)
EXTENDS Queue, FiniteSets

CONSTANTS
  MAXPA,         \* pages of RAM; the element p of Queue is page p
  KSTACKTOP,     \* where boot_alloc starts
  KERNEL_PAGES,  \* the array pages[] is here and above
  TIMESTACKTOP,  \* the first page the kernel has no use for
  USTACKTOP,
  PTE2PT,        \* entries in a table
  BY2PG,         \* bytes in a page
  Binary,        \* the programs that may be linked in
  BadPointer     \* (void *)-E_NO_MEM

ASSUME BootAssumption ==
  /\ {MAXPA, KSTACKTOP, KERNEL_PAGES, TIMESTACKTOP} \subseteq Nat
  /\ {USTACKTOP, BY2PG} \subseteq Nat \ {0}
  /\ PTE2PT \in Nat /\ PTE2PT >= 2
  /\ Element = 0 .. (MAXPA - 1)
  /\ KERNEL_PAGES < TIMESTACKTOP /\ TIMESTACKTOP < MAXPA
  /\ BadPointer \notin Element

(* A binary: whether it has the ELF magic, and its program headers.        *)
ASSUME BinaryAssumption ==
  \A b \in Binary :
    /\ b.elf \in BOOLEAN
    /\ b.ph \in Seq([type : Nat, off : Nat, va : Nat, filesz : Nat, memsz : Nat])
    /\ \A j \in 1 .. Len(b.ph) : b.ph[j].filesz <= b.ph[j].memsz

SHT_PROGBITS == 1
Zero == -1

(* An entry: a page and what the entry is for.  What RAM holds at reset    *)
(* looks like an entry with PTE_V.                                         *)
Invalid == [at |-> BadPointer, attr |-> "invalid"]
Garbage == [at |-> BadPointer, attr |-> "table"]
Link(p) == [at |-> p, attr |-> "table"]

Index == 0 .. (PTE2PT - 1)
Up(x) == x \div PTE2PT
PT0X(va) == Up(Up(Up(va))) % 2
PT1X(va) == Up(Up(va)) % PTE2PT
PT2X(va) == Up(va) % PTE2PT
PT3X(va) == va % PTE2PT

Cleared == [i \in Index |-> Invalid]
ClearedBytes == [b \in 0 .. (BY2PG - 1) |-> Zero]

VARIABLES
  pc,
  freemem,  \* of boot_alloc
  pgdir,    \* of vm_init
  mapped,   \* va of boot_map_segment
  table,    \* RAM as page tables
  bytes,    \* RAM as contents
  list,     \* page_free_list
  pp_ref,
  next,     \* i of page_init
  ttbr0,    \* env_ttbr0 of the environment
  binary,   \* what is linked in
  ph,       \* the program header load_elf is at
  pos,      \* i of load_icode_mapper
  elr

vars == <<pc, freemem, pgdir, mapped, table, bytes, list, pp_ref, next, ttbr0,
          binary, ph, pos, elr>>

boot == <<freemem, pgdir, mapped>>
memory == <<table, bytes, list, pp_ref>>
program == <<ttbr0, binary, ph, pos, elr>>
-----------------------------------------------------------------------------
(* vm_init.  m is a machine with the MMU off: [freemem, table], and at is  *)
(* the result of the call that led to it.                                  *)

(* Mutant of boot_alloc: the chunk is not cleared.                         *)
BootAllocDirty(m) ==
  [freemem |-> m.freemem + 1, table |-> m.table,
   at |-> IF m.freemem + 1 >= MAXPA THEN BadPointer ELSE m.freemem]

(* boot_alloc(BY2PG, BY2PG, 1), the only call there is.                    *)
boot_alloc(m) ==
  [freemem |-> m.freemem + 1,
   table |-> IF m.freemem \in Element
             THEN [m.table EXCEPT ![m.freemem] = Cleared] ELSE m.table,
   at |-> IF m.freemem + 1 >= MAXPA THEN BadPointer ELSE m.freemem]

(* Mutant of BootStep: a new table is not entered in the one above.        *)
BootStepUnlinked(m, index) ==
  IF m.at \notin Element THEN m
  ELSE IF m.table[m.at][index] # Invalid
       THEN [m EXCEPT !.at = m.table[m.at][index].at]
       ELSE boot_alloc(m)

(* One level of boot_pgdir_walk.  A walk that left RAM goes nowhere.       *)
BootStep(m, index) ==
  IF m.at \notin Element THEN m
  ELSE IF m.table[m.at][index] # Invalid
       THEN [m EXCEPT !.at = m.table[m.at][index].at]
       ELSE LET a == boot_alloc(m)
            IN  [a EXCEPT !.table[m.at][index] = Link(a.at)]

boot_pgdir_walk(m, va) ==
  BootStep(BootStep(BootStep(m, PT0X(va)), PT1X(va)), PT2X(va))

(* detect_memory, and the page for the directory.                          *)
vm_init ==
  /\ pc = "reset"
  /\ LET a == boot_alloc([freemem |-> KSTACKTOP, table |-> table, at |-> BadPointer])
     IN  pgdir' = a.at /\ freemem' = a.freemem /\ table' = a.table
  /\ pc' = "boot_map_segment"
  /\ UNCHANGED <<mapped, bytes, list, pp_ref, next, program>>

(* The two segments: RAM, and as many pages of devices.                    *)
Attribute(va) == IF va < MAXPA THEN "NORMAL" ELSE "DEVICE"

(* One round of the loop.  An access outside RAM is the end.               *)
boot_map_segment ==
  /\ pc = "boot_map_segment" /\ mapped < 2 * MAXPA
  /\ LET w == boot_pgdir_walk([freemem |-> freemem, table |-> table, at |-> pgdir], mapped)
         entry == [at |-> mapped, attr |-> Attribute(mapped)]
     IN  /\ freemem' = w.freemem
         /\ table' = IF w.at \in Element
                     THEN [w.table EXCEPT ![w.at][PT3X(mapped)] = entry] ELSE w.table
         /\ pc' = IF w.at \in Element THEN pc ELSE "aborted"
  /\ mapped' = mapped + 1
  /\ UNCHANGED <<pgdir, bytes, list, pp_ref, next, program>>

el1_mmu_activate ==
  /\ pc = "boot_map_segment" /\ mapped = 2 * MAXPA
  /\ pc' = "page_init"
  /\ UNCHANGED <<boot, memory, next, program>>
-----------------------------------------------------------------------------
(* page_init: LIST_INIT, then one page per step, used pages first.         *)
page_init ==
  /\ pc = "page_init"
  /\ next' = next + 1
  /\ list' = CASE next = 0 -> LIST_INIT(list)
               [] next > TIMESTACKTOP -> LIST_INSERT_HEAD(list, next - 1)
               [] OTHER -> list
  /\ pp_ref' = IF next \in 1 .. TIMESTACKTOP
               THEN [pp_ref EXCEPT ![next - 1] = 65535] ELSE pp_ref
  /\ pc' = IF next = MAXPA THEN "env_create" ELSE pc
  /\ UNCHANGED <<boot, table, bytes, program>>
-----------------------------------------------------------------------------
(* Pages for the environment.  k is what the kernel keeps about pages:     *)
(* [list, table, bytes, ref], and at is the result of the call.            *)

Kernel == [list |-> list, table |-> table, bytes |-> bytes, ref |-> pp_ref, at |-> NULL]
Keep(k) == list' = k.list /\ table' = k.table /\ bytes' = k.bytes /\ pp_ref' = k.ref

page_alloc(k) ==
  LET p == LIST_FIRST(k.list) IN
  IF p = NULL THEN [k EXCEPT !.at = NULL]
  ELSE [list |-> LIST_REMOVE(k.list, p), at |-> p,
        table |-> [k.table EXCEPT ![p] = Cleared],
        bytes |-> [k.bytes EXCEPT ![p] = ClearedBytes],
        ref |-> [k.ref EXCEPT ![p] = 0]]

(* One level of pgdir_walk with create; NULL when memory runs out.         *)
WalkStep(k, index) ==
  IF k.at = NULL THEN k
  ELSE IF k.table[k.at][index] # Invalid
       THEN [k EXCEPT !.at = k.table[k.at][index].at]
       ELSE LET a == page_alloc(k)
            IN  IF a.at = NULL THEN a
                ELSE [a EXCEPT !.table[k.at][index] = Link(a.at), !.ref[a.at] = @ + 1]

pgdir_walk(k, root, va) ==
  WalkStep(WalkStep(WalkStep([k EXCEPT !.at = root], PT0X(va)), PT1X(va)), PT2X(va))

(* The entry for va in the tables t, Invalid when there is none.           *)
Follow(t, p, x) == IF p \in Element THEN t[p][x].at ELSE BadPointer
Lookup(t, root, va) ==
  LET p == Follow(t, Follow(t, Follow(t, root, PT0X(va)), PT1X(va)), PT2X(va))
  IN  IF p \in Element THEN t[p][PT3X(va)] ELSE Invalid

(* page_remove of what is mapped at va: a page the loader mapped once.     *)
page_remove(k, va) ==
  LET p == Lookup(k.table, ttbr0, va).at
      w == pgdir_walk(k, ttbr0, va)
  IN  [k EXCEPT !.table[w.at][PT3X(va)] = Invalid,
                !.ref[p] = @ - 1,
                !.list = LIST_INSERT_HEAD(@, p)]

(* page_insert(env_ttbr0, p, va, ATTRIB_AP_RW_ALL) of a page that has no   *)
(* entry yet.  Its result is not looked at.                                *)
page_insert(k, p, va) ==
  LET r == IF Lookup(k.table, ttbr0, va) # Invalid THEN page_remove(k, va) ELSE k
      w == pgdir_walk(r, ttbr0, va)
  IN  IF w.at = NULL THEN w
      ELSE [w EXCEPT !.table[w.at][PT3X(va)] = [at |-> p, attr |-> "RW_ALL"],
                     !.ref[p] = @ + 1]

(* bcopy of n bytes of the file from offset src on to page p, from byte d. *)
bcopy(k, src, p, d, n) ==
  [k EXCEPT !.bytes[p] =
     [b \in DOMAIN @ |-> IF b \in d .. (d + n - 1) THEN src + (b - d) ELSE @[b]]]
-----------------------------------------------------------------------------
(* env_create of any of the programs: env_alloc takes a directory.  Pages  *)
(* are left, page_init has just put all above TIMESTACKTOP on the list.    *)
env_create ==
  /\ pc = "env_create"
  /\ LET a == page_alloc(Kernel)
     IN  /\ a.at # NULL
         /\ Keep([a EXCEPT !.ref[a.at] = @ + 1])
         /\ ttbr0' = a.at
  /\ binary' \in Binary
  /\ pc' = "load_icode"
  /\ UNCHANGED <<boot, next, ph, pos, elr>>

(* load_icode maps the stack, and load_elf looks at the magic.  r is       *)
(* unsigned, so a page_alloc that fails is not noticed: page_insert of no  *)
(* page fails too, and the program is loaded without a stack.  When        *)
(* load_elf fails, entry_point stays uninitialised.                        *)
load_icode ==
  /\ pc = "load_icode"
  /\ LET a == page_alloc(Kernel)
     IN  Keep(page_insert(a, a.at, USTACKTOP - 1))
  /\ IF binary.elf THEN pc' = "load_elf" /\ elr' = elr
                   ELSE pc' = "failed" /\ elr' = "uninitialised"
  /\ ph' = 1
  /\ UNCHANGED <<boot, next, ttbr0, binary, pos>>

Segment == binary.ph[ph]
Offset == Segment.va % BY2PG

(* The page a step of load_icode_mapper asks for: with none left, it and   *)
(* load_elf return; otherwise n bytes of the file from src on are copied   *)
(* to it, from byte d, and it is mapped at va.                             *)
MapPage(src, d, n, va, goto) ==
  LET a == page_alloc(Kernel)
  IN  IF a.at = NULL
      THEN pc' = "failed" /\ elr' = "uninitialised" /\ UNCHANGED memory
      ELSE /\ Keep(page_insert(bcopy(a, src, a.at, d, n), a.at, va \div BY2PG))
           /\ pc' = goto /\ elr' = elr

(* load_elf: the next program header, or the end.                          *)
load_elf ==
  /\ pc = "load_elf"
  /\ IF ph > Len(binary.ph)
     THEN pc' = "loaded" /\ elr' = "e_entry" /\ UNCHANGED <<memory, ph, pos>>
     ELSE IF Segment.type # SHT_PROGBITS
     THEN ph' = ph + 1 /\ UNCHANGED <<pc, memory, pos, elr>>
     ELSE /\ pos' = Offset
          /\ ph' = ph
          /\ IF Offset = 0 THEN pc' = "mapper" /\ UNCHANGED <<memory, elr>>
             ELSE MapPage(Segment.off, Offset, BY2PG - Offset,
                          Segment.va - Offset, "mapper")
  /\ UNCHANGED <<boot, next, ttbr0, binary>>

(* Mutant of CopyPage: a last partial page is left out.                    *)
CopyFullPages ==
  /\ pc = "mapper" /\ pos < Segment.filesz
  /\ LET left == Segment.filesz - pos
     IN  MapPage(Segment.off + pos, 0, IF left >= BY2PG THEN BY2PG ELSE 0, Segment.va + pos, pc)
  /\ pos' = pos + BY2PG
  /\ UNCHANGED <<boot, next, ttbr0, binary, ph>>

(* load_icode_mapper: the loop over the contents,                          *)
CopyPage ==
  /\ pc = "mapper" /\ pos < Segment.filesz
  /\ LET left == Segment.filesz - pos
     IN  MapPage(Segment.off + pos, 0, IF left >= BY2PG THEN BY2PG ELSE left, Segment.va + pos, pc)
  /\ pos' = pos + BY2PG
  /\ UNCHANGED <<boot, next, ttbr0, binary, ph>>

(* then the loop up to sgsize, and return.                                 *)
ZeroPage ==
  /\ pc = "mapper" /\ pos >= Segment.filesz /\ pos < Segment.memsz
  /\ MapPage(Segment.off, 0, 0, Segment.va + pos, pc)
  /\ pos' = pos + BY2PG
  /\ UNCHANGED <<boot, next, ttbr0, binary, ph>>

MapperReturns ==
  /\ pc = "mapper" /\ pos >= Segment.memsz
  /\ pc' = "load_elf" /\ ph' = ph + 1
  /\ UNCHANGED <<boot, memory, next, ttbr0, binary, pos, elr>>
-----------------------------------------------------------------------------
(* Power on: what RAM holds is arbitrary, and taken to be the worst.       *)
Init ==
  /\ pc = "reset"
  /\ freemem = 0 /\ pgdir = BadPointer /\ mapped = 0
  /\ table = [p \in Element |-> [x \in Index |-> Garbage]]
  /\ bytes = [p \in Element |-> [b \in 0 .. (BY2PG - 1) |-> 0]]
  /\ list = [first |-> NULL, next |-> [p \in Element |-> 0], prev |-> [p \in Element |-> 0]]
  /\ pp_ref = [p \in Element |-> 7]
  /\ next = 0
  /\ ttbr0 = BadPointer /\ binary = [elf |-> FALSE, ph |-> <<>>] /\ ph = 0 /\ pos = 0
  /\ elr = "unset"

Next ==
  \/ vm_init \/ boot_map_segment \/ el1_mmu_activate \/ page_init
  \/ env_create \/ load_icode \/ load_elf
  \/ CopyPage \/ ZeroPage \/ MapperReturns

Spec == Init /\ [][Next]_vars
-----------------------------------------------------------------------------
(***************************************************************************)
(* Properties                                                              *)
(***************************************************************************)

(* boot_alloc (mm_init.c:25): "If we're out of memory, should panic, else  *)
(* return this address of memory we have allocated."                       *)
BootAllocReturns == pc # "reset" => pgdir \in KSTACKTOP .. (freemem - 1)

(* With the directory that el1_mmu_activate loads, an address of RAM or of *)
(* a device is mapped to itself as soon as the loop has passed it, RAM as  *)
(* normal memory; no page_init and no loader undoes that.                  *)
IdentityMapped ==
  pc # "reset" =>
    \A va \in 0 .. (2 * MAXPA - 1) :
      Lookup(table, KSTACKTOP, va) =
        IF va < mapped THEN [at |-> va, attr |-> Attribute(va)] ELSE Invalid

(* The tables of the kernel end before the array of page descriptors, and  *)
(* boot_alloc hands each page to one table.                                *)
TablesFit ==
  /\ freemem <= KERNEL_PAGES
  /\ \A p, q \in KSTACKTOP .. (freemem - 1), x, y \in Index :
       LET a == table[p][x]  b == table[q][y]
       IN  a.attr = "table" /\ a = b => p = q /\ x = y

(* The pages on the list from the one that follows s on.                   *)
OnList ==
  LET Reach[n \in 0 .. MAXPA] ==
        IF n = 0 THEN <<>>
        ELSE LET s == Reach[n - 1]
                 x == IF s = <<>> THEN LIST_FIRST(list) ELSE LIST_NEXT(list, s[Len(s)])
             IN  IF x \in Element THEN Append(s, x) ELSE s
  IN  Reach[MAXPA]

(* The pages with a reference from the environment: its directory, the     *)
(* tables below it and what they map.                                      *)
Below(S) == {p \in Element : \E q \in S, x \in Index :
               table[q][x] # Invalid /\ table[q][x].at = p}
OfProgram ==
  LET d == {ttbr0} \cap Element
      tables == d \cup Below(d) \cup Below(Below(d)) \cup Below(Below(Below(d)))
  IN  tables \cup Below(Below(Below(Below(d))))

(* Once page_init has run, the list is well formed, and each page above    *)
(* the kernel is on it or used by the program, but not both; none is       *)
(* missing unless memory ran out.                                          *)
FreePagesUnused ==
  pc \in {"env_create", "load_icode", "load_elf", "mapper", "loaded", "failed"} =>
    LET free == {OnList[n] : n \in 1 .. Len(OnList)}
    IN  /\ Represents(list, OnList)
        /\ free \cap OfProgram = {}
        /\ free \cup OfProgram \subseteq TIMESTACKTOP .. (MAXPA - 1)
        /\ free # {} => free \cup OfProgram = TIMESTACKTOP .. (MAXPA - 1)

(* The byte of the program's memory at a, if it is mapped.                 *)
ByteAt(a) ==
  LET e == Lookup(table, ttbr0, a \div BY2PG)
  IN  IF e = Invalid THEN BadPointer ELSE bytes[e.at][a % BY2PG]

Loadable == {j \in 1 .. Len(binary.ph) : binary.ph[j].type = SHT_PROGBITS}
PagesOf(s) == (s.va \div BY2PG) .. ((s.va + s.memsz - 1) \div BY2PG)

(* A program load_icode_mapper can load: its segments are page-aligned,    *)
(* below the stack page, and apart.                                        *)
WellFormed ==
  /\ \A j \in Loadable : /\ binary.ph[j].va % BY2PG = 0
                         /\ \A p \in PagesOf(binary.ph[j]) : p < USTACKTOP - 1
  /\ \A j, l \in Loadable : j # l => PagesOf(binary.ph[j]) \cap PagesOf(binary.ph[l]) = {}

(* When load_elf succeeds and memory did not run out, a well-formed        *)
(* program has in memory what its file says, followed by zeros, and a      *)
(* cleared stack page.                                                     *)
LoadsSegments ==
  pc = "loaded" /\ LIST_FIRST(list) # NULL /\ WellFormed
  => /\ elr = "e_entry"
     /\ \A j \in Loadable : LET s == binary.ph[j] IN
          \A n \in 0 .. (s.memsz - 1) :
            ByteAt(s.va + n) = IF n < s.filesz THEN s.off + n ELSE Zero
     /\ \A b \in 0 .. (BY2PG - 1) : ByteAt((USTACKTOP - 1) * BY2PG + b) = Zero
=============================================================================
