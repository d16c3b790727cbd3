----------------------------- MODULE ForkProofs -----------------------------
(***************************************************************************)
(* Proofs about Fork, for any number of pages, environments and addresses. *)
(***************************************************************************)
EXTENDS Fork, TLAPS

(* The inductive invariant.  A page that two addresses share was shared by *)
(* fork or by a message; that pages fresh from the free list have no entry *)
(* anywhere is in TypeOK and the definition of Free.                       *)
Inv == TypeOK /\ CowExclusive

(* For the refinement: Temp is mapped only inside mmu_fault_handler, or    *)
(* because a message put a page there.                                     *)
TempSent == \A e \in AS : Valid(e, Temp) => pte[e][Temp].page \in sent
TInv == Inv /\ TempSent

(* What that leaves while no page is passed on.                            *)
RInv == Inv /\ sent = {} /\ \A e \in AS : ~Valid(e, Temp)

-----------------------------------------------------------------------------
(* A page with an entry is a page, with one of the four permissions.      *)
LEMMA EntryFacts ==
  ASSUME TypeOK, NEW e \in AS, NEW va \in VA
  PROVE  /\ pte[e][va] \in Entry \cup {Invalid}
         /\ Valid(e, va) => /\ pte[e][va] \in Entry
                            /\ pte[e][va].page \in Page \ Free
                            /\ e \in live
<1>1. pte[e][va] \in Entry \cup {Invalid}
  BY DEF TypeOK
<1>2. ASSUME Valid(e, va) PROVE pte[e][va] \in Entry /\ pte[e][va].page \in Page
  BY <1>1, <1>2 DEF Valid, Entry
<1>3. ASSUME Valid(e, va) PROVE pte[e][va].page \in InUse
  BY <1>2, <1>3 DEF InUse
<1>4. ASSUME Valid(e, va) PROVE e \in live
  BY <1>4 DEF Valid, TypeOK, NoMemory
<1> QED
  BY <1>1, <1>2, <1>3, <1>4 DEF Free

(* The boot environment owns each of its pages alone.                      *)
LEMMA InitInv ==
  ASSUME Init
  PROVE  Inv /\ StackWritable /\ sent = {} /\ \A e \in AS : ~Valid(e, Temp)
<1>1. PICK e \in AS, loaded \in [VA \ {Temp} -> Page \cup {Invalid}] :
        /\ loaded[Stack] # Invalid
        /\ \A u, v \in VA \ {Temp} :
             loaded[u] = loaded[v] /\ loaded[u] # Invalid => u = v
        /\ live = {e}
        /\ pte = [a \in AS |-> [va \in VA |->
             IF a = e /\ va # Temp /\ loaded[va] # Invalid
             THEN [page |-> loaded[va], ap |-> "RW_ALL"] ELSE Invalid]]
  BY DEF Init
<1>2. data \in [Page -> Value] /\ lost = {} /\ sent = {} /\ kernel = "running"
  BY DEF Init
<1>3. ASSUME NEW a \in AS, NEW va \in VA, Valid(a, va)
      PROVE  /\ a = e /\ va # Temp /\ loaded[va] # Invalid
             /\ pte[a][va] = [page |-> loaded[va], ap |-> "RW_ALL"]
             /\ loaded[va] \in Page
  BY <1>1, <1>3 DEF Valid
<1>4. pte \in [AS -> [VA -> Entry \cup {Invalid}]]
  <2> SUFFICES ASSUME NEW a \in AS, NEW va \in VA
               PROVE  pte[a][va] \in Entry \cup {Invalid}
    BY <1>1
  <2> QED
    BY <1>1, <1>3 DEF Valid, Entry, AP
<1>5. \A a \in AS \ live : pte[a] = NoMemory
  BY <1>1 DEF NoMemory
<1>6. TypeOK
  BY <1>1, <1>2, <1>4, <1>5 DEF TypeOK
<1>7. CowExclusive
  BY <1>1, <1>3 DEF CowExclusive
<1>8. StackWritable
  <2> SUFFICES ASSUME NEW a \in AS, Valid(a, Stack) PROVE pte[a][Stack].ap = "RW_ALL"
    BY DEF StackWritable
  <2>1. pte[a][Stack] = [page |-> loaded[Stack], ap |-> "RW_ALL"]
    BY <1>3, ForkAssumption
  <2> QED
    BY ONLY <2>1
<1>9. \A a \in AS : ~Valid(a, Temp)
  BY <1>3, ForkAssumption
<1> QED
  BY <1>2, <1>6, <1>7, <1>8, <1>9 DEF Inv

(* A fault maps a page that was free, and nothing else changes hands.      *)
LEMMA FaultInv ==
  ASSUME Inv, NEW e \in AS, NEW va \in VA, mmu_fault_handler(e, va)
  PROVE  Inv' /\ (StackWritable => StackWritable')
<1> USE DEF Inv
<1>1. PICK q \in Free :
        /\ data' = [data EXCEPT ![q] = data[pte[e][va].page]]
        /\ pte' = [pte EXCEPT ![e][va] = [page |-> q, ap |-> "RW_ALL"],
                              ![e][Temp] = Invalid]
        /\ sent' = sent \ {q}
  BY DEF mmu_fault_handler
<1>2. /\ e \in live /\ Valid(e, va) /\ pte[e][va].page \in Page
      /\ live' = live /\ lost' = lost /\ kernel = "running" /\ kernel' = kernel
      /\ q \in Page /\ q \notin lost
  BY <1>1, EntryFacts DEF mmu_fault_handler, ReadOnly, Runs, Free
<1>3. /\ pte' \in [AS -> [VA -> Entry \cup {Invalid}]]
      /\ \A f \in AS, u \in VA :
           pte'[f][u] = IF f = e /\ u = Temp THEN Invalid
                        ELSE IF f = e /\ u = va THEN [page |-> q, ap |-> "RW_ALL"]
                        ELSE pte[f][u]
      /\ \A f \in AS : f # e => pte'[f] = pte[f]
  BY <1>1, <1>2, ForkAssumption DEF TypeOK, Entry, AP
<1>4. \A f \in AS, u \in VA : Valid(f, u) => pte[f][u].page # q
  BY <1>1, EntryFacts
<1>5. TypeOK'
  <2>1. InUse' \subseteq InUse \cup {q}
    BY <1>3 DEF InUse, Valid
  <2>2. lost' \cap InUse' = {}
    BY <1>2, <2>1 DEF TypeOK
  <2>3. data' \in [Page -> Value]
    BY <1>1, <1>2 DEF TypeOK
  <2>4. \A f \in AS \ live' : pte'[f] = NoMemory
    BY <1>2, <1>3 DEF TypeOK
  <2> QED
    BY <1>1, <1>2, <1>3, <2>2, <2>3, <2>4 DEF TypeOK, NoMemory
<1>6. CowExclusive'
  BY <1>1, <1>3, <1>4 DEF CowExclusive, Valid
<1>7. StackWritable => StackWritable'
  <2> SUFFICES ASSUME StackWritable, NEW f \in AS, pte'[f][Stack] # Invalid,
                      pte'[f][Stack].page \notin sent \ {q}
               PROVE  pte'[f][Stack].ap = "RW_ALL"
    BY <1>1 DEF StackWritable, Valid
  <2>1. CASE f = e /\ va = Stack
    <3>1. pte'[f][Stack] = [page |-> q, ap |-> "RW_ALL"]
      BY <1>3, <2>1, ForkAssumption
    <3> QED
      BY ONLY <3>1
  <2>2. CASE ~(f = e /\ va = Stack)
    <3>1. pte'[f][Stack] = pte[f][Stack]
      BY <1>3, <2>2, ForkAssumption
    <3> QED
      BY <1>4, <3>1, ForkAssumption DEF StackWritable, Valid
  <2> QED
    BY <2>1, <2>2
<1> QED
  BY <1>5, <1>6, <1>7

(* fork gives the child a stack of its own and shares the rest read-only.  *)
LEMMA ForkInv ==
  ASSUME Inv, NEW e \in AS, NEW c \in AS, NEW miss \in SUBSET VA, _fork(e, c, miss)
  PROVE  Inv' /\ (StackWritable => StackWritable')
<1> USE DEF Inv
<1>1. PICK q \in Free :
        /\ data' = [data EXCEPT ![q] = data[pte[e][Stack].page]]
        /\ pte' = ForkTables(e, c, q, miss)
        /\ lost' = IF Stack \in miss THEN lost \cup {q} ELSE lost
        /\ sent' = sent \ {q}
  BY DEF _fork
<1>2. /\ e \in live /\ c \notin live /\ c # e /\ Valid(e, Stack)
      /\ pte[e][Stack].page \in Page
      /\ live' = live \cup {c} /\ kernel = "running" /\ kernel' = kernel
      /\ q \in Page /\ q \notin lost
  BY <1>1, EntryFacts, ForkAssumption DEF _fork, Runs, Free
<1>3. /\ \A u \in VA :
           /\ pte'[e][u] = IF Valid(e, u) /\ u # Stack
                           THEN [page |-> pte[e][u].page, ap |-> "RO_ALL"]
                           ELSE pte[e][u]
           /\ pte'[c][u] = IF ~Valid(e, u) \/ u \in miss THEN Invalid
                           ELSE IF u = Stack THEN [page |-> q, ap |-> "RW_ALL"]
                           ELSE [page |-> pte[e][u].page, ap |-> "RO_ALL"]
      /\ \A f \in AS : f # e /\ f # c => pte'[f] = pte[f]
      /\ pte' \in [AS -> [VA -> Entry \cup {Invalid}]]
  <2>1. \A u \in VA : Valid(e, u) => [page |-> pte[e][u].page, ap |-> "RO_ALL"] \in Entry
    BY EntryFacts DEF Entry, AP
  <2>2. [page |-> q, ap |-> "RW_ALL"] \in Entry
    BY <1>2 DEF Entry, AP
  <2>3. \A u \in VA : ChildEntry(e, u, q) = IF u = Stack THEN [page |-> q, ap |-> "RW_ALL"]
                          ELSE [page |-> pte[e][u].page, ap |-> "RO_ALL"]
    BY DEF ChildEntry
  <2>4. /\ \A u \in VA :
             /\ pte'[e][u] = IF Valid(e, u) /\ u # Stack
                             THEN [page |-> pte[e][u].page, ap |-> "RO_ALL"]
                             ELSE pte[e][u]
             /\ pte'[c][u] = IF Valid(e, u) /\ u \notin miss
                             THEN ChildEntry(e, u, q) ELSE Invalid
        /\ \A f \in AS : f # e /\ f # c => pte'[f] = pte[f]
        /\ DOMAIN pte' = AS /\ pte' = [f \in AS |-> pte'[f]]
        /\ pte'[e] = [u \in VA |-> pte'[e][u]] /\ pte'[c] = [u \in VA |-> pte'[c][u]]
    BY <1>1, <1>2 DEF TypeOK, ForkTables
  <2>5. ASSUME NEW u \in VA
        PROVE  /\ pte'[e][u] \in Entry \cup {Invalid}
               /\ pte'[c][u] \in Entry \cup {Invalid}
    BY <2>1, <2>2, <2>3, <2>4, EntryFacts
  <2>6. ASSUME NEW f \in AS PROVE pte'[f] \in [VA -> Entry \cup {Invalid}]
    BY <2>4, <2>5 DEF TypeOK
  <2>7. pte' \in [AS -> [VA -> Entry \cup {Invalid}]]
    BY <2>4, <2>6
  <2>8. ASSUME NEW u \in VA
        PROVE  pte'[c][u] = IF ~Valid(e, u) \/ u \in miss THEN Invalid
                            ELSE IF u = Stack THEN [page |-> q, ap |-> "RW_ALL"]
                            ELSE [page |-> pte[e][u].page, ap |-> "RO_ALL"]
    BY <2>3, <2>4
  <2> QED
    BY <2>4, <2>7, <2>8
<1>4. \A f \in AS, u \in VA : Valid(f, u) => pte[f][u].page # q
  BY <1>1, EntryFacts
(* Where an entry of the new state comes from. *)
<1>5. ASSUME NEW f \in AS, NEW u \in VA, pte'[f][u] # Invalid
      PROVE  \/ f = c /\ u = Stack /\ u \notin miss
                /\ pte'[f][u] = [page |-> q, ap |-> "RW_ALL"]
             \/ /\ \/ f # c /\ Valid(f, u) /\ pte'[f][u].page = pte[f][u].page
                   \/ f = c /\ u # Stack /\ Valid(e, u)
                      /\ pte'[f][u].page = pte[e][u].page
                /\ f \in {e, c} /\ u # Stack => pte'[f][u].ap = "RO_ALL"
                /\ f # c /\ (f # e \/ u = Stack) => pte'[f][u] = pte[f][u]
  <2>1. CASE f = c
    <3>1. CASE u = Stack
      BY <1>3, <1>5, <2>1, <3>1
    <3>2. CASE u # Stack
      <4>1. Valid(e, u) /\ pte'[f][u] = [page |-> pte[e][u].page, ap |-> "RO_ALL"]
        BY <1>3, <1>5, <2>1, <3>2
      <4>2. pte'[f][u].page = pte[e][u].page /\ pte'[f][u].ap = "RO_ALL"
        BY ONLY <4>1
      <4> QED
        BY <2>1, <3>2, <4>1, <4>2
    <3> QED
      BY <3>1, <3>2
  <2>2. CASE f = e
    <3>1. CASE u = Stack
      BY <1>2, <1>3, <1>5, <2>2, <3>1 DEF Valid
    <3>2. CASE u # Stack
      <4>1. Valid(e, u) /\ pte'[f][u] = [page |-> pte[e][u].page, ap |-> "RO_ALL"]
        BY <1>3, <1>5, <2>2, <3>2 DEF Valid
      <4>2. pte'[f][u].page = pte[e][u].page /\ pte'[f][u].ap = "RO_ALL"
        BY ONLY <4>1
      <4> QED
        BY <1>2, <2>2, <3>2, <4>1, <4>2
    <3> QED
      BY <3>1, <3>2
  <2>3. CASE f \notin {e, c}
    BY <1>3, <1>5, <2>3 DEF Valid
  <2> QED
    BY <2>1, <2>2, <2>3
<1>6. TypeOK'
  <2>1. ASSUME NEW p \in InUse' PROVE p \in InUse \/ (p = q /\ Stack \notin miss)
    <3>1. PICK f \in AS, u \in VA : pte'[f][u] # Invalid /\ pte'[f][u].page = p
      BY DEF InUse, Valid
    <3>2. CASE f = c /\ u = Stack /\ u \notin miss
               /\ pte'[f][u] = [page |-> q, ap |-> "RW_ALL"]
      BY <3>1, <3>2
    <3>3. CASE f # c /\ Valid(f, u) /\ pte'[f][u].page = pte[f][u].page
      BY <3>1, <3>3, EntryFacts DEF InUse
    <3>4. CASE f = c /\ u # Stack /\ Valid(e, u) /\ pte'[f][u].page = pte[e][u].page
      BY <3>1, <3>4, EntryFacts DEF InUse
    <3> QED
      BY <1>5, <3>1, <3>2, <3>3, <3>4
  <2>2. lost' \cap InUse' = {} /\ lost' \subseteq Page
    <3>1. q \notin InUse
      BY <1>1 DEF Free
    <3> QED
      BY <1>1, <1>2, <2>1, <3>1 DEF TypeOK
  <2>3. data' \in [Page -> Value]
    BY <1>1, <1>2 DEF TypeOK
  <2>4. \A f \in AS \ live' : pte'[f] = NoMemory
    BY <1>2, <1>3 DEF TypeOK
  <2> QED
    BY <1>1, <1>2, <1>3, <2>2, <2>3, <2>4 DEF TypeOK, NoMemory
<1>7. CowExclusive'
  <2> SUFFICES ASSUME NEW f \in AS, NEW g \in AS, NEW u \in VA, NEW v \in VA,
                      <<f, u>> # <<g, v>>,
                      pte'[f][u] # Invalid, pte'[g][v] # Invalid,
                      pte'[f][u].page = pte'[g][v].page,
                      pte'[f][u].page \notin sent \ {q}
               PROVE  pte'[f][u].ap = "RO_ALL"
    BY <1>1 DEF CowExclusive, Valid
  <2>1. CASE pte'[f][u].page = q
    <3>1. f = c /\ u = Stack
      BY <1>2, <1>4, <1>5, <2>1
    <3>2. g = c /\ v = Stack
      <4>1. pte'[g][v].page = q
        BY <2>1
      <4> QED
        BY <1>2, <1>4, <1>5, <4>1
    <3> QED
      BY <3>1, <3>2
  <2>2. CASE pte'[f][u].page # q /\ f \in {e, c} /\ u # Stack
    BY <1>5, <2>2
  <2>3. CASE pte'[f][u].page # q /\ ~(f \in {e, c} /\ u # Stack)
    <3>1. /\ f # c /\ Valid(f, u) /\ pte'[f][u] = pte[f][u]
          /\ pte[f][u].page \notin sent
      BY <1>5, <2>3
    <3>2. CASE g # c /\ Valid(g, v) /\ pte'[g][v].page = pte[g][v].page
      BY <3>1, <3>2 DEF CowExclusive
    <3>3. CASE g = c /\ v # Stack /\ Valid(e, v) /\ pte'[g][v].page = pte[e][v].page
      <4>1. <<f, u>> # <<e, v>>
        BY <2>3, <3>3
      <4> QED
        BY <3>1, <3>3, <4>1 DEF CowExclusive
    <3> QED
      BY <1>5, <2>3, <3>2, <3>3
  <2> QED
    BY <2>1, <2>2, <2>3
<1>8. StackWritable => StackWritable'
  <2> SUFFICES ASSUME StackWritable, NEW f \in AS, pte'[f][Stack] # Invalid,
                      pte'[f][Stack].page \notin sent \ {q}
               PROVE  pte'[f][Stack].ap = "RW_ALL"
    BY <1>1 DEF StackWritable, Valid
  <2>1. CASE f = c
    <3>1. pte'[f][Stack] = [page |-> q, ap |-> "RW_ALL"]
      BY <1>3, <2>1, ForkAssumption
    <3> QED
      BY ONLY <3>1
  <2>2. CASE f # c
    <3>1. pte'[f][Stack] = pte[f][Stack]
      BY <1>3, <2>2, ForkAssumption
    <3> QED
      BY <1>4, <3>1, ForkAssumption DEF StackWritable, Valid
  <2> QED
    BY <2>1, <2>2
<1> QED
  BY <1>6, <1>7, <1>8

(* The other steps take entries away, or mark the page they share.         *)
LEMMA DestroyInv ==
  ASSUME Inv, NEW e \in AS, _env_destroy(e)
  PROVE  Inv' /\ (StackWritable => StackWritable')
<1> USE DEF Inv
<1>1. /\ live' = live \ {e} /\ data' = data /\ lost' = lost
      /\ sent' = sent /\ kernel' = kernel
      /\ pte' = [pte EXCEPT ![e] = NoMemory]
  BY DEF _env_destroy
<1>2. /\ \A f \in AS, u \in VA :
           pte'[f][u] = IF f = e THEN Invalid ELSE pte[f][u]
      /\ \A f \in AS : f # e => pte'[f] = pte[f]
      /\ pte'[e] = NoMemory /\ pte' \in [AS -> [VA -> Entry \cup {Invalid}]]
  BY <1>1 DEF TypeOK, NoMemory
<1>3. InUse' \subseteq InUse
  BY <1>2 DEF InUse, Valid
<1>4. TypeOK'
  BY <1>1, <1>2, <1>3 DEF TypeOK, NoMemory
<1>5. CowExclusive'
  BY <1>1, <1>2 DEF CowExclusive, Valid
<1>6. StackWritable => StackWritable'
  BY <1>1, <1>2, ForkAssumption DEF StackWritable, Valid
<1> QED
  BY <1>4, <1>5, <1>6

LEMMA SendInv ==
  ASSUME Inv, NEW s \in AS, NEW r \in AS, NEW srcva \in VA, NEW dstva \in VA,
         SendPage(s, r, srcva, dstva)
  PROVE  Inv' /\ (StackWritable => StackWritable')
<1> USE DEF Inv
<1>0. PICK made \in Made[pte[s][srcva].page] :
        /\ pte' = [pte EXCEPT ![r][dstva] = made]
        /\ sent' = sent \cup {made.page}
        /\ kernel' = IF made.page = pte[s][srcva].page THEN kernel ELSE "stray"
  BY DEF SendPage
<1>1. /\ live' = live /\ data' = data /\ lost' = lost /\ kernel = "running"
      /\ r \in live /\ Valid(s, srcva) /\ sent' = sent \cup {made.page}
      /\ pte' = [pte EXCEPT ![r][dstva] = made]
      /\ kernel' = IF made.page = pte[s][srcva].page THEN kernel ELSE "stray"
  BY <1>0 DEF SendPage, Runs
<1>2. made \in Entry /\ made.page \in Page /\ pte[s][srcva].page \in InUse
  <2>1. pte[s][srcva].page \in Page /\ pte[s][srcva].page \in InUse
    BY <1>1, EntryFacts DEF Entry, InUse
  <2>2. made \in Entry
    BY <1>0, <2>1, PermAssumption
  <2> QED BY <2>1, <2>2 DEF Entry
<1>3. /\ \A f \in AS, u \in VA :
           pte'[f][u] = IF f = r /\ u = dstva THEN made ELSE pte[f][u]
      /\ \A f \in AS : f # r => pte'[f] = pte[f]
      /\ pte' \in [AS -> [VA -> Entry \cup {Invalid}]]
  BY <1>1, <1>2 DEF TypeOK, Entry
<1>4. kernel' # "stray" => InUse' \subseteq InUse
  BY <1>1, <1>2, <1>3 DEF InUse, Valid
<1>5. TypeOK'
  <2>1. sent' \subseteq Page /\ kernel' \in {"running", "stray"}
    BY <1>1, <1>2 DEF TypeOK
  <2>2. kernel' # "stray" => lost' \cap InUse' = {}
    BY <1>1, <1>4 DEF TypeOK
  <2> QED
    BY <1>1, <1>3, <2>1, <2>2 DEF TypeOK, NoMemory
<1>6. CowExclusive'
  BY <1>1, <1>3 DEF CowExclusive, Valid
<1>7. StackWritable => StackWritable'
  BY <1>1, <1>3, ForkAssumption DEF StackWritable, Valid
<1> QED
  BY <1>5, <1>6, <1>7

(* A store changes the contents of a page, never who has it.               *)
LEMMA WriteInv ==
  ASSUME Inv, NEW e \in AS, NEW va \in VA, NEW v \in Value, Write(e, va, v)
  PROVE  Inv' /\ (StackWritable => StackWritable')
<1>1. /\ live' = live /\ pte' = pte /\ lost' = lost /\ sent' = sent /\ kernel' = kernel
      /\ data' \in [Page -> Value]
  BY DEF Write, Inv, TypeOK
<1>2. TypeOK'
  BY <1>1 DEF Inv, TypeOK, InUse, Valid, NoMemory
<1> QED
  BY <1>1, <1>2 DEF Inv, CowExclusive, StackWritable, Valid

(* Every step keeps the invariant, and the stacks writable.                *)
LEMMA NextInv ==
  ASSUME Inv, [Next]_vars
  PROVE  Inv' /\ (StackWritable => StackWritable')
<1>1. ASSUME NEW e \in AS, NEW va \in VA, NEW v \in Value, Write(e, va, v)
      PROVE  Inv' /\ (StackWritable => StackWritable')
  BY <1>1, WriteInv
<1>2. ASSUME NEW e \in AS, NEW va \in VA, mmu_fault_handler(e, va)
      PROVE  Inv' /\ (StackWritable => StackWritable')
  BY <1>2, FaultInv
<1>3. ASSUME NEW e \in AS, NEW c \in AS, NEW miss \in SUBSET VA, _fork(e, c, miss)
      PROVE  Inv' /\ (StackWritable => StackWritable')
  BY <1>3, ForkInv
<1>4. ASSUME NEW e \in AS, _env_destroy(e)
      PROVE  Inv' /\ (StackWritable => StackWritable')
  BY <1>4, DestroyInv
<1>5. ASSUME NEW s \in AS, NEW r \in AS, NEW srcva \in VA, NEW dstva \in VA,
             SendPage(s, r, srcva, dstva)
      PROVE  Inv' /\ (StackWritable => StackWritable')
  BY <1>5, SendInv
<1>6. ASSUME \/ \E e \in AS, va \in VA : FaultPanic(e, va)
             \/ \E e \in AS : AllocIgnored(e) \/ ForkPanic(e)
             \/ UNCHANGED vars
      PROVE  Inv' /\ (StackWritable => StackWritable')
  <2>1. /\ live' = live /\ pte' = pte /\ data' = data /\ lost' = lost /\ sent' = sent
        /\ kernel' = kernel \/ (kernel = "running" /\ kernel' \in {"panic", "wild"})
    BY <1>6 DEF FaultPanic, AllocIgnored, ForkPanic, Runs, vars
  <2>2. TypeOK'
    BY <2>1 DEF Inv, TypeOK, InUse, Valid, NoMemory
  <2> QED
    BY <2>1, <2>2 DEF Inv, CowExclusive, StackWritable, Valid
<1> QED
  BY <1>1, <1>2, <1>3, <1>4, <1>5, <1>6 DEF Next

-----------------------------------------------------------------------------
(* Refinement: what the programs read.                                     *)

(* The memory of an environment, address by address.                       *)
LEMMA MemoryAt ==
  /\ Memory = [e \in AS |-> Memory[e]]
  /\ \A e \in AS : Memory[e] = [va \in VA |-> Memory[e][va]]
  /\ \A e \in AS, va \in VA :
       Memory[e][va] = IF Valid(e, va) THEN data[pte[e][va].page] ELSE Unmapped
BY DEF Memory

(* Two memories that agree at every address are the same.                  *)
LEMMA SameMemory ==
  ASSUME NEW m, NEW n,
         m = [e \in AS |-> m[e]], n = [e \in AS |-> n[e]],
         \A e \in AS : m[e] = [va \in VA |-> m[e][va]] /\ n[e] = [va \in VA |-> n[e][va]],
         \A e \in AS, va \in VA : m[e][va] = n[e][va]
  PROVE  m = n
<1>1. \A e \in AS : m[e] = n[e]
  OBVIOUS
<1> QED
  BY <1>1

(* Fork and the fault handler put no page at Temp that was not passed on,  *)
(* and the page they take fresh is mapped nowhere.                         *)
LEMMA TempInv ==
  ASSUME TInv, [Next]_vars
  PROVE  TInv'
<1>1. Inv'
  BY NextInv DEF TInv
<1>2. ASSUME NEW f \in AS, pte'[f][Temp] # Invalid
      PROVE  pte'[f][Temp].page \in sent'
  <2>0. /\ pte \in [AS -> [VA -> Entry \cup {Invalid}]] /\ Temp \in VA /\ Temp # Stack
        /\ \A e \in AS : pte[e][Temp] # Invalid
             => pte[e][Temp].page \in sent /\ pte[e][Temp].page \in Page \ Free
    BY EntryFacts, ForkAssumption DEF TInv, TempSent, Inv, TypeOK, Valid
  <2>1. CASE pte' = pte /\ sent' = sent
    BY <2>0, <2>1, <1>2
  <2>2. ASSUME NEW e \in AS, NEW va \in VA, mmu_fault_handler(e, va)
        PROVE  pte'[f][Temp].page \in sent'
    <3>1. PICK q \in Free :
            /\ pte' = [pte EXCEPT ![e][va] = [page |-> q, ap |-> "RW_ALL"],
                                  ![e][Temp] = Invalid]
            /\ sent' = sent \ {q}
      BY <2>2 DEF mmu_fault_handler
    <3>2. f # e /\ pte'[f] = pte[f]
      BY <2>0, <3>1, <1>2
    <3> QED
      BY <2>0, <3>1, <3>2, <1>2
  <2>3. ASSUME NEW e \in AS, NEW c \in AS, NEW miss \in SUBSET VA, _fork(e, c, miss)
        PROVE  pte'[f][Temp].page \in sent'
    <3>1. PICK q \in Free : pte' = ForkTables(e, c, q, miss) /\ sent' = sent \ {q}
      BY <2>3 DEF _fork
    <3>2. PICK g \in AS :
            pte[g][Temp] # Invalid /\ pte'[f][Temp].page = pte[g][Temp].page
      <4>1. \/ f = c /\ pte'[f][Temp] = IF Valid(e, Temp) /\ Temp \notin miss
                                        THEN ChildEntry(e, Temp, q) ELSE Invalid
            \/ f = e /\ pte'[f][Temp] = IF Valid(e, Temp)
                                        THEN [page |-> pte[e][Temp].page, ap |-> "RO_ALL"]
                                        ELSE pte[e][Temp]
            \/ pte'[f] = pte[f]
        BY <2>0, <3>1 DEF ForkTables
      <4> QED
        BY <4>1, <2>0, <1>2 DEF ChildEntry, Valid
    <3> QED
      BY <2>0, <3>1, <3>2
  <2>4. ASSUME NEW e \in AS, _env_destroy(e) PROVE pte'[f][Temp].page \in sent'
    BY <2>0, <2>4, <1>2 DEF _env_destroy, NoMemory
  <2>5. ASSUME NEW s \in AS, NEW r \in AS, NEW srcva \in VA, NEW dstva \in VA,
               SendPage(s, r, srcva, dstva)
        PROVE  pte'[f][Temp].page \in sent'
    <3>1. PICK made : /\ pte' = [pte EXCEPT ![r][dstva] = made]
                      /\ sent' = sent \cup {made.page}
      BY <2>5 DEF SendPage
    <3>2. CASE f = r /\ dstva = Temp
      BY <2>0, <3>1, <3>2
    <3>3. CASE ~(f = r /\ dstva = Temp)
      BY <2>0, <3>1, <3>3, <1>2
    <3> QED
      BY <3>2, <3>3
  <2>6. ASSUME \/ \E e \in AS, va \in VA, v \in Value : Write(e, va, v)
               \/ \E e \in AS, va \in VA : FaultPanic(e, va)
               \/ \E e \in AS : AllocIgnored(e) \/ ForkPanic(e)
               \/ UNCHANGED vars
        PROVE  pte'[f][Temp].page \in sent'
    <3>1. pte' = pte /\ sent' = sent
      BY <2>6 DEF Write, FaultPanic, AllocIgnored, ForkPanic, vars
    <3> QED
      BY <2>1, <3>1
  <2> QED
    BY <2>2, <2>3, <2>4, <2>5, <2>6 DEF Next
<1>3. TempSent'
  BY <1>2 DEF TempSent, Valid
<1> QED
  BY <1>1, <1>3 DEF TInv

(* A store is seen by the program that made it and by no other.            *)
LEMMA WriteSimulated ==
  ASSUME RInv, NEW e \in AS, NEW va \in VA, NEW v \in Value, Write(e, va, v)
  PROVE  Private!Write(e, va, v)
<1> DEFINE p == pte[e][va].page
<1>1. /\ e \in live /\ Valid(e, va) /\ pte[e][va].ap = "RW_ALL"
      /\ live' = live /\ pte' = pte /\ data' = [data EXCEPT ![p] = v]
  BY DEF Write, Runs
<1>2. p \in Page /\ data \in [Page -> Value]
  BY <1>1, EntryFacts DEF RInv, Inv, TypeOK
<1>3. \A f \in AS, u \in VA : Valid(f, u) /\ <<f, u>> # <<e, va>> => pte[f][u].page # p
  BY <1>1 DEF RInv, Inv, CowExclusive
<1>4. Memory[e][va] # Unmapped
  BY <1>1, <1>2, MemoryAt, ForkAssumption
<1>5. /\ Memory' = [f \in AS |-> Memory'[f]]
      /\ \A f \in AS : Memory'[f] = [u \in VA |-> Memory'[f][u]]
      /\ \A f \in AS, u \in VA :
           Memory'[f][u] = IF Valid(f, u) THEN data'[pte[f][u].page] ELSE Unmapped
  BY <1>1 DEF Memory, Valid
<1> DEFINE n == [Memory EXCEPT ![e][va] = v]
<1>6. /\ n = [f \in AS |-> n[f]]
      /\ \A f \in AS : n[f] = [u \in VA |-> n[f][u]]
      /\ \A f \in AS, u \in VA : n[f][u] = IF f = e /\ u = va THEN v ELSE Memory[f][u]
  BY MemoryAt
<1>7. ASSUME NEW f \in AS, NEW u \in VA PROVE Memory'[f][u] = n[f][u]
  <2>1. CASE f = e /\ u = va
    BY <1>1, <1>2, <1>5, <1>6, <2>1
  <2>2. CASE ~(f = e /\ u = va)
    <3>1. Valid(f, u) => pte[f][u].page # p /\ pte[f][u].page \in Page
      BY <1>3, <2>2, EntryFacts DEF RInv, Inv
    <3>2. Valid(f, u) => data'[pte[f][u].page] = data[pte[f][u].page]
      BY <1>1, <1>2, <3>1
    <3> QED
      BY <1>5, <1>6, <2>2, <3>2, MemoryAt
  <2> QED
    BY <2>1, <2>2
<1>8. Memory' = n
  <2> HIDE DEF n
  <2> QED
    BY <1>5, <1>6, <1>7, SameMemory
<1> QED
  BY <1>1, <1>4, <1>8 DEF Private!Write

(* A fault changes nothing a program can read.                             *)
LEMMA FaultSimulated ==
  ASSUME RInv, NEW e \in AS, NEW va \in VA, mmu_fault_handler(e, va)
  PROVE  live' = live /\ Memory' = Memory
<1>1. PICK q \in Free :
        /\ data' = [data EXCEPT ![q] = data[pte[e][va].page]]
        /\ pte' = [pte EXCEPT ![e][va] = [page |-> q, ap |-> "RW_ALL"],
                              ![e][Temp] = Invalid]
  BY DEF mmu_fault_handler
<1>2. /\ Valid(e, va) /\ live' = live /\ pte[e][va].page \in Page
      /\ va # Temp /\ q \in Page /\ data \in [Page -> Value]
  BY <1>1, EntryFacts DEF mmu_fault_handler, ReadOnly, RInv, Inv, TypeOK, Free
<1>3. \A f \in AS, u \in VA :
        pte'[f][u] = IF f = e /\ u = Temp THEN Invalid
                     ELSE IF f = e /\ u = va THEN [page |-> q, ap |-> "RW_ALL"]
                     ELSE pte[f][u]
  BY <1>1, <1>2, ForkAssumption DEF RInv, Inv, TypeOK
<1>4. /\ Memory' = [f \in AS |-> Memory'[f]]
      /\ \A f \in AS : Memory'[f] = [u \in VA |-> Memory'[f][u]]
      /\ \A f \in AS, u \in VA :
           Memory'[f][u] = IF pte'[f][u] # Invalid THEN data'[pte'[f][u].page] ELSE Unmapped
  BY DEF Memory, Valid
<1>5. ASSUME NEW f \in AS, NEW u \in VA PROVE Memory'[f][u] = Memory[f][u]
  <2>1. CASE f = e /\ u = Temp
    BY <1>3, <1>4, <2>1, MemoryAt, ForkAssumption DEF RInv
  <2>2. CASE f = e /\ u = va
    <3>1. pte'[f][u] = [page |-> q, ap |-> "RW_ALL"]
      BY <1>2, <1>3, <2>2
    <3>2. pte'[f][u].page = q /\ pte'[f][u] # Invalid
      <4>1. [page |-> q, ap |-> "RW_ALL"] \in Entry
        BY <1>2 DEF Entry, AP
      <4> QED
        BY <3>1, <4>1, PermAssumption
    <3>3. data'[q] = data[pte[e][va].page]
      BY <1>1, <1>2
    <3> QED
      BY <1>2, <1>4, <2>2, <3>2, <3>3, MemoryAt
  <2>3. CASE ~(f = e /\ u = Temp) /\ ~(f = e /\ u = va)
    <3>1. pte'[f][u] = pte[f][u]
      BY <1>3, <2>3
    <3>2. Valid(f, u) => pte[f][u].page \in Page /\ pte[f][u].page # q
      BY <1>1, EntryFacts DEF RInv, Inv
    <3>3. Valid(f, u) => data'[pte[f][u].page] = data[pte[f][u].page]
      BY <1>1, <1>2, <3>2
    <3> QED
      BY <1>4, <3>1, <3>3, MemoryAt DEF Valid
  <2> QED
    BY <2>1, <2>2, <2>3
<1> QED
  BY <1>2, <1>4, <1>5, MemoryAt, SameMemory

(* A child starts with what its parent has, less what did not fit.         *)
LEMMA ForkSimulated ==
  ASSUME RInv, NEW e \in AS, NEW c \in AS, NEW miss \in SUBSET VA, _fork(e, c, miss)
  PROVE  Private!Fork(e, c, miss)
<1>1. PICK q \in Free :
        /\ data' = [data EXCEPT ![q] = data[pte[e][Stack].page]]
        /\ pte' = ForkTables(e, c, q, miss)
  BY DEF _fork
<1>2. /\ e \in live /\ c \notin live /\ c # e /\ Valid(e, Stack)
      /\ pte[e][Stack].page \in Page /\ live' = live \cup {c}
      /\ q \in Page /\ data \in [Page -> Value]
  BY <1>1, EntryFacts, ForkAssumption DEF _fork, Runs, Free, RInv, Inv, TypeOK
<1>3. /\ \A u \in VA :
           /\ pte'[e][u] = IF Valid(e, u) /\ u # Stack
                           THEN [page |-> pte[e][u].page, ap |-> "RO_ALL"]
                           ELSE pte[e][u]
           /\ pte'[c][u] = IF Valid(e, u) /\ u \notin miss
                           THEN ChildEntry(e, u, q) ELSE Invalid
      /\ \A f \in AS : f # e /\ f # c => pte'[f] = pte[f]
  BY <1>1, <1>2 DEF RInv, Inv, TypeOK, ForkTables
<1>4. \A f \in AS, u \in VA :
        Valid(f, u) => pte[f][u].page \in Page /\ pte[f][u].page # q
  BY <1>1, EntryFacts DEF RInv, Inv
<1>5. /\ Memory' = [f \in AS |-> Memory'[f]]
      /\ \A f \in AS : Memory'[f] = [u \in VA |-> Memory'[f][u]]
      /\ \A f \in AS, u \in VA :
           Memory'[f][u] = IF pte'[f][u] # Invalid THEN data'[pte'[f][u].page] ELSE Unmapped
  BY DEF Memory, Valid
<1>6. \A p \in Page : p # q => data'[p] = data[p]
  BY <1>1, <1>2
<1>7. ASSUME NEW p \in Page PROVE /\ [page |-> p, ap |-> "RO_ALL"] # Invalid
                                  /\ [page |-> p, ap |-> "RW_ALL"] # Invalid
                                  /\ [page |-> p, ap |-> "RO_ALL"].page = p
                                  /\ [page |-> p, ap |-> "RW_ALL"].page = p
  <2>1. [page |-> p, ap |-> "RO_ALL"] \in Entry /\ [page |-> p, ap |-> "RW_ALL"] \in Entry
    BY DEF Entry, AP
  <2> QED
    BY <2>1, PermAssumption
<1> DEFINE n == [Memory EXCEPT ![c] = [va \in VA |-> IF va \in miss THEN Unmapped ELSE Memory[e][va]]]
<1>8. /\ n = [f \in AS |-> n[f]]
      /\ \A f \in AS : n[f] = [u \in VA |-> n[f][u]]
      /\ \A f \in AS, u \in VA :
           n[f][u] = IF f # c THEN Memory[f][u]
                     ELSE IF u \in miss THEN Unmapped ELSE Memory[e][u]
  BY MemoryAt
<1> HIDE DEF n
<1>9. ASSUME NEW f \in AS, NEW u \in VA PROVE Memory'[f][u] = n[f][u]
  <2>1. CASE f = c
    <3>1. CASE ~Valid(e, u) \/ u \in miss
      <4>1. pte'[f][u] = Invalid
        BY <1>3, <2>1, <3>1
      <4>2. n[f][u] = Unmapped
        BY <1>8, <2>1, <3>1, MemoryAt
      <4> QED
        BY <1>5, <4>1, <4>2
    <3>2. CASE Valid(e, u) /\ u \notin miss /\ u = Stack
      <4>1. pte'[f][u] = [page |-> q, ap |-> "RW_ALL"]
        BY <1>3, <2>1, <3>2 DEF ChildEntry
      <4>2. pte'[f][u] # Invalid /\ pte'[f][u].page = q
        BY <1>2, <1>7, <4>1
      <4>3. data'[q] = data[pte[e][Stack].page]
        BY <1>1, <1>2
      <4> QED
        BY <1>5, <1>8, <2>1, <3>2, <4>2, <4>3, MemoryAt
    <3>3. CASE Valid(e, u) /\ u \notin miss /\ u # Stack
      <4>1. pte'[f][u] = [page |-> pte[e][u].page, ap |-> "RO_ALL"]
        BY <1>3, <2>1, <3>3 DEF ChildEntry
      <4>2. pte'[f][u] # Invalid /\ pte'[f][u].page = pte[e][u].page
        BY <1>4, <1>7, <3>3, <4>1
      <4>3. Memory'[f][u] = data'[pte[e][u].page]
        BY <1>5, <4>2
      <4>4. data'[pte[e][u].page] = data[pte[e][u].page]
        BY <1>4, <1>6, <3>3
      <4>5. n[f][u] = data[pte[e][u].page]
        BY <1>8, <2>1, <3>3, MemoryAt
      <4> QED
        BY <4>3, <4>4, <4>5
    <3> QED
      BY <3>1, <3>2, <3>3
  <2>2. CASE f # c
    <3>1. /\ Valid(f, u) => pte'[f][u] # Invalid /\ pte'[f][u].page = pte[f][u].page
          /\ ~Valid(f, u) => pte'[f][u] = Invalid
      <4>1. CASE f = e /\ Valid(e, u) /\ u # Stack
        <5>1. pte'[f][u] = [page |-> pte[e][u].page, ap |-> "RO_ALL"]
          BY <1>3, <4>1
        <5> QED
          BY <1>4, <1>7, <4>1, <5>1
      <4>2. CASE ~(f = e /\ Valid(e, u) /\ u # Stack)
        <5>1. pte'[f][u] = pte[f][u]
          BY <1>3, <2>2, <4>2
        <5> QED
          BY <5>1 DEF Valid
      <4> QED
        BY <4>1, <4>2
    <3>2. n[f][u] = IF Valid(f, u) THEN data[pte[f][u].page] ELSE Unmapped
      BY <1>8, <2>2, MemoryAt
    <3>3. Valid(f, u) => data'[pte[f][u].page] = data[pte[f][u].page]
      BY <1>4, <1>6
    <3> QED
      BY <1>5, <3>1, <3>2, <3>3
  <2> QED
    BY <2>1, <2>2
<1>10. Memory' = n
  BY <1>5, <1>8, <1>9, SameMemory
<1> QED
  BY <1>2, <1>10 DEF Private!Fork, n

(* An exit takes the memory of the environment away.                       *)
LEMMA ExitSimulated ==
  ASSUME RInv, NEW e \in AS, _env_destroy(e)
  PROVE  Private!Exit(e)
<1>1. /\ e \in live /\ live' = live \ {e} /\ data' = data
      /\ pte' = [pte EXCEPT ![e] = NoMemory]
  BY DEF _env_destroy, Runs
<1>2. \A f \in AS, u \in VA : pte'[f][u] = IF f = e THEN Invalid ELSE pte[f][u]
  BY <1>1 DEF RInv, Inv, TypeOK, NoMemory
<1> DEFINE n == [Memory EXCEPT ![e] = [va \in VA |-> Unmapped]]
<1>3. /\ n = [f \in AS |-> n[f]]
      /\ \A f \in AS : n[f] = [u \in VA |-> n[f][u]]
      /\ \A f \in AS, u \in VA : n[f][u] = IF f = e THEN Unmapped ELSE Memory[f][u]
  BY MemoryAt
<1>4. /\ Memory' = [f \in AS |-> Memory'[f]]
      /\ \A f \in AS : Memory'[f] = [u \in VA |-> Memory'[f][u]]
      /\ \A f \in AS, u \in VA :
           Memory'[f][u] = IF pte'[f][u] # Invalid THEN data[pte'[f][u].page] ELSE Unmapped
  BY <1>1 DEF Memory, Valid
<1> HIDE DEF n
<1>5. ASSUME NEW f \in AS, NEW u \in VA PROVE Memory'[f][u] = n[f][u]
  <2>1. CASE f = e
    BY <1>2, <1>3, <1>4, <2>1
  <2>2. CASE f # e
    <3>1. pte'[f][u] = pte[f][u] /\ n[f][u] = Memory[f][u]
      BY <1>2, <1>3, <2>2
    <3> QED
      BY <1>4, <3>1, MemoryAt DEF Valid
  <2> QED
    BY <2>1, <2>2
<1>6. Memory' = n
  BY <1>3, <1>4, <1>5, SameMemory
<1> QED
  BY <1>1, <1>6 DEF Private!Exit, n

(* So a step before and after which no page is passed on is one of the     *)
(* promised memory, or none at all.                                        *)
LEMMA StepSimulated ==
  ASSUME TInv, [Next]_vars
  PROVE  [sent = {} /\ sent' = {} => Private!Next]_(Private!vars)
<1> SUFFICES ASSUME sent = {}, sent' = {}
             PROVE  [Private!Next]_(Private!vars)
  OBVIOUS
<1>0. RInv
  BY DEF RInv, TInv, TempSent
<1>1. ASSUME NEW e \in AS, NEW va \in VA, NEW v \in Value, Write(e, va, v)
      PROVE  Private!Next
  BY <1>0, <1>1, WriteSimulated DEF Private!Next
<1>2. ASSUME NEW e \in AS, NEW va \in VA, mmu_fault_handler(e, va)
      PROVE  UNCHANGED Private!vars
  BY <1>0, <1>2, FaultSimulated DEF Private!vars
<1>3. ASSUME NEW e \in AS, NEW c \in AS, NEW miss \in SUBSET VA, _fork(e, c, miss)
      PROVE  Private!Next
  BY <1>0, <1>3, ForkSimulated DEF Private!Next
<1>4. ASSUME NEW e \in AS, _env_destroy(e)
      PROVE  Private!Next
  BY <1>0, <1>4, ExitSimulated DEF Private!Next
<1>5. ASSUME \/ \E e \in AS, va \in VA : FaultPanic(e, va)
             \/ \E e \in AS : AllocIgnored(e) \/ ForkPanic(e)
             \/ UNCHANGED vars
      PROVE  UNCHANGED Private!vars
  <2>1. live' = live /\ pte' = pte /\ data' = data
    BY <1>5 DEF FaultPanic, AllocIgnored, ForkPanic, vars
  <2> QED
    BY <2>1 DEF Private!vars, Memory, Valid
<1>6. ASSUME NEW s \in AS, NEW r \in AS, NEW srcva \in VA, NEW dstva \in VA,
             SendPage(s, r, srcva, dstva)
      PROVE  FALSE
  BY <1>6 DEF SendPage
<1> QED
  BY <1>1, <1>2, <1>3, <1>4, <1>5, <1>6 DEF Next

(* At boot there is one environment, with what its pages hold.             *)
LEMMA InitSimulated ==
  ASSUME Init
  PROVE  Private!Init
<1>1. Inv /\ \E e \in AS : live = {e}
  BY InitInv DEF Init
<1>2. PICK e \in AS : live = {e}
  BY <1>1
<1>3. ASSUME NEW f \in AS, NEW u \in VA
      PROVE  /\ Memory[f][u] \in Value \cup {Unmapped}
             /\ f # e => Memory[f][u] = Unmapped
  BY <1>1, <1>2, EntryFacts, MemoryAt DEF Inv, TypeOK
<1>4. Memory \in [AS -> [VA -> Value \cup {Unmapped}]]
  BY <1>3, MemoryAt
<1> QED
  BY <1>2, <1>3, <1>4 DEF Private!Init

-----------------------------------------------------------------------------
(* Theorems.                                                               *)

(* The types; a slot that is not in use maps nothing, and a page that was  *)
(* lost stays out of every table.                                          *)
THEOREM ForkTypeCorrect == Spec => []TypeOK
<1>1. Init => Inv
  BY InitInv
<1>2. Inv /\ [Next]_vars => Inv'
  BY NextInv
<1>3. Inv => TypeOK
  BY DEF Inv
<1> QED
  BY <1>1, <1>2, <1>3, PTL DEF Spec

(* However forks, faults, exits and page transfers interleave, a page that *)
(* two addresses share and no message has passed on is writable at neither.*)
THEOREM CowExclusiveCorrect == Spec => []CowExclusive
<1>1. Init => Inv
  BY InitInv
<1>2. Inv /\ [Next]_vars => Inv'
  BY NextInv
<1>3. Inv => CowExclusive
  BY DEF Inv
<1> QED
  BY <1>1, <1>2, <1>3, PTL DEF Spec

(* The page the kernel pushes the registers on is writable.                *)
THEOREM StackWritableCorrect == Spec => []StackWritable
<1>1. Init => Inv /\ StackWritable
  BY InitInv
<1>2. (Inv /\ StackWritable) /\ [Next]_vars => (Inv /\ StackWritable)'
  BY NextInv
<1> QED
  BY <1>1, <1>2, PTL DEF Spec

(* While no page is passed on in a message, programs have memories of      *)
(* their own: _fork and mmu_fault_handler implement PrivateMem.            *)
THEOREM PrivateMemCorrect == Spec => PrivateMemSpec
<1>1. Init => TInv /\ Private!Init
  <2> SUFFICES ASSUME Init PROVE TInv /\ Private!Init
    OBVIOUS
  <2>1. Inv /\ \A e \in AS : ~Valid(e, Temp)
    BY InitInv
  <2> QED
    BY <2>1, InitSimulated DEF TInv, TempSent
<1>2. TInv /\ [Next]_vars
      => TInv' /\ [sent = {} /\ sent' = {} => Private!Next]_(Private!vars)
  BY TempInv, StepSimulated
<1> QED
  BY <1>1, <1>2, PTL DEF Spec, PrivateMemSpec
=============================================================================
