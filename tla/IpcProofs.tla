----------------------------- MODULE IpcProofs -----------------------------
(***************************************************************************)
(* Proofs about Env, and about IpcLib and PingPong, for any number of      *)
(* slots, any values and any length of the rally.  First the kernel: the   *)
(* environments table and message passing.  What Env needs is proved of    *)
(* every step; then it is used of the steps of the library.                *)
(***************************************************************************)
EXTENDS PingPong, DataLemmas, WellFoundedInduction, TLAPS

(* The inductive invariant: what the runs check, and nothing more.  The    *)
(* parts need one another: who runs is in use because it is index, the     *)
(* frame is curenv's because curenv is in use, and a new slot is nobody's  *)
(* because the free list is exact.                                         *)
Inv ==
  /\ TypeOK /\ FreeListExact /\ CurrentIsIndex
  /\ BlockedIffReceiving /\ MailHandedOver /\ RegistersPrivate

-----------------------------------------------------------------------------
(* The constants.                                                          *)
LEMMA ConstFacts ==
  /\ NENV \in Nat /\ NENV > 0 /\ 2 * NENV * Gens \in Nat /\ 2 * NENV * Gens > 0
  /\ NoEnv \notin Slot /\ NoMail \notin Mail
  /\ 0 \in Slot /\ 0 \in EnvId
<1>1. NENV \in Nat /\ NENV > 0 /\ Gens \in Nat /\ Gens > 1 /\ NoEnv \notin Slot
  BY EnvAssumption
<1>2. ASSUME NEW a \in Nat, NEW b \in Nat, a > 0, b > 0 PROVE a * b \in Nat /\ a * b > 0
  BY <1>2
<1>3. 2 * NENV \in Nat /\ 2 * NENV > 0
  BY <1>1
<1>4. 2 * NENV * Gens \in Nat /\ 2 * NENV * Gens > 0
  <2> DEFINE a == 2 * NENV
  <2>1. a \in Nat /\ a > 0 /\ Gens \in Nat /\ Gens > 0
    BY <1>1, <1>3
  <2> HIDE DEF a
  <2>2. a * Gens \in Nat /\ a * Gens > 0
    BY <1>2, <2>1
  <2> QED
    BY <2>2 DEF a
<1> QED
  BY <1>1, <1>4, MailAssumption DEF Slot, EnvId

(* Names are in range, and so is the slot a name stands for.               *)
LEMMA NameFacts ==
  /\ \A x \in Nat : x % (2 * NENV * Gens) \in EnvId
  /\ \A x \in Nat : ENVX(x) \in Slot
  /\ \A x \in EnvId : x \in Nat /\ x \in Reg
<1> DEFINE m == 2 * NENV * Gens
<1>1. m \in Nat /\ m > 0 /\ EnvId = 0..(m - 1)
  BY ConstFacts DEF EnvId
<1> HIDE DEF m
<1>2. \A x \in Nat : x % m \in EnvId
  BY <1>1
<1>3. \A x \in Nat : ENVX(x) \in Slot
  BY ConstFacts DEF ENVX, Slot
<1>4. \A x \in EnvId : x \in Nat /\ x \in Reg
  BY <1>1 DEF Reg
<1> QED
  BY <1>2, <1>3, <1>4 DEF m

(* What a program passes is a number.                                      *)
LEMMA KnownFacts == Known \subseteq EnvId
<1> SUFFICES ASSUME NEW x \in Known PROVE x \in EnvId
  OBVIOUS
<1>1. CASE x = 0
  BY <1>1, ConstFacts
<1>2. ASSUME NEW g \in 1..MaxAlloc, NEW i \in Slot, x = (g * 2 * NENV + i) % (2 * NENV * Gens)
      PROVE  x \in EnvId
  <2>1. g \in Nat /\ NENV \in Nat /\ i \in Nat
    BY EnvAssumption DEF Slot
  <2>2. g * 2 * NENV + i \in Nat
    BY <2>1
  <2> QED
    BY <1>2, <2>2, NameFacts
<1> QED
  BY <1>1, <1>2 DEF Known

(* mkenvid makes a name.                                                   *)
LEMMA MkenvidFacts ==
  ASSUME TypeOK, NEW e \in Slot
  PROVE  mkenvid(e) \in EnvId
<1>1. next_env_id \in Nat /\ NENV \in Nat /\ e \in Nat
  BY EnvAssumption DEF TypeOK, Slot
<1>2. (next_env_id + 1) * 2 * NENV + e \in Nat
  BY <1>1
<1> QED
  BY <1>2, NameFacts DEF mkenvid

(* A non-empty set of numbers has a least one.                             *)
LEMMA Least ==
  ASSUME NEW T, T \subseteq Nat, T # {}
  PROVE  \E k \in T : \A m \in T : k <= m
<1> DEFINE Less == {ss \in Nat \X Nat : ss[1] < ss[2]}
<1>1. IsWellFoundedOn(Less, Nat)
  BY NatLessThanWellFounded, Zenon DEF OpToRel
<1> HIDE DEF Less
<1>2. PICK k \in T : \A m \in T : ~(<<m, k>> \in Less)
  BY <1>1, WFMin
<1>3. \A m \in T : ~(m < k)
  BY <1>2 DEF Less
<1> QED
  BY <1>3

(* The search of _sched_yield ends at a slot that can run, if one can.     *)
LEMMA NextRunnableFacts ==
  ASSUME TypeOK, NEW status, Turns(status) # {}
  PROVE  /\ NextRunnable(status) \in Slot
         /\ status[NextRunnable(status)] = "RUNNABLE"
<1> DEFINE k == CHOOSE k \in Turns(status) : \A m \in Turns(status) : k <= m
<1>1. Turns(status) \subseteq Nat
  BY ConstFacts DEF Turns
<1>2. k \in Turns(status)
  BY <1>1, Least
<1>3. NextRunnable(status) = After(index, k)
  BY DEF NextRunnable
<1> HIDE DEF k
<1>4. k \in 1..NENV /\ status[After(index, k)] = "RUNNABLE"
  BY <1>2 DEF Turns
<1>5. After(index, k) \in Slot
  BY <1>4, ConstFacts DEF TypeOK, Slot, After
<1> QED
  BY <1>3, <1>4, <1>5

(* What the scheduler does: nothing more ever happens, or a slot that can  *)
(* run takes over.                                                         *)
LEMMA ScheduleSteps ==
  ASSUME TypeOK, NEW status, NEW old, Schedule(status, old)
  PROVE  \/ /\ kernel' = "spin" /\ curenv' = old
            /\ UNCHANGED <<env_tf, frame, index, view, env_ipc_recving, env_ipc, mail>>
         \/ \E e \in Slot :
              /\ status[e] = "RUNNABLE" /\ index' = e /\ env_run(e, old)
              /\ view' = view /\ kernel' = kernel
<1>1. CASE Turns(status) = {}
  BY <1>1 DEF Schedule, ipcVars
<1>2. CASE Turns(status) # {}
  <2>1. NextRunnable(status) \in Slot /\ status[NextRunnable(status)] = "RUNNABLE"
    BY <1>2, NextRunnableFacts
  <2> QED
    BY <1>2, <2>1 DEF Schedule
<1> QED
  BY <1>1, <1>2

(* The free list as a set.                                                 *)
ListInv ==
  /\ NoDup(env_free_list)
  /\ \A i \in Slot : ~Live(i) <=> i \in Elems(env_free_list)

LEMMA ListFacts ==
  ASSUME TypeOK
  PROVE  FreeListExact <=> ListInv
<1>1. DOMAIN env_free_list = 1..Len(env_free_list)
  BY DEF TypeOK
<1> QED
  BY <1>1 DEF FreeListExact, ListInv, NoDup, Elems

(* Who runs is in use, and envid2env finds nobody who is not.              *)
LEMMA RunsFacts ==
  ASSUME Inv, Runs
  PROVE  curenv \in Slot /\ Live(curenv) /\ index = curenv /\ kernel = "running"
         /\ frame = view[curenv]
BY DEF Inv, TypeOK, Runs, CurrentIsIndex, RegistersPrivate

LEMMA FoundFacts ==
  ASSUME Inv, Runs, NEW envid \in EnvId
  PROVE  envid2env(envid) # NoEnv =>
           envid2env(envid) \in Slot /\ Live(envid2env(envid))
BY RunsFacts, NameFacts DEF envid2env

-----------------------------------------------------------------------------
(* At boot slot 0 is in use, the list holds the others in order.           *)
LEMMA InitInv == Init => Inv
<1> SUFFICES ASSUME Init PROVE Inv
  OBVIOUS
<1>1. NENV \in Nat /\ NENV > 0 /\ Slot = 0..(NENV - 1)
  BY ConstFacts DEF Slot
<1>2. env_free_list \in Seq(Slot) /\ Len(env_free_list) = NENV - 1
      /\ \A k \in 1..(NENV - 1) : env_free_list[k] = k
  BY <1>1 DEF Init
<1>3. 2 * NENV % (2 * NENV * Gens) \in EnvId
  <2>1. 2 * NENV \in Nat
    BY <1>1
  <2> QED
    BY <2>1, NameFacts
<1>4. TypeOK
  BY <1>1, <1>2, <1>3, ConstFacts DEF Init, TypeOK, Reg
<1>5. ListInv
  <2>1. Elems(env_free_list) = 1..(NENV - 1)
    BY <1>2 DEF Elems
  <2>2. NoDup(env_free_list)
    BY <1>2 DEF NoDup
  <2>3. \A i \in Slot : ~Live(i) <=> i # 0
    BY <1>1 DEF Init, Live
  <2> QED
    BY <1>1, <2>1, <2>2, <2>3 DEF ListInv
<1>6. CurrentIsIndex /\ MailHandedOver
  BY DEF Init, CurrentIsIndex, MailHandedOver
<1>7. BlockedIffReceiving
  BY DEF Init, BlockedIffReceiving, Live
<1>8. RegistersPrivate
  BY ConstFacts DEF Init, RegistersPrivate
<1> QED
  BY <1>4, <1>5, <1>6, <1>7, <1>8, ListFacts DEF Inv

-----------------------------------------------------------------------------
(* The steps, one lemma each.                                              *)

(* env_run(e, old) where old is the caller, or nobody when the caller has  *)
(* just been destroyed: registers move through the frame, mail is handed   *)
(* over.                                                                   *)
LEMMA RunFacts ==
  ASSUME TypeOK, NEW e \in Slot, NEW old \in Slot \cup {NoEnv}, env_run(e, old)
  PROVE  /\ curenv' = e /\ env_ipc' = env_ipc
         /\ env_tf' \in [Slot -> Reg] /\ frame' = env_tf'[e]
         /\ \A i \in Slot : env_tf'[i] = IF i = old THEN frame ELSE env_tf[i]
         /\ env_ipc_recving' \in [Slot -> 0..2]
         /\ \A i \in Slot : env_ipc_recving'[i] =
              IF i = e /\ env_ipc_recving[e] = 2 THEN 0 ELSE env_ipc_recving[i]
         /\ mail' \in [Slot -> Mail \cup {NoMail}]
<1>1. /\ curenv' = e /\ env_ipc' = env_ipc /\ frame' = env_tf'[e]
      /\ env_tf' = IF old = NoEnv THEN env_tf ELSE [env_tf EXCEPT ![old] = frame]
      /\ \/ /\ env_ipc_recving[e] = 2
            /\ env_ipc_recving' = [env_ipc_recving EXCEPT ![e] = 0]
            /\ mail' = [mail EXCEPT ![e] = env_ipc[e]]
         \/ /\ env_ipc_recving[e] # 2
            /\ env_ipc_recving' = env_ipc_recving /\ mail' = mail
  BY DEF env_run
<1>2. /\ env_tf \in [Slot -> Reg] /\ frame \in Reg
      /\ env_ipc_recving \in [Slot -> 0..2]
      /\ env_ipc \in [Slot -> Mail \cup {NoMail}] /\ mail \in [Slot -> Mail \cup {NoMail}]
  BY DEF TypeOK
<1>3. /\ env_tf' \in [Slot -> Reg]
      /\ \A i \in Slot : env_tf'[i] = IF i = old THEN frame ELSE env_tf[i]
  BY <1>1, <1>2, ConstFacts
<1>4. /\ env_ipc_recving' \in [Slot -> 0..2]
      /\ \A i \in Slot : env_ipc_recving'[i] =
           IF i = e /\ env_ipc_recving[e] = 2 THEN 0 ELSE env_ipc_recving[i]
  BY <1>1, <1>2
<1>5. mail' \in [Slot -> Mail \cup {NoMail}]
  BY <1>1, <1>2
<1> QED
  BY <1>1, <1>3, <1>4, <1>5

(* The parts of the invariant that a switch from old to e disturbs.  The   *)
(* statuses are those after the step.                                      *)
LEMMA SwitchInv ==
  ASSUME TypeOK, NEW e \in Slot, NEW old \in Slot \cup {NoEnv}, env_run(e, old),
         env_status'[e] = "RUNNABLE", index' = e, view' = view, kernel' = kernel,
         UNCHANGED <<env_id, env_parent_id, next_env_id>>,
         env_status' \in [Slot -> {"FREE", "RUNNABLE", "NOT_RUNNABLE"}],
         env_free_list' \in Seq(Slot),
         \A i \in Slot : env_status'[i] # "FREE" => env_status'[i] = env_status[i],
         \A i \in Slot : env_status'[i] # "FREE" =>
           (IF i = old THEN frame ELSE env_tf[i]) = view[i],
         BlockedIffReceiving
  PROVE  TypeOK' /\ CurrentIsIndex' /\ BlockedIffReceiving' /\ MailHandedOver'
         /\ RegistersPrivate'
<1>1. /\ curenv' = e /\ env_ipc' = env_ipc
      /\ env_tf' \in [Slot -> Reg] /\ frame' = env_tf'[e]
      /\ \A i \in Slot : env_tf'[i] = IF i = old THEN frame ELSE env_tf[i]
      /\ env_ipc_recving' \in [Slot -> 0..2]
      /\ \A i \in Slot : env_ipc_recving'[i] =
           IF i = e /\ env_ipc_recving[e] = 2 THEN 0 ELSE env_ipc_recving[i]
      /\ mail' \in [Slot -> Mail \cup {NoMail}]
  BY RunFacts
<1>2. TypeOK'
  <2>1. frame' \in Reg
    BY <1>1
  <2> QED
    BY <1>1, <2>1 DEF TypeOK
<1>3. CurrentIsIndex'
  BY <1>1 DEF CurrentIsIndex, Live
<1>4. BlockedIffReceiving'
  <2> SUFFICES ASSUME NEW i \in Slot, env_status'[i] # "FREE"
               PROVE  env_status'[i] = "NOT_RUNNABLE" <=> env_ipc_recving'[i] = 1
    BY DEF BlockedIffReceiving, Live
  <2>1. env_status[i] = "NOT_RUNNABLE" <=> env_ipc_recving[i] = 1
    BY DEF BlockedIffReceiving, Live
  <2>2. env_status'[i] = env_status[i]
    OBVIOUS
  <2>3. CASE i = e /\ env_ipc_recving[e] = 2
    <3>1. env_ipc_recving'[i] = 0 /\ env_status'[i] = "RUNNABLE"
      BY <1>1, <2>3
    <3> QED
      BY <3>1
  <2>4. CASE ~(i = e /\ env_ipc_recving[e] = 2)
    BY <1>1, <2>1, <2>2, <2>4
  <2> QED
    BY <2>3, <2>4
<1>5. MailHandedOver'
  <2>1. env_ipc_recving'[e] # 2
    BY <1>1
  <2> QED
    BY <1>1, <2>1 DEF MailHandedOver
<1>6. RegistersPrivate'
  BY <1>1 DEF RegistersPrivate, Live
<1> QED
  BY <1>2, <1>3, <1>4, <1>5, <1>6

(* The timer, and a program that yields.                                   *)
LEMMA RescheduleInv ==
  ASSUME Inv, kernel = "running", Schedule(env_status, curenv), UNCHANGED envVars
  PROVE  Inv'
<1> USE DEF Inv
<1>1. UNCHANGED <<env_status, env_id, env_parent_id, env_free_list, next_env_id>>
  BY DEF envVars
<1>2. FreeListExact'
  BY <1>1 DEF FreeListExact, Live
<1>3. CASE /\ kernel' = "spin" /\ curenv' = curenv
           /\ UNCHANGED <<env_tf, frame, index, view, env_ipc_recving, env_ipc, mail>>
  BY <1>1, <1>2, <1>3 DEF TypeOK, CurrentIsIndex, BlockedIffReceiving,
                          MailHandedOver, RegistersPrivate, Live
<1>4. ASSUME NEW e \in Slot,
             env_status[e] = "RUNNABLE", index' = e, env_run(e, curenv),
             view' = view, kernel' = kernel
      PROVE  Inv'
  <2>1. curenv \in Slot \cup {NoEnv}
    BY DEF TypeOK
  <2>2. \A i \in Slot : env_status'[i] # "FREE" =>
          (IF i = curenv THEN frame ELSE env_tf[i]) = view[i]
    BY <1>1 DEF RegistersPrivate, Live
  <2>3. /\ env_status' \in [Slot -> {"FREE", "RUNNABLE", "NOT_RUNNABLE"}]
        /\ env_free_list' \in Seq(Slot)
    BY <1>1 DEF TypeOK
  <2> QED
    BY <1>1, <1>2, <1>4, <2>1, <2>2, <2>3, SwitchInv
<1> QED
  BY <1>3, <1>4, ScheduleSteps

(* A slot that goes back to the free list.                                 *)
LEMMA ReleaseList ==
  ASSUME TypeOK, FreeListExact, NEW e \in Slot, Live(e),
         env_status' = [env_status EXCEPT ![e] = "FREE"],
         env_free_list' = <<e>> \o env_free_list
  PROVE  /\ env_status' \in [Slot -> {"FREE", "RUNNABLE", "NOT_RUNNABLE"}]
         /\ \A i \in Slot : env_status'[i] = IF i = e THEN "FREE" ELSE env_status[i]
         /\ env_free_list' \in Seq(Slot)
         /\ FreeListExact'
<1>1. /\ env_free_list \in Seq(Slot) /\ NoDup(env_free_list)
      /\ \A i \in Slot : ~Live(i) <=> i \in Elems(env_free_list)
  BY ListFacts DEF ListInv, TypeOK
<1>2. e \notin Elems(env_free_list)
  BY <1>1
<1>3. /\ <<e>> \o env_free_list \in Seq(Slot) /\ NoDup(<<e>> \o env_free_list)
      /\ Elems(<<e>> \o env_free_list) = Elems(env_free_list) \cup {e}
  BY ONLY <1>1, <1>2, PushElems
<1>4. /\ env_status' \in [Slot -> {"FREE", "RUNNABLE", "NOT_RUNNABLE"}]
      /\ \A i \in Slot : env_status'[i] = IF i = e THEN "FREE" ELSE env_status[i]
  BY DEF TypeOK
<1>5. FreeListExact'
  <2>1. DOMAIN env_free_list' = 1..Len(env_free_list')
    BY <1>3
  <2>2. \A i \in Slot : env_status'[i] = "FREE" <=> i \in Elems(env_free_list')
    BY <1>1, <1>3, <1>4 DEF Live
  <2>3. NoDup(env_free_list')
    BY <1>3
  <2> QED
    BY ONLY <2>1, <2>2, <2>3 DEF FreeListExact, NoDup, Elems, Live
<1> QED
  BY <1>3, <1>4, <1>5

(* A program that ends itself: its frame is not saved anywhere.            *)
LEMMA DestroySelfInv ==
  ASSUME Inv, NEW envid \in EnvId, DestroySelf(envid)
  PROVE  Inv'
<1> USE DEF Inv
<1>1. /\ Runs /\ UNCHANGED <<env_id, env_parent_id, next_env_id>>
      /\ env_status' = [env_status EXCEPT ![curenv] = "FREE"]
      /\ env_free_list' = <<curenv>> \o env_free_list
      /\ Schedule(env_status', NoEnv)
  BY DEF DestroySelf
<1>2. curenv \in Slot /\ Live(curenv) /\ kernel = "running"
  BY <1>1, RunsFacts
<1>3. /\ env_status' \in [Slot -> {"FREE", "RUNNABLE", "NOT_RUNNABLE"}]
      /\ \A i \in Slot : env_status'[i] = IF i = curenv THEN "FREE" ELSE env_status[i]
      /\ env_free_list' \in Seq(Slot)
      /\ FreeListExact'
  BY <1>1, <1>2, ReleaseList
<1>4. \A i \in Slot : env_status'[i] # "FREE" =>
        /\ i # curenv /\ env_status'[i] = env_status[i] /\ env_tf[i] = view[i]
  BY <1>3 DEF RegistersPrivate, Live
<1>5. CASE /\ kernel' = "spin" /\ curenv' = NoEnv
           /\ UNCHANGED <<env_tf, frame, index, view, env_ipc_recving, env_ipc, mail>>
  <2>1. TypeOK'
    BY <1>1, <1>3, <1>5 DEF TypeOK
  <2>2. CurrentIsIndex' /\ MailHandedOver'
    BY <1>5 DEF CurrentIsIndex, MailHandedOver
  <2>3. BlockedIffReceiving'
    BY <1>4, <1>5 DEF BlockedIffReceiving, Live
  <2>4. RegistersPrivate'
    BY <1>4, <1>5, ConstFacts DEF RegistersPrivate, Live
  <2> QED
    BY <1>3, <2>1, <2>2, <2>3, <2>4
<1>6. ASSUME NEW e \in Slot,
             env_status'[e] = "RUNNABLE", index' = e, env_run(e, NoEnv),
             view' = view, kernel' = kernel
      PROVE  Inv'
  <2>1. \A i \in Slot : env_status'[i] # "FREE" =>
          (IF i = NoEnv THEN frame ELSE env_tf[i]) = view[i]
    BY <1>4, ConstFacts
  <2>2. \A i \in Slot : env_status'[i] # "FREE" => env_status'[i] = env_status[i]
    BY <1>4
  <2>3. NoEnv \in Slot \cup {NoEnv}
    OBVIOUS
  <2> QED
    BY <1>1, <1>3, <1>6, <2>1, <2>2, <2>3, SwitchInv
<1> QED
  BY <1>1, <1>5, <1>6, ScheduleSteps

(* A child that is destroyed: the kernel does not run on.                  *)
LEMMA DestroyChildInv ==
  ASSUME Inv, NEW envid \in EnvId, DestroyChild(envid)
  PROVE  Inv'
<1> USE DEF Inv
<1>1. PICK e \in Slot :
        /\ Live(e) /\ e # curenv
        /\ env_status' = [env_status EXCEPT ![e] = "FREE"]
        /\ env_free_list' = <<e>> \o env_free_list
  BY FoundFacts DEF DestroyChild
<1>2. /\ kernel' = "wild"
      /\ UNCHANGED <<env_id, env_parent_id, next_env_id, env_ipc_recving, env_ipc, mail,
                     env_tf, curenv, index, frame, view>>
  BY DEF DestroyChild, ipcVars, runVars
<1>3. /\ env_status' \in [Slot -> {"FREE", "RUNNABLE", "NOT_RUNNABLE"}]
      /\ \A i \in Slot : env_status'[i] = IF i = e THEN "FREE" ELSE env_status[i]
      /\ env_free_list' \in Seq(Slot)
      /\ FreeListExact'
  BY <1>1, ReleaseList
<1>4. TypeOK'
  BY <1>2, <1>3 DEF TypeOK
<1>5. CurrentIsIndex' /\ MailHandedOver'
  BY <1>2 DEF CurrentIsIndex, MailHandedOver
<1>6. BlockedIffReceiving'
  BY <1>2, <1>3 DEF BlockedIffReceiving, Live
<1>7. RegistersPrivate'
  BY <1>2, <1>3 DEF RegistersPrivate, Live
<1> QED
  BY <1>3, <1>4, <1>5, <1>6, <1>7

(* fork: the child takes the head of the list, which is not the caller.    *)
LEMMA ForkInv ==
  ASSUME Inv, _fork
  PROVE  Inv'
<1> USE DEF Inv
<1> DEFINE e == Head(env_free_list)
           new == mkenvid(e)
<1>1. /\ Runs /\ env_free_list # <<>>
      /\ env_free_list' = Tail(env_free_list)
      /\ next_env_id' = next_env_id + 1
      /\ env_id' = [env_id EXCEPT ![e] = new]
      /\ env_parent_id' = [env_parent_id EXCEPT ![e] = env_id[curenv]]
      /\ env_status' = [env_status EXCEPT ![e] = "RUNNABLE"]
      /\ env_ipc_recving' = [env_ipc_recving EXCEPT ![e] = 0]
      /\ mail' = [mail EXCEPT ![e] = mail[curenv]]
      /\ env_tf' = [env_tf EXCEPT ![e] = 0]
      /\ frame' = new
      /\ view' = [view EXCEPT ![e] = 0, ![curenv] = new]
      /\ UNCHANGED <<env_ipc, curenv, index, kernel>>
  BY DEF _fork
<1>2. /\ curenv \in Slot /\ Live(curenv) /\ index = curenv /\ kernel = "running"
      /\ frame = view[curenv]
  BY <1>1, RunsFacts
<1>3. /\ env_free_list \in Seq(Slot) /\ NoDup(env_free_list)
      /\ \A i \in Slot : ~Live(i) <=> i \in Elems(env_free_list)
  BY ListFacts DEF ListInv, TypeOK
<1>4. /\ e \in Slot /\ e \in Elems(env_free_list)
      /\ env_free_list' \in Seq(Slot) /\ NoDup(env_free_list')
      /\ Elems(env_free_list') = Elems(env_free_list) \ {e}
  BY ONLY <1>1, <1>3, PopElems
<1>5. ~Live(e) /\ e # curenv /\ new \in EnvId /\ new \in Reg /\ 0 \in Reg
  BY <1>2, <1>3, <1>4, MkenvidFacts, NameFacts DEF Reg
<1> HIDE DEF e, new
<1>6. /\ \A i \in Slot : env_status'[i] = IF i = e THEN "RUNNABLE" ELSE env_status[i]
      /\ \A i \in Slot : env_id'[i] = IF i = e THEN new ELSE env_id[i]
      /\ \A i \in Slot : env_ipc_recving'[i] = IF i = e THEN 0 ELSE env_ipc_recving[i]
      /\ \A i \in Slot : env_tf'[i] = IF i = e THEN 0 ELSE env_tf[i]
      /\ \A i \in Slot : view'[i] = IF i = e THEN 0
                                    ELSE IF i = curenv THEN new ELSE view[i]
  BY <1>1, <1>2, <1>4, <1>5 DEF TypeOK
<1>7. TypeOK'
  <2>1. env_status' \in [Slot -> {"FREE", "RUNNABLE", "NOT_RUNNABLE"}]
    BY <1>1 DEF TypeOK
  <2>2. env_id' \in [Slot -> EnvId] /\ env_parent_id' \in [Slot -> EnvId]
    BY <1>1, <1>2, <1>5 DEF TypeOK
  <2>3. env_ipc_recving' \in [Slot -> 0..2] /\ mail' \in [Slot -> Mail \cup {NoMail}]
    <3>1. env_ipc_recving' \in [Slot -> 0..2]
      <4>1. env_ipc_recving \in [Slot -> 0..2] /\ 0 \in 0..2
        BY DEF TypeOK
      <4> QED
        BY ONLY <1>1, <4>1
    <3>2. mail \in [Slot -> Mail \cup {NoMail}] /\ mail[curenv] \in Mail \cup {NoMail}
      BY <1>2 DEF TypeOK
    <3> QED
      BY <1>1, <3>1, <3>2
  <2>4. env_tf' \in [Slot -> Reg] /\ frame' \in Reg /\ view' \in [Slot -> Reg]
    BY <1>1, <1>5 DEF TypeOK
  <2>5. next_env_id' \in Nat
    BY <1>1 DEF TypeOK
  <2> QED
    BY <1>1, <1>4, <2>1, <2>2, <2>3, <2>4, <2>5 DEF TypeOK
<1>8. FreeListExact'
  <2>1. DOMAIN env_free_list' = 1..Len(env_free_list')
    BY <1>4
  <2>2. \A i \in Slot : env_status'[i] = "FREE" <=> i \in Elems(env_free_list')
    BY <1>3, <1>4, <1>6 DEF Live
  <2> QED
    BY <1>4, <2>1, <2>2 DEF FreeListExact, NoDup, Elems, Live
<1>9. CurrentIsIndex'
  BY <1>1, <1>2, <1>6 DEF CurrentIsIndex, Live
<1>10. BlockedIffReceiving'
  BY <1>6 DEF BlockedIffReceiving, Live
<1>11. MailHandedOver'
  BY <1>1, <1>2, <1>5, <1>6 DEF MailHandedOver
<1>12. RegistersPrivate'
  <2> SUFFICES ASSUME NEW i \in Slot, env_status'[i] # "FREE"
               PROVE  (IF i = curenv THEN frame' ELSE env_tf'[i]) = view'[i]
    BY <1>1 DEF RegistersPrivate, Live
  <2>1. CASE i = e \/ i = curenv
    BY <1>1, <1>5, <1>6, <2>1
  <2>2. CASE i # e /\ i # curenv
    <3>1. env_tf[i] = view[i]
      BY <1>6, <2>2 DEF RegistersPrivate, Live
    <3> QED
      BY <1>6, <2>2, <3>1
  <2> QED
    BY <2>1, <2>2
<1> QED
  BY <1>7, <1>8, <1>9, <1>10, <1>11, <1>12

(* A system call that only answers its caller.                             *)
LEMMA ReturnInv ==
  ASSUME Inv, Runs, NEW ret \in Reg, sys_return(ret),
         UNCHANGED <<envVars, ipcVars, env_tf, curenv, index, kernel>>
  PROVE  Inv'
<1> USE DEF Inv
<1>1. /\ frame' = ret /\ view' = [view EXCEPT ![curenv] = ret]
      /\ UNCHANGED <<env_status, env_id, env_parent_id, env_free_list, next_env_id,
                     env_ipc_recving, env_ipc, mail, env_tf, curenv, index, kernel>>
  BY DEF sys_return, envVars, ipcVars
<1>2. curenv \in Slot
  BY RunsFacts
<1>3. \A i \in Slot : view'[i] = IF i = curenv THEN ret ELSE view[i]
  BY <1>1, <1>2 DEF TypeOK
<1>4. TypeOK'
  BY <1>1, <1>2 DEF TypeOK
<1>5. RegistersPrivate'
  BY <1>1, <1>3 DEF RegistersPrivate, Live
<1> QED
  BY <1>1, <1>4, <1>5 DEF FreeListExact, CurrentIsIndex, BlockedIffReceiving,
                          MailHandedOver, Live

(* The caller waits for a message, and runs on until it yields.            *)
LEMMA ReceiveInv ==
  ASSUME Inv, _ipc_can_recv
  PROVE  Inv'
<1> USE DEF Inv
<1>1. /\ Runs
      /\ env_ipc_recving' = [env_ipc_recving EXCEPT ![curenv] = 1]
      /\ env_status' = [env_status EXCEPT ![curenv] = "NOT_RUNNABLE"]
      /\ UNCHANGED <<env_id, env_parent_id, env_free_list, next_env_id, env_ipc, mail,
                     env_tf, curenv, index, frame, view, kernel>>
  BY DEF _ipc_can_recv, runVars
<1>2. curenv \in Slot /\ Live(curenv)
  BY <1>1, RunsFacts
<1>3. /\ \A i \in Slot : env_ipc_recving'[i] = IF i = curenv THEN 1 ELSE env_ipc_recving[i]
      /\ \A i \in Slot : env_status'[i] = IF i = curenv THEN "NOT_RUNNABLE" ELSE env_status[i]
  BY <1>1, <1>2 DEF TypeOK
<1>4. TypeOK'
  BY <1>1, <1>2 DEF TypeOK
<1>5. FreeListExact'
  BY <1>1, <1>2, <1>3 DEF FreeListExact, Live
<1>6. CurrentIsIndex' /\ MailHandedOver'
  BY <1>1, <1>2, <1>3 DEF CurrentIsIndex, MailHandedOver, Live
<1>7. BlockedIffReceiving'
  BY <1>3 DEF BlockedIffReceiving, Live
<1>8. RegistersPrivate'
  BY <1>1, <1>2, <1>3 DEF RegistersPrivate, Live
<1> QED
  BY <1>4, <1>5, <1>6, <1>7, <1>8

(* A message arrives, at whoever waits, the caller itself included.        *)
LEMMA SendInv ==
  ASSUME Inv, NEW envid \in EnvId, NEW value \in Value, SendAccepted(envid, value)
  PROVE  Inv'
<1> USE DEF Inv
<1> DEFINE msg == [from |-> env_id[curenv], value |-> value]
<1>1. PICK e \in Slot :
        /\ Live(e) /\ env_ipc_recving[e] = 1
        /\ env_ipc_recving' = [env_ipc_recving EXCEPT ![e] = 2]
        /\ env_ipc' = [env_ipc EXCEPT ![e] = msg]
        /\ env_status' = [env_status EXCEPT ![e] = "RUNNABLE"]
  BY FoundFacts DEF SendAccepted
<1>2. /\ Runs /\ frame' = 0 /\ view' = [view EXCEPT ![curenv] = 0]
      /\ UNCHANGED <<env_id, env_parent_id, env_free_list, next_env_id,
                     mail, env_tf, curenv, index, kernel>>
  BY DEF SendAccepted, sys_return
<1>3. curenv \in Slot /\ Live(curenv) /\ 0 \in Reg
  BY <1>2, RunsFacts DEF Reg
<1>4. msg \in Mail /\ msg.from = env_id[curenv]
  BY <1>3 DEF TypeOK, Mail
<1> HIDE DEF msg
<1>5. /\ \A i \in Slot : env_ipc_recving'[i] = IF i = e THEN 2 ELSE env_ipc_recving[i]
      /\ \A i \in Slot : env_status'[i] = IF i = e THEN "RUNNABLE" ELSE env_status[i]
      /\ \A i \in Slot : env_ipc'[i] = IF i = e THEN msg ELSE env_ipc[i]
      /\ \A i \in Slot : view'[i] = IF i = curenv THEN 0 ELSE view[i]
  BY <1>1, <1>2, <1>3 DEF TypeOK
<1>6. TypeOK'
  BY <1>1, <1>2, <1>3, <1>4 DEF TypeOK
<1>7. FreeListExact'
  BY <1>1, <1>2, <1>5 DEF FreeListExact, Live
<1>8. CurrentIsIndex'
  BY <1>2, <1>3, <1>5 DEF CurrentIsIndex, Live
<1>9. MailHandedOver'
  BY <1>2, <1>3, <1>4, <1>5 DEF MailHandedOver
<1>10. BlockedIffReceiving'
  BY <1>5 DEF BlockedIffReceiving, Live
<1>11. RegistersPrivate'
  BY <1>1, <1>2, <1>5 DEF RegistersPrivate, Live
<1> QED
  BY <1>6, <1>7, <1>8, <1>9, <1>10, <1>11

(* Every step keeps the invariant.                                         *)
LEMMA NextInv ==
  ASSUME Inv, [Next]_vars
  PROVE  Inv'
<1>1. CASE irq_handler \/ _sched_yield
  BY <1>1, RescheduleInv DEF irq_handler, _sched_yield, Runs
<1>2. CASE _getenvid
  <2>1. curenv \in Slot /\ env_id[curenv] \in Reg
    BY <1>2, RunsFacts, NameFacts DEF _getenvid, Inv, TypeOK
  <2> QED
    BY <1>2, <2>1, ReturnInv DEF _getenvid
<1>3. CASE _fork
  BY <1>3, ForkInv
<1>4. CASE _ipc_can_recv
  BY <1>4, ReceiveInv
<1>5. CASE Panic
  <2>1. /\ kernel' = "panic"
        /\ UNCHANGED <<env_status, env_id, env_parent_id, env_free_list, next_env_id,
                       env_ipc_recving, env_ipc, mail, env_tf, curenv, index, frame, view>>
    BY <1>5 DEF Panic, envVars, ipcVars, runVars
  <2> QED
    BY <2>1 DEF Inv, TypeOK, FreeListExact, CurrentIsIndex, BlockedIffReceiving,
                MailHandedOver, RegistersPrivate, Live
<1>6. ASSUME NEW envid \in Known, DestroySelf(envid) PROVE Inv'
  BY <1>6, DestroySelfInv, KnownFacts
<1>7. ASSUME NEW envid \in Known, DestroyChild(envid) PROVE Inv'
  BY <1>7, DestroyChildInv, KnownFacts
<1>8. CASE UNCHANGED vars
  <2>1. UNCHANGED <<env_status, env_id, env_parent_id, env_free_list, next_env_id,
                    env_ipc_recving, env_ipc, mail, env_tf, curenv, index, frame, view,
                    kernel>>
    BY <1>8 DEF vars, envVars, ipcVars, runVars
  <2> QED
    BY <2>1 DEF Inv, TypeOK, FreeListExact, CurrentIsIndex, BlockedIffReceiving,
                MailHandedOver, RegistersPrivate, Live
<1>9. ASSUME NEW envid \in Known, DestroyRefused(envid) PROVE Inv'
  BY <1>8, <1>9 DEF DestroyRefused
<1>10. ASSUME NEW envid \in Known, NEW value \in Value, _ipc_can_send(envid, value)
       PROVE  Inv'
  <2>1. CASE SendAccepted(envid, value)
    BY <2>1, SendInv, KnownFacts
  <2>2. ASSUME Runs, NEW ret \in Reg, SendAnswers(ret) PROVE Inv'
    BY <2>2, ReturnInv DEF SendAnswers
  <2>3. {E_BAD_ENV, E_INVAL, E_NO_MEM, E_IPC_NOT_RECV} \subseteq Reg
    BY DEF Reg
  <2> QED
    BY <1>10, <2>1, <2>2, <2>3 DEF _ipc_can_send, SendRefused, SendNoPage
<1> QED
  BY <1>1, <1>2, <1>3, <1>4, <1>5, <1>6, <1>7, <1>8, <1>9, <1>10 DEF Next

(* So it holds for ever.                                                   *)
LEMMA InvHolds == Spec => []Inv
<1>1. Init => Inv
  BY InitInv
<1>2. Inv /\ [Next]_vars => Inv'
  BY NextInv
<1> QED
  BY <1>1, <1>2, PTL DEF Spec

-----------------------------------------------------------------------------
(* Names, as long as the counter has not run out of values.                *)

(* Slot i has the name of some generation g, and Gens is not reached.      *)
NameInv ==
  /\ next_env_id \in Nat /\ next_env_id < Gens
  /\ \A i \in Slot : Live(i) =>
       \E g \in 1..(Gens - 1) : env_id[i] = g * 2 * NENV + i

(* The name of slot i in generation g fits, is not 0, and leads back to i. *)
LEMMA NameArith ==
  ASSUME NEW g \in 1..(Gens - 1), NEW i \in Slot
  PROVE  /\ (g * 2 * NENV + i) % (2 * NENV * Gens) = g * 2 * NENV + i
         /\ g * 2 * NENV + i # 0
         /\ ENVX(g * 2 * NENV + i) = i
<1> DEFINE n == 2 * NENV
<1>1. /\ NENV \in Nat /\ NENV > 0 /\ Gens \in Nat /\ g \in Nat /\ g >= 1 /\ g <= Gens - 1
      /\ i \in Nat /\ i < NENV /\ n \in Nat /\ n > 0
  BY EnvAssumption DEF Slot
<1>2. g * 2 * NENV = g * n /\ 2 * NENV * Gens = n * Gens /\ g * 2 * NENV = (g * 2) * NENV
  BY <1>1
<1>3. i < n
  BY <1>1
<1> HIDE DEF n
<1>4. g * n \in Nat /\ g * n >= n /\ n * Gens \in Nat
  BY <1>1
<1>5. n * Gens = g * n + (Gens - g) * n /\ (Gens - g) * n >= n
  BY <1>1
<1>6. g * n + i \in Nat /\ g * n + i < n * Gens /\ g * n + i # 0
  BY <1>1, <1>3, <1>4, <1>5
<1>7. (g * n + i) % (n * Gens) = g * n + i
  <2> DEFINE x == g * n + i
             m == n * Gens
  <2>1. x \in Nat /\ m \in Nat /\ x < m
    BY <1>4, <1>6
  <2> HIDE DEF x, m
  <2>2. x % m = x
    BY <2>1
  <2> QED
    BY <2>2 DEF x, m
<1>8. ((g * 2) * NENV + i) % NENV = i
  <2> DEFINE q == g * 2
  <2>1. q \in Nat /\ NENV \in Nat /\ NENV > 0 /\ i \in 0..(NENV - 1)
    BY <1>1
  <2> HIDE DEF q
  <2>2. (q * NENV + i) % NENV = i
    BY ONLY <2>1
  <2> QED
    BY <2>2 DEF q
<1> QED
  BY <1>2, <1>6, <1>7, <1>8 DEF ENVX

(* The first program has the first name.                                   *)
LEMMA NameInit ==
  ASSUME Init
  PROVE  NameInv
<1>1. 1 \in 1..(Gens - 1) /\ 0 \in Slot
  BY EnvAssumption, ConstFacts
<1>2. (1 * 2 * NENV + 0) % (2 * NENV * Gens) = 1 * 2 * NENV + 0
  BY <1>1, NameArith
<1>3. 1 * 2 * NENV + 0 = 2 * NENV
  BY EnvAssumption
<1>4. env_id[0] = 1 * 2 * NENV + 0
  BY <1>1, <1>2, <1>3 DEF Init
<1>5. \A i \in Slot : Live(i) => i = 0
  BY DEF Init, Live
<1>6. next_env_id \in Nat /\ next_env_id < Gens
  BY EnvAssumption DEF Init
<1> QED
  BY <1>1, <1>4, <1>5, <1>6 DEF NameInv

(* A step that makes none, and nobody, keeps the names.                    *)
LEMMA NameKept ==
  ASSUME NameInv, UNCHANGED <<env_id, next_env_id>>,
         \A i \in Slot : env_status'[i] # "FREE" => Live(i)
  PROVE  NameInv'
BY DEF NameInv, Live

(* fork is the only step that makes a name.                                *)
LEMMA NameStep ==
  ASSUME MaxAlloc < Gens, Inv, NameInv, [Next]_vars
  PROVE  NameInv'
<1>1. CASE _fork
  <2> DEFINE e == Head(env_free_list)
  <2>1. /\ env_free_list # <<>> /\ next_env_id < MaxAlloc
        /\ next_env_id' = next_env_id + 1
        /\ env_id' = [env_id EXCEPT ![e] = mkenvid(e)]
        /\ env_status' = [env_status EXCEPT ![e] = "RUNNABLE"]
    BY <1>1 DEF _fork
  <2>2. e \in Slot
    BY <2>1 DEF Inv, TypeOK
  <2>3. next_env_id' \in 1..(Gens - 1) /\ next_env_id' \in Nat /\ next_env_id' < Gens
    BY <2>1, EnvAssumption DEF NameInv
  <2>4. mkenvid(e) = next_env_id' * 2 * NENV + e
    BY <2>1, <2>2, <2>3, NameArith DEF mkenvid
  <2> HIDE DEF e
  <2>5. ASSUME NEW i \in Slot, env_status'[i] # "FREE"
        PROVE  \E g \in 1..(Gens - 1) : env_id'[i] = g * 2 * NENV + i
    <3>1. CASE i = e
      <4>1. env_id'[i] = mkenvid(e)
        BY <2>1, <2>2, <3>1 DEF Inv, TypeOK
      <4> QED
        BY <2>3, <2>4, <3>1, <4>1
    <3>2. CASE i # e
      <4>1. env_id'[i] = env_id[i] /\ Live(i)
        BY <2>1, <2>5, <3>2 DEF Inv, TypeOK, Live
      <4> QED
        BY <4>1 DEF NameInv
    <3> QED
      BY <3>1, <3>2
  <2> QED
    BY <2>3, <2>5 DEF NameInv, Live
<1>2. CASE /\ UNCHANGED <<env_id, next_env_id>>
           /\ \A i \in Slot : env_status'[i] # "FREE" => Live(i)
  BY <1>2, NameKept
<1>3. ASSUME NEW e, Live(e), env_status' = [env_status EXCEPT ![e] = "RUNNABLE"]
      PROVE  \A i \in Slot : env_status'[i] # "FREE" => Live(i)
  BY <1>3 DEF Inv, TypeOK, Live
<1>4. ASSUME NEW e, \/ env_status' = [env_status EXCEPT ![e] = "FREE"]
                    \/ env_status' = env_status
      PROVE  \A i \in Slot : env_status'[i] # "FREE" => Live(i)
  BY <1>4 DEF Inv, TypeOK, Live
<1>5. CASE _ipc_can_recv
  <2>1. Live(curenv) /\ curenv \in Slot
    BY <1>5, RunsFacts DEF _ipc_can_recv
  <2>2. env_status' = [env_status EXCEPT ![curenv] = "NOT_RUNNABLE"]
    BY <1>5 DEF _ipc_can_recv
  <2>3. \A i \in Slot : env_status'[i] # "FREE" => Live(i)
    BY <2>1, <2>2 DEF Inv, TypeOK, Live
  <2> QED
    BY <1>2, <1>5, <2>3 DEF _ipc_can_recv
<1>6. ASSUME NEW envid \in Known, NEW value \in Value, SendAccepted(envid, value)
      PROVE  NameInv'
  <2>1. Live(envid2env(envid))
    BY <1>6, FoundFacts, KnownFacts DEF SendAccepted
  <2> QED
    BY <1>2, <1>3, <1>6, <2>1 DEF SendAccepted
<1>7. ASSUME NEW envid \in Known, DestroySelf(envid) \/ DestroyChild(envid)
      PROVE  NameInv'
  BY <1>2, <1>4, <1>7 DEF DestroySelf, DestroyChild
<1>8. ASSUME UNCHANGED <<env_status, env_id, next_env_id>>
      PROVE  NameInv'
  BY <1>2, <1>8 DEF Live
<1>9. CASE irq_handler \/ _sched_yield \/ _getenvid \/ Panic \/ UNCHANGED vars
  BY <1>8, <1>9 DEF irq_handler, _sched_yield, _getenvid, Panic, envVars, vars
<1>10. ASSUME NEW envid \in Known,
              \/ DestroyRefused(envid)
              \/ \E value \in Value : SendRefused(envid) \/ SendNoPage(envid)
       PROVE  NameInv'
  BY <1>8, <1>10 DEF DestroyRefused, SendRefused, SendNoPage, SendAnswers, envVars, vars
<1> QED
  BY <1>1, <1>5, <1>6, <1>7, <1>9, <1>10 DEF Next, _ipc_can_send

-----------------------------------------------------------------------------
(* Theorems.                                                               *)

(* The types of the variables.                                             *)
THEOREM EnvTypeCorrect == Spec => []TypeOK
<1>1. Inv => TypeOK
  BY DEF Inv
<1> QED
  BY <1>1, InvHolds, PTL

(* No slot is handed out twice and none is lost.                           *)
THEOREM FreeListExactCorrect == Spec => []FreeListExact
<1>1. Inv => FreeListExact
  BY DEF Inv
<1> QED
  BY <1>1, InvHolds, PTL

(* The slot the scheduler remembers is the one that runs.                  *)
THEOREM CurrentIsIndexCorrect == Spec => []CurrentIsIndex
<1>1. Inv => CurrentIsIndex
  BY DEF Inv
<1> QED
  BY <1>1, InvHolds, PTL

(* Who is NOT_RUNNABLE waits for a message, and the other way round.       *)
THEOREM BlockedIffReceivingCorrect == Spec => []BlockedIffReceiving
<1>1. Inv => BlockedIffReceiving
  BY DEF Inv
<1> QED
  BY <1>1, InvHolds, PTL

(* A message that has come is handed over before its receiver runs.        *)
THEOREM MailHandedOverCorrect == Spec => []MailHandedOver
<1>1. Inv => MailHandedOver
  BY DEF Inv
<1> QED
  BY <1>1, InvHolds, PTL

(* Every program finds its own registers, whoever ran in between.          *)
THEOREM RegistersPrivateCorrect == Spec => []RegistersPrivate
<1>1. Inv => RegistersPrivate
  BY DEF Inv
<1> QED
  BY <1>1, InvHolds, PTL

(* Until the counter of mkenvid runs out, every name is its owner's.       *)
THEOREM IdResolvesCorrect ==
  ASSUME MaxAlloc < Gens
  PROVE  Spec => []IdResolves
<1>1. Init => NameInv
  BY NameInit
<1>2. Inv /\ NameInv /\ [Next]_vars => NameInv'
  BY NameStep
<1>3. NameInv => IdResolves
  BY NameArith DEF NameInv, IdResolves, envid2env
<1> QED
  BY <1>1, <1>2, <1>3, InvHolds, PTL DEF Spec

-----------------------------------------------------------------------------
(***************************************************************************)
(* The library and the rally.                                              *)
(***************************************************************************)

Pcs == {"user", "can_send", "sent", "yield_send", "can_recv", "yield_recv", "got"}

(* The shapes of pc and out.                                               *)
UserTypeOK ==
  /\ pc \in [Slot -> Pcs]
  /\ out \in [Slot -> [to : EnvId, value : Value]]

(* Who is not inside ipc_recv has no business with messages.  Who runs has *)
(* none either, but between the two traps of ipc_recv, when it has asked   *)
(* for a message and has not been taken off the processor yet.             *)
Served(i) ==
  /\ pc[i] \notin {"yield_recv", "got"} => env_ipc_recving[i] = 0
  /\ kernel = "running" /\ i = curenv =>
       \/ env_ipc_recving[i] = 0
       \/ env_ipc_recving[i] = 1 /\ pc[i] = "yield_recv"

LibInv ==
  /\ Inv /\ UserTypeOK /\ RecvNeverPanics
  /\ \A i \in Slot : Live(i) => Served(i)

-----------------------------------------------------------------------------
(* The first program is outside the library.                               *)
LEMMA LibInitInv == LibInit => LibInv
<1> SUFFICES ASSUME LibInit PROVE LibInv
  OBVIOUS
<1>1. Inv
  BY InitInv DEF LibInit
<1>2. /\ pc = [i \in Slot |-> "user"]
      /\ out = [i \in Slot |-> [to |-> 0, value |-> CHOOSE v \in Value : TRUE]]
      /\ env_ipc_recving = [i \in Slot |-> 0] /\ kernel = "running"
  BY DEF LibInit, Init
<1>3. (CHOOSE v \in Value : TRUE) \in Value
  BY ValueAssumption
<1>4. UserTypeOK
  BY <1>2, <1>3, ConstFacts DEF UserTypeOK, Pcs
<1>5. \A i \in Slot : Served(i)
  BY <1>2 DEF Served
<1> QED
  BY <1>1, <1>2, <1>4, <1>5 DEF LibInv, RecvNeverPanics

(* Nobody is taken to the processor who still waits for a message: whoever *)
(* comes out of the scheduler has been served.                             *)
LEMMA SwitchServes ==
  ASSUME Inv, NEW status, NEW old \in Slot \cup {NoEnv}, Schedule(status, old),
         \A i \in Slot : status[i] = "RUNNABLE" => env_status[i] = "RUNNABLE"
  PROVE  /\ kernel' = "running" => kernel = "running" /\ env_ipc_recving'[curenv'] = 0
         /\ kernel' # "panic" \/ kernel = "panic"
         /\ \A i \in Slot : env_ipc_recving[i] = 0 => env_ipc_recving'[i] = 0
         /\ curenv' \in Slot \cup {NoEnv}
         /\ view' = view
<1> USE DEF Inv
<1>1. CASE /\ kernel' = "spin" /\ curenv' = old
           /\ UNCHANGED <<env_tf, frame, index, view, env_ipc_recving, env_ipc, mail>>
  BY <1>1
<1>2. ASSUME NEW e \in Slot, status[e] = "RUNNABLE", index' = e, env_run(e, old),
             view' = view, kernel' = kernel
      PROVE  /\ kernel' = "running" => kernel = "running" /\ env_ipc_recving'[curenv'] = 0
             /\ kernel' # "panic" \/ kernel = "panic"
             /\ \A i \in Slot : env_ipc_recving[i] = 0 => env_ipc_recving'[i] = 0
             /\ curenv' \in Slot \cup {NoEnv}
             /\ view' = view
  <2>1. /\ curenv' = e
        /\ \A i \in Slot : env_ipc_recving'[i] =
             IF i = e /\ env_ipc_recving[e] = 2 THEN 0 ELSE env_ipc_recving[i]
    BY <1>2, RunFacts
  <2>2. env_ipc_recving[e] \in 0..2 /\ env_ipc_recving[e] # 1
    BY <1>2 DEF TypeOK, BlockedIffReceiving, Live
  <2>3. env_ipc_recving'[e] = 0
    BY <2>1, <2>2
  <2> QED
    BY <1>2, <2>1, <2>3
<1> QED
  BY <1>1, <1>2, ScheduleSteps

(* A switch of programs, where pc moves for the caller alone, and not out  *)
(* of ipc_recv.                                                            *)
LEMMA SwitchLib ==
  ASSUME LibInv, Inv', kernel = "running", Schedule(env_status, curenv), UNCHANGED envVars,
         UserTypeOK',
         \A i \in Slot : Live(i) => \/ pc'[i] = pc[i]
                                    \/ pc'[i] \in {"yield_recv", "got"}
                                    \/ pc[i] \notin {"yield_recv", "got"}
  PROVE  LibInv'
<1>1. curenv \in Slot \cup {NoEnv} /\ env_status' = env_status
  BY DEF LibInv, Inv, TypeOK, envVars
<1>2. /\ kernel' = "running" => env_ipc_recving'[curenv'] = 0
      /\ kernel' # "panic"
      /\ \A i \in Slot : env_ipc_recving[i] = 0 => env_ipc_recving'[i] = 0
  BY <1>1, SwitchServes DEF LibInv
<1>3. ASSUME NEW i \in Slot, Live(i)' PROVE Served(i)'
  <2>1. Live(i) /\ Served(i)
    BY <1>1, <1>3 DEF LibInv, Live
  <2> QED
    BY <1>2, <2>1 DEF Served
<1> QED
  BY <1>2, <1>3 DEF LibInv, RecvNeverPanics

(* The program moves on without a trap.                                    *)
LEMMA MoveLib ==
  ASSUME LibInv, UNCHANGED vars, UserTypeOK',
         \A i \in Slot : Live(i) /\ pc'[i] # pc[i] => env_ipc_recving[i] = 0
  PROVE  LibInv'
<1>1. UNCHANGED <<env_status, env_id, env_parent_id, env_free_list, next_env_id,
                  env_ipc_recving, env_ipc, mail, env_tf, curenv, index, frame, view,
                  kernel>>
  BY DEF vars, envVars, ipcVars, runVars
<1>2. Inv'
  BY NextInv DEF LibInv
<1>3. ASSUME NEW i \in Slot, Live(i)' PROVE Served(i)'
  BY <1>1, <1>3 DEF LibInv, Served, Live
<1> QED
  BY <1>1, <1>2, <1>3 DEF LibInv, RecvNeverPanics

(* Where the program goes.                                                 *)
LEMMA GotoType ==
  ASSUME LibInv, NEW l \in Pcs, Runs, Goto(l)
  PROVE  /\ curenv \in Slot /\ pc' \in [Slot -> Pcs]
         /\ \A i \in Slot : pc'[i] = IF i = curenv THEN l ELSE pc[i]
BY RunsFacts DEF LibInv, UserTypeOK, Goto

-----------------------------------------------------------------------------
(* The steps.                                                              *)

(* The trap of ipc_send: the receiver was waiting, or nothing but the      *)
(* answer changes.                                                         *)
LEMMA TrapSendLib ==
  ASSUME LibInv, TrapSend
  PROVE  LibInv'
<1> DEFINE to == out[curenv].to
           value == out[curenv].value
<1>1. /\ Runs /\ pc[curenv] = "can_send" /\ Goto("sent") /\ out' = out
      /\ SendRefused(to) \/ SendAccepted(to, value)
  BY DEF TrapSend, At
<1>2. /\ curenv \in Slot /\ Live(curenv) /\ pc' \in [Slot -> Pcs]
      /\ \A i \in Slot : pc'[i] = IF i = curenv THEN "sent" ELSE pc[i]
      /\ env_ipc_recving[curenv] = 0
  BY <1>1, GotoType, RunsFacts DEF LibInv, Pcs, Served
<1>3. to \in EnvId /\ value \in Value
  BY <1>2 DEF LibInv, UserTypeOK
<1> HIDE DEF to, value
<1>4. UserTypeOK'
  BY <1>1, <1>2 DEF LibInv, UserTypeOK
<1>5. CASE SendAccepted(to, value)
  <2>1. PICK e \in Slot :
          /\ Live(e) /\ env_ipc_recving[e] = 1
          /\ env_ipc_recving' = [env_ipc_recving EXCEPT ![e] = 2]
          /\ env_status' = [env_status EXCEPT ![e] = "RUNNABLE"]
    BY <1>3, <1>5, FoundFacts DEF SendAccepted, LibInv
  <2>2. UNCHANGED <<curenv, kernel>>
    BY <1>5 DEF SendAccepted
  <2>3. Inv'
    BY <1>3, <1>5, SendInv DEF LibInv
  <2>4. ASSUME NEW i \in Slot, Live(i)' PROVE Served(i)'
    <3>1. Live(i) /\ Served(i)
      BY <2>1, <2>4 DEF LibInv, Live, Inv, TypeOK
    <3>2. CASE i = e
      BY <1>2, <2>1, <2>2, <3>1, <3>2 DEF Served, LibInv, Inv, TypeOK
    <3>3. CASE i # e
      BY <1>2, <2>1, <2>2, <3>1, <3>3 DEF Served, LibInv, Inv, TypeOK
    <3> QED
      BY <3>2, <3>3
  <2> QED
    BY <1>4, <2>2, <2>3, <2>4 DEF LibInv, RecvNeverPanics
<1>6. CASE SendRefused(to)
  <2>1. PICK ret \in Reg : SendAnswers(ret)
    BY <1>6 DEF SendRefused, Reg
  <2>2. Inv'
    BY <1>1, <2>1, ReturnInv DEF LibInv, SendAnswers
  <2>3. UNCHANGED <<curenv, kernel, env_ipc_recving, env_status>>
    BY <2>1 DEF SendAnswers, envVars, ipcVars
  <2>4. ASSUME NEW i \in Slot, Live(i)' PROVE Served(i)'
    <3>1. Live(i) /\ Served(i)
      BY <2>3, <2>4 DEF LibInv, Live
    <3> QED
      BY <1>2, <2>3, <3>1 DEF Served
  <2> QED
    BY <1>4, <2>2, <2>3, <2>4 DEF LibInv, RecvNeverPanics
<1> QED
  BY <1>1, <1>5, <1>6

(* The trap of ipc_recv: it cannot find env_ipc_recving set.               *)
LEMMA TrapRecvLib ==
  ASSUME LibInv, TrapRecv
  PROVE  LibInv'
<1>1. /\ Runs /\ pc[curenv] = "can_recv" /\ Goto("yield_recv") /\ out' = out
      /\ _ipc_can_recv \/ env_ipc_recving[curenv] # 0
  BY DEF TrapRecv, At
<1>2. /\ curenv \in Slot /\ Live(curenv) /\ pc' \in [Slot -> Pcs]
      /\ \A i \in Slot : pc'[i] = IF i = curenv THEN "yield_recv" ELSE pc[i]
      /\ env_ipc_recving[curenv] = 0 /\ _ipc_can_recv
  BY <1>1, GotoType, RunsFacts DEF LibInv, Pcs, Served
<1>3. /\ env_ipc_recving' = [env_ipc_recving EXCEPT ![curenv] = 1]
      /\ env_status' = [env_status EXCEPT ![curenv] = "NOT_RUNNABLE"]
      /\ UNCHANGED <<curenv, kernel>>
  BY <1>2 DEF _ipc_can_recv, runVars
<1>4. Inv'
  BY <1>2, ReceiveInv DEF LibInv
<1>5. ASSUME NEW i \in Slot, Live(i)' PROVE Served(i)'
  <2>1. Live(i) /\ Served(i)
    BY <1>2, <1>3, <1>5 DEF LibInv, Live, Inv, TypeOK
  <2> QED
    BY <1>2, <1>3, <2>1 DEF Served, LibInv, Inv, TypeOK
<1>6. UserTypeOK'
  BY <1>1, <1>2 DEF LibInv, UserTypeOK
<1> QED
  BY <1>3, <1>4, <1>5, <1>6 DEF LibInv, RecvNeverPanics

(* The yields of both loops, and the timer.                                *)
LEMMA SwitchStepsLib ==
  ASSUME LibInv, Timer \/ YieldSend \/ YieldRecv
  PROVE  LibInv'
<1>1. /\ kernel = "running" /\ Schedule(env_status, curenv) /\ UNCHANGED envVars
      /\ out' = out
  BY DEF Timer, YieldSend, YieldRecv, irq_handler, _sched_yield, Runs, userVars
<1>2. Inv'
  BY <1>1, RescheduleInv DEF LibInv
<1>3. CASE Timer
  <2>1. UserTypeOK' /\ pc' = pc
    BY <1>3 DEF Timer, userVars, LibInv, UserTypeOK
  <2> QED
    BY <1>1, <1>2, <2>1, SwitchLib
<1>4. ASSUME NEW from \in {"yield_send", "yield_recv"}, NEW l \in {"can_send", "got"},
             At(from), Goto(l), from = "yield_send" \/ l = "got"
      PROVE  LibInv'
  <2>1. /\ curenv \in Slot /\ pc' \in [Slot -> Pcs] /\ pc[curenv] = from
        /\ \A i \in Slot : pc'[i] = IF i = curenv THEN l ELSE pc[i]
    BY <1>4, GotoType DEF At, Pcs
  <2>2. UserTypeOK'
    BY <1>1, <2>1 DEF LibInv, UserTypeOK
  <2> QED
    BY <1>1, <1>2, <1>4, <2>1, <2>2, SwitchLib
<1> QED
  BY <1>3, <1>4 DEF YieldSend, YieldRecv

(* What happens in the program alone.                                      *)
LEMMA MoveStepsLib ==
  ASSUME LibInv,
         \/ SendRetry \/ SendReturn \/ RecvReturn \/ ipc_recv
         \/ \E to \in EnvId, v \in Value : ipc_send(to, v)
  PROVE  LibInv'
<1>1. ASSUME NEW from \in {"user", "sent", "got"}, NEW l \in Pcs, At(from), Goto(l),
             UNCHANGED vars, out' \in [Slot -> [to : EnvId, value : Value]]
      PROVE  LibInv'
  <2>1. /\ curenv \in Slot /\ Live(curenv) /\ pc' \in [Slot -> Pcs] /\ pc[curenv] = from
        /\ \A i \in Slot : pc'[i] = IF i = curenv THEN l ELSE pc[i]
    BY <1>1, GotoType, RunsFacts DEF At, LibInv
  <2>2. env_ipc_recving[curenv] = 0
    BY <1>1, <2>1 DEF At, Runs, LibInv, Served
  <2>3. UserTypeOK'
    BY <1>1, <2>1 DEF UserTypeOK
  <2> QED
    BY <1>1, <2>1, <2>2, <2>3, MoveLib
<1>2. out \in [Slot -> [to : EnvId, value : Value]]
  BY DEF LibInv, UserTypeOK
<1>3. CASE SendRetry \/ SendReturn \/ RecvReturn \/ ipc_recv
  BY <1>1, <1>2, <1>3 DEF SendRetry, SendReturn, RecvReturn, ipc_recv, Pcs
<1>4. ASSUME NEW to \in EnvId, NEW v \in Value, ipc_send(to, v)
      PROVE  LibInv'
  <2>1. out' \in [Slot -> [to : EnvId, value : Value]]
    BY <1>2, <1>4 DEF ipc_send
  <2> QED
    BY <1>1, <1>4, <2>1 DEF ipc_send, Pcs
<1> QED
  BY <1>3, <1>4

(* The child starts outside the library, and nobody waits in its slot.     *)
LEMMA ForkLib ==
  ASSUME LibInv, fork
  PROVE  LibInv'
<1> DEFINE e == Head(env_free_list)
<1>1. /\ Runs /\ pc[curenv] = "user" /\ env_free_list # <<>> /\ _fork
      /\ pc' = [pc EXCEPT ![e] = "user"]
      /\ out' = [out EXCEPT ![e] = out[curenv]]
      /\ env_status' = [env_status EXCEPT ![e] = "RUNNABLE"]
      /\ env_ipc_recving' = [env_ipc_recving EXCEPT ![e] = 0]
      /\ UNCHANGED <<curenv, kernel>>
  BY DEF fork, At, _fork
<1>2. Inv'
  BY <1>1, ForkInv DEF LibInv
<1>3. /\ curenv \in Slot /\ Live(curenv)
      /\ e \in Slot /\ ~Live(e) /\ e # curenv
  <2>1. /\ env_free_list \in Seq(Slot) /\ NoDup(env_free_list)
        /\ \A i \in Slot : ~Live(i) <=> i \in Elems(env_free_list)
    BY ListFacts DEF ListInv, TypeOK, LibInv, Inv
  <2>2. e \in Slot /\ e \in Elems(env_free_list)
    BY ONLY <1>1, <2>1, PopElems
  <2> QED
    BY <1>1, <2>1, <2>2, RunsFacts DEF LibInv
<1> HIDE DEF e
<1>4. UserTypeOK'
  BY <1>1, <1>3 DEF LibInv, UserTypeOK, Pcs
<1>5. ASSUME NEW i \in Slot, Live(i)' PROVE Served(i)'
  <2>1. CASE i = e
    BY <1>1, <1>3, <2>1 DEF Served, LibInv, Inv, TypeOK
  <2>2. CASE i # e
    <3>1. env_status'[i] = env_status[i] /\ pc'[i] = pc[i]
          /\ env_ipc_recving'[i] = env_ipc_recving[i]
      BY <1>1, <1>3, <2>2 DEF LibInv, Inv, TypeOK, UserTypeOK
    <3> QED
      BY <1>1, <1>5, <3>1 DEF LibInv, Served, Live
  <2> QED
    BY <2>1, <2>2
<1> QED
  BY <1>1, <1>2, <1>4, <1>5 DEF LibInv, RecvNeverPanics

(* A program exits, and the scheduler takes another one.                   *)
LEMMA ExitLib ==
  ASSUME LibInv, exit
  PROVE  LibInv'
<1>1. /\ Runs /\ DestroySelf(env_id[curenv]) /\ pc' = pc /\ out' = out
      /\ env_status' = [env_status EXCEPT ![curenv] = "FREE"]
      /\ Schedule(env_status', NoEnv)
  BY DEF exit, At, userVars, DestroySelf
<1>2. curenv \in Slot /\ kernel = "running" /\ env_id[curenv] \in EnvId
  BY <1>1, RunsFacts DEF LibInv, Inv, TypeOK
<1>3. Inv'
  BY <1>1, <1>2, DestroySelfInv DEF LibInv
<1>4. \A i \in Slot : env_status'[i] # "FREE" =>
         i # curenv /\ env_status'[i] = env_status[i]
  BY <1>1, <1>2 DEF LibInv, Inv, TypeOK
<1>5. /\ kernel' = "running" => env_ipc_recving'[curenv'] = 0
      /\ kernel' # "panic"
      /\ \A i \in Slot : env_ipc_recving[i] = 0 => env_ipc_recving'[i] = 0
  BY <1>1, <1>2, <1>4, SwitchServes DEF LibInv
<1>6. ASSUME NEW i \in Slot, Live(i)' PROVE Served(i)'
  <2>1. Live(i) /\ Served(i)
    BY <1>4, <1>6 DEF LibInv, Live
  <2> QED
    BY <1>1, <1>5, <2>1 DEF Served
<1> QED
  BY <1>1, <1>3, <1>5, <1>6 DEF LibInv, RecvNeverPanics, UserTypeOK

(* Every step of the library keeps the invariant.                          *)
LEMMA LibStepInv ==
  ASSUME LibInv,
         \/ Timer \/ LibStep \/ ipc_recv \/ fork \/ exit
         \/ \E to \in EnvId, v \in Value : ipc_send(to, v)
  PROVE  LibInv'
BY TrapSendLib, TrapRecvLib, SwitchStepsLib, MoveStepsLib, ForkLib, ExitLib DEF LibStep

(* Whatever the programs do with ipc_send, ipc_recv, fork and              *)
(* env_destroy, and wherever the timer cuts in, ipc_can_recv never finds   *)
(* its caller receiving already: "already recving!" is for programs that   *)
(* call it themselves.                                                     *)
THEOREM RecvNeverPanicsCorrect == LibSpec => []RecvNeverPanics
<1>1. LibInit => LibInv
  BY LibInitInv
<1>2. LibInv /\ [LibNext]_allVars => LibInv'
  <2> SUFFICES ASSUME LibInv, [LibNext]_allVars PROVE LibInv'
    OBVIOUS
  <2>1. CASE LibNext
    BY <2>1, LibStepInv, KnownFacts DEF LibNext
  <2>2. CASE UNCHANGED allVars
    <3>1. UNCHANGED vars /\ UNCHANGED <<pc, out>>
      BY <2>2 DEF allVars, userVars
    <3>2. UserTypeOK'
      BY <3>1 DEF LibInv, UserTypeOK
    <3> QED
      BY <3>1, <3>2, MoveLib
  <2> QED
    BY <2>1, <2>2
<1>3. LibInv => RecvNeverPanics
  BY DEF LibInv
<1> QED
  BY <1>1, <1>2, <1>3, PTL DEF LibSpec

-----------------------------------------------------------------------------
(* The library implements Rendezvous.                                      *)

(* What holds of the library as long as names are unique.                  *)
MeetInv == LibInv /\ NameInv

(* What Party says, case by case.                                          *)
PartyTable ==
  \A i \in Slot :
    /\ ~Live(i) => Party(i) = [at |-> "absent"]
    /\ Live(i) /\ pc[i] = "user" => Party(i) = [at |-> "idle"]
    /\ Live(i) /\ Sends(i) =>
         Party(i) = [at |-> "sending", to |-> out[i].to, value |-> out[i].value]
    /\ Live(i) /\ pc[i] = "sent" /\ ~Sends(i) =>
         Party(i) = [at |-> "answered", ret |-> Result(i)]
    /\ Live(i) /\ Waits(i) => Party(i) = [at |-> "receiving"]
    /\ Live(i) /\ pc[i] \in {"yield_recv", "got"} /\ ~Waits(i) =>
         Party(i) = [at |-> "received", from |-> Arrived(i).from,
                                        value |-> Arrived(i).value]

(* It says so.                                                             *)
LEMMA PartyIs == PartyTable
<1> SUFFICES ASSUME NEW i \in Slot
             PROVE  PartyTable!(i)
  BY DEF PartyTable
<1>1. Live(i) /\ Sends(i) => pc[i] \in {"can_send", "yield_send", "sent"}
  BY DEF Sends
<1>2. Live(i) /\ Waits(i) => pc[i] \in {"can_recv", "yield_recv", "got"}
  BY DEF Waits
<1> QED BY <1>1, <1>2 DEF Party

(* The same of the next state.                                             *)
LEMMA PartyIsNext == PartyTable'
BY PartyIs, PTL

(* The result a program finds is its own.                                  *)
LEMMA ResultIs ==
  ASSUME Inv, NEW i \in Slot, Live(i)
  PROVE  Result(i) = view[i]
BY DEF Inv, RegistersPrivate, Result

(* What the party of i depends on.                                         *)
LEMMA PartySame ==
  ASSUME LibInv, LibInv', NEW i \in Slot, Live(i)' <=> Live(i),
         Live(i) => /\ pc'[i] = pc[i] /\ out'[i] = out[i] /\ view'[i] = view[i]
                    /\ env_ipc_recving'[i] = 1 <=> env_ipc_recving[i] = 1
                    /\ pc[i] \in {"yield_recv", "got"} /\ env_ipc_recving[i] # 1 =>
                         Arrived(i)' = Arrived(i)
  PROVE  Party(i)' = Party(i)
<1>1. CASE ~Live(i)
  BY <1>1, PartyIs, PartyIsNext DEF PartyTable
<1>2. CASE Live(i)
  <2>1. Live(i)' /\ Result(i)' = Result(i)
    BY <1>2 DEF LibInv, Inv, RegistersPrivate, Result
  <2>2. (Sends(i)' <=> Sends(i)) /\ (Waits(i)' <=> Waits(i))
    BY <1>2, <2>1 DEF Sends, Waits
  <2>3. pc[i] \in Pcs
    BY DEF LibInv, UserTypeOK
  <2>4. \/ pc[i] = "user" \/ Sends(i) \/ Waits(i)
        \/ pc[i] = "sent" /\ ~Sends(i)
        \/ pc[i] \in {"yield_recv", "got"} /\ ~Waits(i)
    BY <2>3 DEF Pcs, Sends, Waits
  <2>5. CASE pc[i] = "user"
    BY <1>2, <2>1, <2>5, PartyIs, PartyIsNext DEF PartyTable
  <2>6. CASE Sends(i)
    BY <1>2, <2>1, <2>2, <2>6, PartyIs, PartyIsNext DEF PartyTable
  <2>7. CASE Waits(i)
    BY <1>2, <2>1, <2>2, <2>7, PartyIs, PartyIsNext DEF PartyTable
  <2>8. CASE pc[i] = "sent" /\ ~Sends(i)
    BY <1>2, <2>1, <2>2, <2>8, PartyIs, PartyIsNext DEF PartyTable
  <2>9. CASE pc[i] \in {"yield_recv", "got"} /\ ~Waits(i)
    <3>1. Arrived(i)' = Arrived(i)
      BY <1>2, <2>9 DEF Waits
    <3> QED BY <1>2, <2>1, <2>2, <2>9, <3>1, PartyIs, PartyIsNext DEF PartyTable
  <2> QED BY <2>4, <2>5, <2>6, <2>7, <2>8, <2>9
<1> QED BY <1>1, <1>2

(* A step in which one party becomes p, and nobody comes or goes.          *)
LEMMA OneBecomes ==
  ASSUME NEW c \in Slot, NEW p, UNCHANGED env_id,
         \A i \in Slot : Live(i)' <=> Live(i),
         \A i \in Slot \ {c} : Party(i)' = Party(i),
         Party(c)' = p
  PROVE  R!Becomes(c, p) /\ PartyNow[c] = Party(c)
<1>1. NameNow' = NameNow
  BY DEF NameNow, Live
<1>2. PartyNow' = [PartyNow EXCEPT ![c] = p]
  BY DEF PartyNow
<1> QED BY <1>1, <1>2 DEF R!Becomes, PartyNow

(* A step that nobody sees.                                                *)
LEMMA NoneBecomes ==
  ASSUME UNCHANGED env_id,
         \A i \in Slot : Live(i)' <=> Live(i),
         \A i \in Slot : Party(i)' = Party(i)
  PROVE  UNCHANGED R!vars
<1>1. NameNow' = NameNow
  BY DEF NameNow, Live
<1>2. PartyNow' = PartyNow
  BY DEF PartyNow
<1> QED BY <1>1, <1>2 DEF R!vars

(* A step of the caller's program alone, which goes to l.                  *)
LEMMA MoveParty ==
  ASSUME LibInv, LibInv', UNCHANGED vars, NEW l \in Pcs, Runs, Goto(l),
         NEW c \in Slot, c = curenv,
         \A i \in Slot \ {c} : out'[i] = out[i]
  PROVE  /\ Live(c) /\ Live(c)' /\ pc'[c] = l /\ UNCHANGED env_id
         /\ \A i \in Slot : Live(i)' <=> Live(i)
         /\ \A i \in Slot \ {c} : Party(i)' = Party(i)
         /\ Result(c)' = Result(c) /\ Arrived(c)' = Arrived(c) /\ frame = Result(c)
         /\ env_ipc_recving' = env_ipc_recving
<1>1. UNCHANGED <<env_status, env_id, env_ipc_recving, env_ipc, mail, view, env_tf, frame, curenv>>
  BY DEF vars, envVars, ipcVars, runVars
<1>2. /\ Live(c)
      /\ \A i \in Slot : pc'[i] = IF i = c THEN l ELSE pc[i]
  BY RunsFacts, GotoType DEF LibInv
<1>3. \A i \in Slot : (Live(i)' <=> Live(i)) /\ Arrived(i)' = Arrived(i)
  BY <1>1 DEF Live, Arrived
<1>4. ASSUME NEW i \in Slot \ {c} PROVE Party(i)' = Party(i)
  BY <1>1, <1>2, <1>3, PartySame
<1>5. Result(c)' = Result(c) /\ frame = Result(c)
  BY <1>1 DEF Result
<1> QED BY <1>1, <1>2, <1>3, <1>4, <1>5

-----------------------------------------------------------------------------
(* ipc_send is called.                                                     *)
LEMMA CallSendMeets ==
  ASSUME LibInv, LibInv', NEW c \in Slot, c = curenv,
         NEW to \in EnvId, NEW v \in Value, ipc_send(to, v)
  PROVE  R!CallSend(c, to, v)
<1>1. /\ Runs /\ pc[c] = "user" /\ Goto("can_send") /\ UNCHANGED vars
      /\ out' = [out EXCEPT ![c] = [to |-> to, value |-> v]]
  BY DEF ipc_send, At
<1>2. /\ \A i \in Slot \ {c} : out'[i] = out[i]
      /\ out'[c] = [to |-> to, value |-> v]
  BY <1>1 DEF LibInv, UserTypeOK
<1>3. /\ Live(c) /\ Live(c)' /\ pc'[c] = "can_send" /\ UNCHANGED env_id
      /\ \A i \in Slot : Live(i)' <=> Live(i)
      /\ \A i \in Slot \ {c} : Party(i)' = Party(i)
  BY <1>1, <1>2, MoveParty DEF Pcs
<1>4. Party(c) = [at |-> "idle"]
  BY <1>1, <1>3, PartyIs DEF PartyTable
<1>5. Sends(c)'
  BY <1>3 DEF Sends
<1>6. Party(c)' = [at |-> "sending", to |-> to, value |-> v]
  BY <1>2, <1>3, <1>5, PartyIsNext DEF PartyTable
<1> QED BY <1>3, <1>4, <1>6, OneBecomes DEF R!CallSend, R!Idle, R!Sending

(* ipc_recv is called.                                                     *)
LEMMA CallRecvMeets ==
  ASSUME LibInv, LibInv', NEW c \in Slot, c = curenv, ipc_recv
  PROVE  R!CallRecv(c)
<1>1. /\ Runs /\ pc[c] = "user" /\ Goto("can_recv") /\ UNCHANGED vars /\ out' = out
  BY DEF ipc_recv, At
<1>2. /\ Live(c) /\ Live(c)' /\ pc'[c] = "can_recv" /\ UNCHANGED env_id
      /\ \A i \in Slot : Live(i)' <=> Live(i)
      /\ \A i \in Slot \ {c} : Party(i)' = Party(i)
  BY <1>1, MoveParty DEF Pcs
<1>3. Party(c) = [at |-> "idle"]
  BY <1>1, <1>2, PartyIs DEF PartyTable
<1>4. Waits(c)'
  BY <1>2 DEF Waits
<1>5. Party(c)' = [at |-> "receiving"]
  BY <1>2, <1>4, PartyIsNext DEF PartyTable
<1> QED BY <1>2, <1>3, <1>5, OneBecomes DEF R!CallRecv, R!Idle, R!Receiving

(* The loop of ipc_send goes round: still sending.                         *)
LEMMA SendRetryMeets ==
  ASSUME LibInv, LibInv', NEW c \in Slot, c = curenv, SendRetry
  PROVE  UNCHANGED R!vars
<1>1. /\ Runs /\ pc[c] = "sent" /\ frame = E_IPC_NOT_RECV
      /\ Goto("yield_send") /\ UNCHANGED vars /\ out' = out
  BY DEF SendRetry, At
<1>2. /\ Live(c) /\ Live(c)' /\ pc'[c] = "yield_send" /\ UNCHANGED env_id
      /\ \A i \in Slot : Live(i)' <=> Live(i)
      /\ \A i \in Slot \ {c} : Party(i)' = Party(i)
      /\ frame = Result(c)
  BY <1>1, MoveParty DEF Pcs
<1>3. Sends(c) /\ Sends(c)'
  BY <1>1, <1>2 DEF Sends
<1>4. Party(c)' = Party(c)
  BY <1>1, <1>2, <1>3, PartyIs, PartyIsNext DEF PartyTable
<1>5. \A i \in Slot : Party(i)' = Party(i)
  BY <1>2, <1>4
<1> QED BY <1>2, <1>5, NoneBecomes

(* ipc_send returns its answer, ipc_recv what has arrived.                 *)
LEMMA ReturnMeets ==
  ASSUME LibInv, LibInv', NEW c \in Slot, c = curenv, SendReturn \/ RecvReturn
  PROVE  R!Return(c)
<1>1. /\ Runs /\ Goto("user") /\ UNCHANGED vars /\ out' = out
  BY DEF SendReturn, RecvReturn, At
<1>2. /\ Live(c) /\ Live(c)' /\ pc'[c] = "user" /\ UNCHANGED env_id
      /\ \A i \in Slot : Live(i)' <=> Live(i)
      /\ \A i \in Slot \ {c} : Party(i)' = Party(i)
      /\ frame = Result(c)
  BY <1>1, MoveParty DEF Pcs
<1>3. Party(c)' = [at |-> "idle"]
  BY <1>2, PartyIsNext DEF PartyTable
<1>4. Party(c).at \in {"answered", "received"}
  <2>1. CASE SendReturn
    <3>1. pc[c] = "sent" /\ ~Sends(c)
      BY <1>2, <2>1 DEF SendReturn, At, Sends
    <3> QED BY <1>2, <3>1, PartyIs DEF PartyTable
  <2>2. CASE RecvReturn
    <3>1. pc[c] = "got" /\ env_ipc_recving[c] # 1
      BY <1>1, <1>2, <2>2 DEF RecvReturn, At, LibInv, Served, Runs
    <3>2. ~Waits(c)
      BY <3>1 DEF Waits
    <3> QED BY <1>2, <3>1, <3>2, PartyIs DEF PartyTable
  <2> QED BY <2>1, <2>2
<1>5. R!Becomes(c, [at |-> "idle"]) /\ PartyNow[c] = Party(c)
  BY <1>2, <1>3, OneBecomes
<1> QED BY <1>4, <1>5 DEF R!Return, R!Idle

-----------------------------------------------------------------------------
(* What the scheduler does to messages: the next program's own reaches its *)
(* memory, and that is all.                                                *)
LEMMA HandOver ==
  ASSUME Inv, NEW status, NEW old \in Slot \cup {NoEnv}, Schedule(status, old)
  PROVE  /\ view' = view
         /\ \A i \in Slot :
              /\ env_ipc_recving'[i] = 1 <=> env_ipc_recving[i] = 1
              /\ env_ipc_recving[i] # 1 => Arrived(i)' = Arrived(i)
<1>1. TypeOK
  BY DEF Inv
<1>2. CASE UNCHANGED <<view, env_ipc_recving, env_ipc, mail>>
  BY <1>2 DEF Arrived
<1>3. ASSUME NEW e \in Slot, env_run(e, old), view' = view
      PROVE  \A i \in Slot :
               /\ env_ipc_recving'[i] = 1 <=> env_ipc_recving[i] = 1
               /\ env_ipc_recving[i] # 1 => Arrived(i)' = Arrived(i)
  <2>1. /\ env_ipc' = env_ipc
        /\ \/ /\ env_ipc_recving[e] = 2
              /\ env_ipc_recving' = [env_ipc_recving EXCEPT ![e] = 0]
              /\ mail' = [mail EXCEPT ![e] = env_ipc[e]]
           \/ /\ env_ipc_recving[e] # 2
              /\ env_ipc_recving' = env_ipc_recving /\ mail' = mail
    BY <1>3 DEF env_run
  <2>2. env_ipc_recving \in [Slot -> 0..2] /\ mail \in [Slot -> Mail \cup {NoMail}]
    BY <1>1 DEF TypeOK
  <2> SUFFICES ASSUME NEW i \in Slot
               PROVE  /\ env_ipc_recving'[i] = 1 <=> env_ipc_recving[i] = 1
                      /\ env_ipc_recving[i] # 1 => Arrived(i)' = Arrived(i)
    OBVIOUS
  <2>3. CASE i = e /\ env_ipc_recving[e] = 2
    <3>1. env_ipc_recving'[i] = 0 /\ mail'[i] = env_ipc[i]
      BY <2>1, <2>2, <2>3
    <3> QED BY <2>3, <3>1 DEF Arrived
  <2>4. CASE ~(i = e /\ env_ipc_recving[e] = 2)
    <3>1. env_ipc_recving'[i] = env_ipc_recving[i] /\ mail'[i] = mail[i]
      BY <2>1, <2>2, <2>4
    <3> QED BY <2>1, <3>1 DEF Arrived
  <2> QED BY <2>3, <2>4
<1> QED
  BY <1>1, <1>2, <1>3, ScheduleSteps

(* The timer and the yields of both loops: nobody's party changes.         *)
LEMMA SwitchMeets ==
  ASSUME LibInv, LibInv', Timer \/ YieldSend \/ YieldRecv
  PROVE  UNCHANGED R!vars
<1>1. /\ Schedule(env_status, curenv) /\ UNCHANGED envVars /\ out' = out
      /\ curenv \in Slot \cup {NoEnv}
  BY DEF Timer, YieldSend, YieldRecv, irq_handler, _sched_yield, userVars, LibInv, Inv, TypeOK
<1>2. /\ UNCHANGED <<env_status, env_id>> /\ view' = view
      /\ \A i \in Slot :
           /\ env_ipc_recving'[i] = 1 <=> env_ipc_recving[i] = 1
           /\ env_ipc_recving[i] # 1 => Arrived(i)' = Arrived(i)
  BY <1>1, HandOver DEF envVars, LibInv
<1>3. \A i \in Slot : Live(i)' <=> Live(i)
  BY <1>2 DEF Live
<1>4. ASSUME NEW i \in Slot, pc'[i] = pc[i] PROVE Party(i)' = Party(i)
  BY <1>1, <1>2, <1>3, <1>4, PartySame
<1>5. CASE Timer
  <2>1. \A i \in Slot : Party(i)' = Party(i)
    BY <1>4, <1>5 DEF Timer, userVars
  <2> QED BY <1>2, <1>3, <2>1, NoneBecomes
<1>6. CASE YieldSend \/ YieldRecv
  <2>1. PICK c \in Slot : c = curenv /\ Live(c)
    BY <1>6, RunsFacts DEF YieldSend, YieldRecv, At, LibInv
  <2>2. CASE YieldSend
    <3>1. pc[c] = "yield_send" /\ \A i \in Slot : pc'[i] = IF i = c THEN "can_send" ELSE pc[i]
      BY <2>1, <2>2, GotoType DEF YieldSend, At, Pcs
    <3>2. Sends(c) /\ Sends(c)'
      BY <3>1 DEF Sends
    <3>3. Party(c)' = Party(c)
      BY <1>1, <1>3, <2>1, <3>2, PartyIs, PartyIsNext DEF PartyTable
    <3>4. \A i \in Slot : Party(i)' = Party(i)
      BY <1>4, <3>1, <3>3
    <3> QED BY <1>2, <1>3, <3>4, NoneBecomes
  <2>3. CASE YieldRecv
    <3>1. pc[c] = "yield_recv" /\ \A i \in Slot : pc'[i] = IF i = c THEN "got" ELSE pc[i]
      BY <2>1, <2>3, GotoType DEF YieldRecv, At, Pcs
    <3>2. Waits(c)' <=> Waits(c)
      BY <1>2, <3>1 DEF Waits
    <3>3. ~Waits(c) => Arrived(c)' = Arrived(c)
      BY <1>2, <3>1 DEF Waits
    <3>4. Party(c)' = Party(c)
      BY <1>3, <2>1, <3>1, <3>2, <3>3, PartyIs, PartyIsNext DEF PartyTable
    <3>5. \A i \in Slot : Party(i)' = Party(i)
      BY <1>4, <3>1, <3>4
    <3> QED BY <1>2, <1>3, <3>5, NoneBecomes
  <2> QED BY <1>6, <2>2, <2>3
<1> QED BY <1>5, <1>6

-----------------------------------------------------------------------------
(* ipc_can_recv: the receiver goes on waiting.                             *)
LEMMA TrapRecvMeets ==
  ASSUME LibInv, LibInv', TrapRecv
  PROVE  UNCHANGED R!vars
<1>1. PICK c \in Slot : c = curenv /\ Live(c)
  BY RunsFacts DEF TrapRecv, At, LibInv
<1>2. /\ Runs /\ pc[c] = "can_recv" /\ out' = out
      /\ _ipc_can_recv \/ env_ipc_recving[c] # 0
      /\ \A i \in Slot : pc'[i] = IF i = c THEN "yield_recv" ELSE pc[i]
  BY <1>1, GotoType DEF TrapRecv, At, Pcs
<1>3. /\ env_ipc_recving' = [env_ipc_recving EXCEPT ![c] = 1]
      /\ env_status' = [env_status EXCEPT ![c] = "NOT_RUNNABLE"]
      /\ UNCHANGED <<env_id, env_ipc, mail, view>>
  <2>1. _ipc_can_recv
    BY <1>1, <1>2 DEF LibInv, Served
  <2> QED BY <1>1, <2>1 DEF _ipc_can_recv, runVars
<1>4. /\ \A i \in Slot : env_ipc_recving'[i] = IF i = c THEN 1 ELSE env_ipc_recving[i]
      /\ \A i \in Slot : Live(i)' <=> Live(i)
  BY <1>1, <1>3 DEF LibInv, Inv, TypeOK, Live
<1>5. ASSUME NEW i \in Slot \ {c} PROVE Party(i)' = Party(i)
  BY <1>2, <1>3, <1>4, PartySame DEF Arrived
<1>6. Waits(c) /\ Waits(c)'
  BY <1>2, <1>4 DEF Waits
<1>7. Party(c)' = Party(c)
  BY <1>1, <1>4, <1>6, PartyIs, PartyIsNext DEF PartyTable
<1>8. \A i \in Slot : Party(i)' = Party(i)
  BY <1>5, <1>7
<1> QED BY <1>3, <1>4, <1>8, NoneBecomes

(* ipc_can_send finds nobody, or nobody who waits.                         *)
LEMMA RefusedMeets ==
  ASSUME MeetInv, LibInv', TrapSend, NEW c \in Slot, c = curenv, SendRefused(out[c].to)
  PROVE  UNCHANGED R!vars \/ R!Refuse(c)
<1> DEFINE to == out[c].to
<1>1. /\ Runs /\ Live(c) /\ pc[c] = "can_send" /\ out' = out /\ LibInv
      /\ \A i \in Slot : pc'[i] = IF i = c THEN "sent" ELSE pc[i]
  BY RunsFacts, GotoType DEF TrapSend, At, Pcs, LibInv, MeetInv
<1>2. PICK ret \in Reg :
        /\ view' = [view EXCEPT ![c] = ret]
        /\ UNCHANGED <<env_status, env_id, env_ipc_recving, env_ipc, mail>>
        /\ \/ ret = E_IPC_NOT_RECV
           \/ ret = E_BAD_ENV /\ envid2env(to) = NoEnv
  <2>1. \/ SendAnswers(E_IPC_NOT_RECV)
        \/ SendAnswers(E_BAD_ENV) /\ envid2env(to) = NoEnv
    BY DEF SendRefused
  <2>2. E_IPC_NOT_RECV \in Reg /\ E_BAD_ENV \in Reg
    BY DEF Reg
  <2> QED BY <2>1, <2>2 DEF SendAnswers, sys_return, envVars, ipcVars
<1>3. \A i \in Slot : view'[i] = IF i = c THEN ret ELSE view[i]
  BY <1>1, <1>2 DEF LibInv, Inv, TypeOK
<1>4. \A i \in Slot : Live(i)' <=> Live(i)
  BY <1>2 DEF Live
<1>5. ASSUME NEW i \in Slot \ {c} PROVE Party(i)' = Party(i)
  BY <1>1, <1>2, <1>3, <1>4, PartySame DEF Arrived
<1>6. Result(c)' = ret
  BY <1>1, <1>3, <1>4 DEF LibInv, Inv, RegistersPrivate, Result
<1>7. Party(c) = [at |-> "sending", to |-> to, value |-> out[c].value]
  <2>1. Sends(c)
    BY <1>1 DEF Sends
  <2> QED BY <1>1, <2>1, PartyIs DEF PartyTable
<1>8. CASE ret = E_IPC_NOT_RECV
  <2>1. Sends(c)'
    BY <1>1, <1>6, <1>8 DEF Sends
  <2>2. Party(c)' = Party(c)
    BY <1>1, <1>4, <1>7, <2>1, PartyIsNext DEF PartyTable
  <2>3. \A i \in Slot : Party(i)' = Party(i)
    BY <1>5, <2>2
  <2> QED BY <1>2, <1>4, <2>3, NoneBecomes
<1>9. CASE ret = E_BAD_ENV /\ envid2env(to) = NoEnv
  <2>1. ~Sends(c)' /\ pc'[c] = "sent"
    BY <1>1, <1>6, <1>9 DEF Sends, E_BAD_ENV, E_IPC_NOT_RECV
  <2>2. Party(c)' = [at |-> "answered", ret |-> E_BAD_ENV]
    BY <1>1, <1>4, <1>6, <1>9, <2>1, PartyIsNext DEF PartyTable
  <2>3. to # 0 /\ NoEnv \notin Slot
    BY <1>9, ConstFacts DEF envid2env
  <2>4. ASSUME NEW j \in Slot PROVE NameNow[j] # to
    <3>1. CASE ~Live(j)
      BY <2>3, <3>1 DEF NameNow
    <3>2. CASE Live(j)
      <4>1. ENVX(env_id[j]) = j
        BY <3>2, NameArith DEF MeetInv, NameInv
      <4>2. env_id[j] # to
        BY <1>9, <2>3, <3>2, <4>1 DEF envid2env
      <4> QED BY <3>2, <4>2 DEF NameNow
    <3> QED BY <3>1, <3>2
  <2>5. R!Becomes(c, [at |-> "answered", ret |-> E_BAD_ENV]) /\ PartyNow[c] = Party(c)
    BY <1>2, <1>4, <1>5, <2>2, OneBecomes
  <2> HIDE DEF to
  <2> QED BY <1>7, <2>4, <2>5 DEF R!Refuse, R!Answered
<1> QED BY <1>2, <1>8, <1>9

(* ipc_can_send finds its receiver waiting: the message is passed.         *)
LEMMA AcceptedMeets ==
  ASSUME MeetInv, LibInv', TrapSend, NEW c \in Slot, c = curenv,
         SendAccepted(out[c].to, out[c].value)
  PROVE  \E r \in Slot : R!Transfer(c, r)
<1>1. /\ Runs /\ Live(c) /\ pc[c] = "can_send" /\ out' = out /\ LibInv
      /\ \A i \in Slot : pc'[i] = IF i = c THEN "sent" ELSE pc[i]
      /\ env_ipc_recving[c] = 0
  BY RunsFacts, GotoType DEF TrapSend, At, Pcs, LibInv, MeetInv, Served
<1>2. PICK to \in EnvId, v \in Value : to = out[c].to /\ v = out[c].value
  BY <1>1 DEF LibInv, UserTypeOK
<1>3. PICK e \in Slot : e = envid2env(to) /\ Live(e)
  BY <1>1, <1>2, FoundFacts DEF SendAccepted, LibInv
<1>4. /\ env_ipc_recving[e] = 1
      /\ env_ipc_recving' = [env_ipc_recving EXCEPT ![e] = 2]
      /\ env_ipc' = [env_ipc EXCEPT ![e] = [from |-> env_id[c], value |-> v]]
      /\ env_status' = [env_status EXCEPT ![e] = "RUNNABLE"]
      /\ view' = [view EXCEPT ![c] = 0]
      /\ UNCHANGED <<env_id, mail>>
      /\ e # c /\ env_id[e] = to
  BY <1>1, <1>2, <1>3, ConstFacts DEF SendAccepted, sys_return, envid2env
<1>5. /\ \A i \in Slot : env_ipc_recving'[i] = IF i = e THEN 2 ELSE env_ipc_recving[i]
      /\ \A i \in Slot \ {e} : env_ipc'[i] = env_ipc[i]
      /\ env_ipc'[e] = [from |-> env_id[c], value |-> v]
      /\ \A i \in Slot : view'[i] = IF i = c THEN 0 ELSE view[i]
      /\ \A i \in Slot : Live(i)' <=> Live(i)
  BY <1>1, <1>3, <1>4 DEF LibInv, Inv, TypeOK, Live
<1>6. ASSUME NEW i \in Slot \ {c, e} PROVE Party(i)' = Party(i)
  BY <1>1, <1>4, <1>5, PartySame DEF Arrived
<1>7. Party(c) = [at |-> "sending", to |-> to, value |-> v]
  <2>1. Sends(c)
    BY <1>1 DEF Sends
  <2> QED BY <1>1, <1>2, <2>1, PartyIs DEF PartyTable
<1>8. Party(c)' = [at |-> "answered", ret |-> 0]
  <2>1. Result(c)' = 0
    BY <1>1, <1>5 DEF LibInv, Inv, RegistersPrivate, Result
  <2>2. ~Sends(c)' /\ pc'[c] = "sent"
    BY <1>1, <2>1 DEF Sends, E_IPC_NOT_RECV
  <2> QED BY <1>1, <1>5, <2>1, <2>2, PartyIsNext DEF PartyTable
<1>9. pc[e] \in {"yield_recv", "got"} /\ pc'[e] = pc[e]
  BY <1>1, <1>3, <1>4 DEF LibInv, Served
<1>10. Party(e) = [at |-> "receiving"]
  <2>1. Waits(e)
    BY <1>4, <1>9 DEF Waits
  <2> QED BY <1>3, <2>1, PartyIs DEF PartyTable
<1>11. Party(e)' = [at |-> "received", from |-> env_id[c], value |-> v]
  <2>1. ~Waits(e)'
    BY <1>4, <1>5, <1>9 DEF Waits
  <2>2. Arrived(e)' = [from |-> env_id[c], value |-> v]
    BY <1>4, <1>5 DEF Arrived
  <2> QED BY <1>3, <1>5, <1>9, <2>1, <2>2, PartyIsNext DEF PartyTable
<1>12. NameNow' = NameNow /\ NameNow[c] = env_id[c] /\ NameNow[e] = to
  BY <1>1, <1>3, <1>4, <1>5 DEF NameNow
<1>13. PartyNow[c] = Party(c) /\ PartyNow[e] = Party(e)
  BY <1>4 DEF PartyNow
<1>14. PartyNow' = [PartyNow EXCEPT ![c] = [at |-> "answered", ret |-> 0],
                      ![e] = [at |-> "received", from |-> env_id[c], value |-> v]]
  BY <1>4, <1>6, <1>8, <1>11 DEF PartyNow
<1>15. R!Transfer(c, e)
  BY <1>4, <1>7, <1>10, <1>12, <1>13, <1>14
     DEF R!Transfer, R!Receiving, R!Received, R!Answered
<1> QED BY <1>4, <1>15

-----------------------------------------------------------------------------
(* fork: the child has a name nobody has, and is outside the library.      *)
LEMMA ForkMeets ==
  ASSUME MeetInv, LibInv', NameInv', fork
  PROVE  \E i \in Slot, n \in EnvId : R!Start(i, n)
<1>1. PICK c \in Slot : c = curenv /\ Live(c)
  BY RunsFacts DEF fork, At, LibInv, MeetInv
<1>2. env_free_list # <<>> /\ LibInv /\ pc[c] = "user"
  BY <1>1 DEF fork, At, _fork, MeetInv
<1>3. PICK e \in Slot : e = Head(env_free_list) /\ ~Live(e) /\ e # c
  <2>1. /\ env_free_list \in Seq(Slot) /\ NoDup(env_free_list)
        /\ \A i \in Slot : ~Live(i) <=> i \in Elems(env_free_list)
    BY <1>2, ListFacts DEF ListInv, TypeOK, LibInv, Inv
  <2>2. Head(env_free_list) \in Slot /\ Head(env_free_list) \in Elems(env_free_list)
    BY ONLY <1>2, <2>1, PopElems
  <2> QED BY <1>1, <2>1, <2>2
<1>4. PICK n \in EnvId :
        /\ pc' = [pc EXCEPT ![e] = "user"]
        /\ env_id' = [env_id EXCEPT ![e] = n]
        /\ env_status' = [env_status EXCEPT ![e] = "RUNNABLE"]
        /\ env_ipc_recving' = [env_ipc_recving EXCEPT ![e] = 0]
        /\ mail' = [mail EXCEPT ![e] = mail[c]] /\ env_ipc' = env_ipc
        /\ view' = [view EXCEPT ![e] = 0, ![c] = n]
        /\ out' = [out EXCEPT ![e] = out[c]]
  <2>1. mkenvid(e) \in EnvId
    BY <1>2, MkenvidFacts DEF LibInv, Inv
  <2> QED BY <1>1, <1>3, <2>1 DEF fork, At, _fork
<1>5. /\ Live(e)' /\ env_id'[e] = n /\ pc'[e] = "user"
      /\ \A i \in Slot \ {e} :
           /\ Live(i)' <=> Live(i)
           /\ pc'[i] = pc[i] /\ env_id'[i] = env_id[i] /\ mail'[i] = mail[i]
           /\ env_ipc_recving'[i] = env_ipc_recving[i] /\ out'[i] = out[i]
  BY <1>2, <1>3, <1>4 DEF LibInv, UserTypeOK, Inv, TypeOK, Live
<1>6. n # 0 /\ ENVX(n) = e
  BY <1>3, <1>5, NameArith DEF NameInv
<1>7. ASSUME NEW j \in Slot PROVE NameNow[j] # n
  <2>1. CASE ~Live(j)
    BY <1>6, <2>1 DEF NameNow
  <2>2. CASE Live(j)
    <3>1. ENVX(env_id[j]) = j /\ j # e
      BY <1>3, <2>2, NameArith DEF MeetInv, NameInv
    <3>2. env_id[j] # n
      BY <1>6, <3>1
    <3> QED BY <2>2, <3>2 DEF NameNow
  <2> QED BY <2>1, <2>2
<1>8. NameNow[e] = 0 /\ NameNow' = [NameNow EXCEPT ![e] = n]
  BY <1>3, <1>5 DEF NameNow
<1>9. ASSUME NEW i \in Slot \ {e, c} PROVE Party(i)' = Party(i)
  <2>1. view'[i] = view[i]
    BY <1>2, <1>3, <1>4, <1>9 DEF LibInv, Inv, TypeOK
  <2> QED BY <1>2, <1>4, <1>5, <1>9, <2>1, PartySame DEF Arrived
<1>10. Party(c)' = Party(c)
  <2>1. Party(c) = [at |-> "idle"]
    BY <1>1, <1>2, PartyIs DEF PartyTable
  <2>2. Party(c)' = [at |-> "idle"]
    BY <1>1, <1>2, <1>3, <1>5, PartyIsNext DEF PartyTable
  <2> QED BY <2>1, <2>2
<1>11. Party(e)' = [at |-> "idle"]
  BY <1>3, <1>5, PartyIsNext DEF PartyTable
<1>12. PartyNow' = [PartyNow EXCEPT ![e] = [at |-> "idle"]]
  BY <1>3, <1>9, <1>10, <1>11 DEF PartyNow
<1>13. R!Start(e, n)
  BY <1>6, <1>7, <1>8, <1>12 DEF R!Start, R!Idle
<1> QED BY <1>3, <1>4, <1>13

(* env_destroy: its name goes, and the scheduler changes nobody's party.   *)
LEMMA ExitMeets ==
  ASSUME LibInv, LibInv', exit
  PROVE  \E i \in Slot : R!Exit(i)
<1>1. PICK c \in Slot : c = curenv /\ Live(c)
  BY RunsFacts DEF exit, At, LibInv
<1>2. /\ pc[c] = "user" /\ pc' = pc /\ out' = out /\ env_id' = env_id
      /\ env_status' = [env_status EXCEPT ![c] = "FREE"]
      /\ Schedule(env_status', NoEnv)
  BY <1>1 DEF exit, At, userVars, DestroySelf
<1>3. /\ view' = view
      /\ \A i \in Slot :
           /\ env_ipc_recving'[i] = 1 <=> env_ipc_recving[i] = 1
           /\ env_ipc_recving[i] # 1 => Arrived(i)' = Arrived(i)
  BY <1>2, HandOver DEF LibInv
<1>4. /\ ~Live(c)'
      /\ \A i \in Slot \ {c} : Live(i)' <=> Live(i)
  BY <1>2 DEF LibInv, Inv, TypeOK, Live
<1>5. ASSUME NEW i \in Slot \ {c} PROVE Party(i)' = Party(i)
  BY <1>2, <1>3, <1>4, PartySame
<1>6. Party(c) = [at |-> "idle"] /\ Party(c)' = [at |-> "absent"]
  BY <1>1, <1>2, <1>4, PartyIs, PartyIsNext DEF PartyTable
<1>7. PartyNow[c] = [at |-> "idle"] /\ PartyNow' = [PartyNow EXCEPT ![c] = [at |-> "absent"]]
  BY <1>5, <1>6 DEF PartyNow
<1>8. NameNow' = [NameNow EXCEPT ![c] = 0]
  BY <1>2, <1>4 DEF NameNow
<1>9. R!Exit(c)
  BY <1>7, <1>8 DEF R!Exit, R!Idle, R!Absent
<1> QED BY <1>9

-----------------------------------------------------------------------------
(* fork is the only step of the library that makes a name.                 *)
LEMMA LibNames ==
  ASSUME MaxAlloc < Gens, MeetInv, LibNext
  PROVE  NameInv'
<1>1. LibInv /\ Inv /\ NameInv
  BY DEF MeetInv, LibInv
<1>2. CASE fork
  BY <1>1, <1>2, NameStep DEF fork, Next
<1>3. ASSUME UNCHANGED envVars PROVE NameInv'
  BY <1>1, <1>3, NameKept DEF envVars, Live
<1>4. CASE \/ Timer \/ YieldSend \/ YieldRecv \/ SendRetry \/ SendReturn \/ RecvReturn
           \/ ipc_recv \/ \E to \in Known, v \in Value : ipc_send(to, v)
  BY <1>3, <1>4 DEF Timer, YieldSend, YieldRecv, SendRetry, SendReturn, RecvReturn,
                    ipc_recv, ipc_send, irq_handler, _sched_yield, vars
<1>5. CASE TrapRecv
  <2>1. CASE _ipc_can_recv
    BY <1>1, <2>1, NameStep DEF Next
  <2>2. CASE Panic
    BY <1>3, <2>2 DEF Panic
  <2> QED BY <1>5, <2>1, <2>2 DEF TrapRecv
<1>6. CASE exit
  <2>1. UNCHANGED <<env_id, next_env_id>> /\ env_status' = [env_status EXCEPT ![curenv] = "FREE"]
    BY <1>6 DEF exit, DestroySelf
  <2>2. \A i \in Slot : env_status'[i] # "FREE" => Live(i)
    BY <1>1, <2>1 DEF Inv, TypeOK, Live
  <2> QED BY <1>1, <2>1, <2>2, NameKept
<1>7. CASE TrapSend
  <2>1. CASE SendRefused(out[curenv].to)
    BY <1>3, <2>1 DEF SendRefused, SendAnswers
  <2>2. CASE SendAccepted(out[curenv].to, out[curenv].value)
    <3>1. out[curenv].to \in EnvId
      BY <1>1, <1>7, RunsFacts DEF TrapSend, At, LibInv, UserTypeOK
    <3>2. PICK e \in Slot :
            /\ Live(e) /\ env_status' = [env_status EXCEPT ![e] = "RUNNABLE"]
            /\ UNCHANGED <<env_id, next_env_id>>
      BY <1>1, <2>2, <3>1, FoundFacts DEF SendAccepted
    <3>3. \A i \in Slot : env_status'[i] # "FREE" => Live(i)
      BY <1>1, <3>2 DEF Inv, TypeOK, Live
    <3> QED BY <1>1, <3>2, <3>3, NameKept
  <2> QED BY <1>7, <2>1, <2>2 DEF TrapSend
<1> QED BY <1>2, <1>4, <1>5, <1>6, <1>7 DEF LibNext, LibStep

(* Every step of the library is one of Rendezvous, or is not seen.         *)
LEMMA MeetNext ==
  ASSUME MaxAlloc < Gens, MeetInv, [LibNext]_allVars
  PROVE  MeetInv' /\ [R!Next]_(R!vars)
<1>1. LibInv
  BY DEF MeetInv
<1>2. CASE LibNext
  <2>1. LibInv' /\ NameInv'
    BY <1>1, <1>2, LibStepInv, LibNames, KnownFacts DEF LibNext
  <2> SUFFICES R!Next \/ UNCHANGED R!vars
    BY <2>1 DEF MeetInv
  <2>2. CASE Timer \/ YieldSend \/ YieldRecv
    BY <1>1, <2>1, <2>2, SwitchMeets
  <2>3. CASE TrapRecv
    BY <1>1, <2>1, <2>3, TrapRecvMeets
  <2>4. CASE fork
    BY <2>1, <2>4, ForkMeets DEF R!Next
  <2>5. CASE exit
    BY <1>1, <2>1, <2>5, ExitMeets DEF R!Next
  <2>6. CASE \/ TrapSend \/ SendRetry \/ SendReturn \/ RecvReturn \/ ipc_recv
             \/ \E to \in Known, v \in Value : ipc_send(to, v)
    <3>1. Runs
      BY <2>6 DEF TrapSend, SendRetry, SendReturn, RecvReturn, ipc_recv, ipc_send, At
    <3>2. PICK c \in Slot : c = curenv
      BY <1>1, <3>1, RunsFacts DEF LibInv
    <3>3. CASE TrapSend
      <4>1. SendRefused(out[c].to) \/ SendAccepted(out[c].to, out[c].value)
        BY <3>2, <3>3 DEF TrapSend
      <4>2. UNCHANGED R!vars \/ R!Refuse(c) \/ \E r \in Slot : R!Transfer(c, r)
        BY <2>1, <3>2, <3>3, <4>1, RefusedMeets, AcceptedMeets
      <4> QED BY <4>2 DEF R!Next
    <3>4. CASE SendRetry
      BY <1>1, <2>1, <3>2, <3>4, SendRetryMeets
    <3>5. CASE SendReturn \/ RecvReturn
      BY <1>1, <2>1, <3>2, <3>5, ReturnMeets DEF R!Next
    <3>6. CASE ipc_recv
      BY <1>1, <2>1, <3>2, <3>6, CallRecvMeets DEF R!Next
    <3>7. ASSUME NEW to \in Known, NEW v \in Value, ipc_send(to, v)
          PROVE  R!Next
      BY <1>1, <2>1, <3>2, <3>7, CallSendMeets, KnownFacts DEF R!Next
    <3> QED BY <2>6, <3>3, <3>4, <3>5, <3>6, <3>7
  <2> QED BY <1>2, <2>2, <2>3, <2>4, <2>5, <2>6 DEF LibNext, LibStep
<1>3. CASE UNCHANGED allVars
  <2>1. UNCHANGED vars /\ UNCHANGED <<pc, out>>
    BY <1>3 DEF allVars, userVars
  <2>2. UNCHANGED <<env_status, env_id, env_parent_id, env_free_list, next_env_id,
                    env_ipc_recving, env_ipc, mail, env_tf, curenv, index, frame, view,
                    kernel>>
    BY <2>1 DEF vars, envVars, ipcVars, runVars
  <2>3. LibInv'
    BY <1>1, <2>1, <2>2, MoveLib DEF LibInv, UserTypeOK
  <2>4. NameInv'
    BY <2>2, NameKept DEF MeetInv, Live
  <2>5. \A i \in Slot : (Live(i)' <=> Live(i)) /\ Arrived(i)' = Arrived(i)
    BY <2>2 DEF Live, Arrived
  <2>6. \A i \in Slot : Party(i)' = Party(i)
    BY <1>1, <2>1, <2>2, <2>3, <2>5, PartySame
  <2>7. UNCHANGED R!vars
    BY <2>2, <2>5, <2>6, NoneBecomes
  <2> QED BY <2>3, <2>4, <2>7 DEF MeetInv
<1> QED BY <1>2, <1>3

(* At boot there is one program, and it has a name.                        *)
LEMMA MeetInit == LibInit => MeetInv /\ R!Init
<1> SUFFICES ASSUME LibInit PROVE MeetInv /\ R!Init
  OBVIOUS
<1>1. LibInv /\ NameInv /\ Init
  BY LibInitInv, NameInit DEF LibInit
<1>2. 0 \in Slot /\ Live(0) /\ pc[0] = "user" /\ \A j \in Slot : Live(j) <=> j = 0
  BY <1>1, ConstFacts DEF LibInit, Init, Live
<1>3. env_id[0] \in EnvId /\ env_id[0] # 0
  <2>1. env_id[0] \in EnvId
    BY <1>1, <1>2 DEF LibInv, Inv, TypeOK
  <2>2. env_id[0] # 0
    BY <1>1, <1>2, NameArith DEF NameInv
  <2> QED BY <2>1, <2>2
<1>4. NameNow = [j \in Slot |-> IF j = 0 THEN env_id[0] ELSE 0]
  BY <1>2 DEF NameNow
<1>5. /\ Party(0) = [at |-> "idle"]
      /\ \A j \in Slot : j # 0 => Party(j) = [at |-> "absent"]
  BY <1>2, PartyIs DEF PartyTable
<1>6. PartyNow = [j \in Slot |-> IF j = 0 THEN [at |-> "idle"] ELSE [at |-> "absent"]]
  BY <1>5 DEF PartyNow
<1>7. R!Init
  BY <1>2, <1>3, <1>4, <1>6 DEF R!Init, R!Idle, R!Absent
<1> QED BY <1>1, <1>7 DEF MeetInv

(* ipc_send and ipc_recv pass messages as Rendezvous says, however the     *)
(* traps of any number of programs and the timer interleave, as long as    *)
(* the names of mkenvid do not repeat: a message reaches the program it    *)
(* was meant for in one step, whole, and the answer tells whether it did.  *)
THEOREM RendezvousCorrect ==
  ASSUME MaxAlloc < Gens
  PROVE  LibSpec => RendezvousSpec
<1>1. LibInit => MeetInv /\ R!Init
  BY MeetInit
<1>2. MeetInv /\ [LibNext]_allVars => MeetInv' /\ [R!Next]_(R!vars)
  BY MeetNext
<1> QED
  BY <1>1, <1>2, PTL DEF LibSpec, RendezvousSpec, R!Spec

-----------------------------------------------------------------------------
(***************************************************************************)
(* The rally of test-pingpong.                                             *)
(***************************************************************************)
BallMail == [from : EnvId, value : 0 .. Last]

PingTypeOK ==
  /\ at \in [Slot -> {"fork", "forked", "served", "received", "hit", "stopped"}]
  /\ ball \in [Slot -> 0 .. Last] /\ DOMAIN who = Slot

(* Where a program is in umain says where it can be in the library, and    *)
(* what it sends, or has been sent, is the number of a ball.               *)
Place(i) ==
  /\ at[i] \in {"fork", "forked", "stopped"} => pc[i] = "user"
  /\ at[i] \in {"served", "hit"} => pc[i] \in {"user", "can_send", "sent", "yield_send"}
  /\ at[i] = "received" => pc[i] \in {"user", "can_recv", "yield_recv", "got"}
  /\ at[i] = "forked" => view[i] \in EnvId
  /\ at[i] \in {"served", "hit"} => out[i].value \in 0 .. Last
  /\ env_ipc_recving[i] = 2 => env_ipc[i] \in BallMail
  /\ at[i] = "received" /\ pc[i] # "can_recv" /\ env_ipc_recving[i] = 0
       => mail[i] \in BallMail

(* InHand, with the register that the program must find, and so will.      *)
Holds(i) ==
  \/ pc[i] \in {"can_send", "yield_send"} /\ at[i] \in {"served", "hit"}
  \/ pc[i] = "sent" /\ view[i] = E_IPC_NOT_RECV
  \/ at[i] = "received" /\ pc[i] \in {"user", "yield_recv", "got"} /\ env_ipc_recving[i] # 1

(* Who has the ball, or is going to put it into play: there is one.        *)
Token(i) == Live(i) /\ (Holds(i) \/ at[i] = "fork" \/ (at[i] = "forked" /\ view[i] # 0))

PingInv ==
  /\ LibInv /\ PingTypeOK
  /\ \A i \in Slot : Live(i) => Place(i)
  /\ \A i, j \in Slot : Token(i) /\ Token(j) => i = j

(* A step that leaves everything of slot i alone.                          *)
Same(i) ==
  /\ env_status'[i] = env_status[i] /\ pc'[i] = pc[i] /\ at'[i] = at[i] /\ out'[i] = out[i]
  /\ view'[i] = view[i] /\ env_ipc_recving'[i] = env_ipc_recving[i]
  /\ env_ipc'[i] = env_ipc[i] /\ mail'[i] = mail[i]

LEMMA SameFacts ==
  ASSUME PingInv, NEW i \in Slot, Same(i)
  PROVE  (Live(i)' => Place(i)') /\ (Token(i)' => Token(i))
BY DEF PingInv, Same, Live, Place, Token, Holds

(* The program begins with one environment, which is to fork.              *)
LEMMA PingInitInv == PingInit => PingInv
<1> SUFFICES ASSUME PingInit PROVE PingInv
  OBVIOUS
<1>1. LibInv
  BY LibInitInv DEF PingInit
<1>2. /\ pc = [i \in Slot |-> "user"] /\ at = [i \in Slot |-> "fork"]
      /\ ball = [i \in Slot |-> 0] /\ who = [i \in Slot |-> 0]
      /\ env_ipc_recving = [i \in Slot |-> 0]
      /\ env_status = [i \in Slot |-> IF i = 0 THEN "RUNNABLE" ELSE "FREE"]
  BY DEF PingInit, LibInit, Init
<1>3. PingTypeOK
  BY <1>2, LastAssumption DEF PingTypeOK
<1>4. \A i \in Slot : Place(i)
  BY <1>2 DEF Place
<1>5. \A i \in Slot : Token(i) => i = 0
  BY <1>2 DEF Token, Live
<1> QED
  BY <1>1, <1>3, <1>4, <1>5 DEF PingInv

(* A step keeps the ball single if it gives it to nobody, or takes it from *)
(* one and gives it to one.                                                *)
LEMMA Passing ==
  ASSUME PingInv, LibInv', PingTypeOK',
         \A i \in Slot : Live(i)' => Place(i)',
         \/ \A i \in Slot : Token(i)' => Token(i)
         \/ \E s, r \in Slot : /\ Token(s) /\ ~Token(s)'
                               /\ \A i \in Slot : Token(i)' => i = r \/ Token(i)
  PROVE  PingInv'
<1>1. \A i, j \in Slot : Token(i) /\ Token(j) => i = j
  BY DEF PingInv
<1>2. CASE \A i \in Slot : Token(i)' => Token(i)
  BY <1>1, <1>2 DEF PingInv
<1>3. ASSUME NEW s \in Slot, NEW r \in Slot, Token(s), ~Token(s)',
             \A i \in Slot : Token(i)' => i = r \/ Token(i)
      PROVE  PingInv'
  <2>1. \A i \in Slot : Token(i)' => i = r
    BY <1>1, <1>3
  <2> QED
    BY <2>1 DEF PingInv
<1> QED
  BY <1>2, <1>3

(* A step in which only the caller moves, and gets no ball.                *)
LEMMA CallerMoves ==
  ASSUME PingInv, LibInv', PingTypeOK', NEW c \in Slot,
         \A i \in Slot : i # c => Same(i),
         Live(c)' => Place(c)', Token(c)' => Token(c)
  PROVE  PingInv'
<1>1. ASSUME NEW i \in Slot PROVE (Live(i)' => Place(i)') /\ (Token(i)' => Token(i))
  BY SameFacts
<1> QED
  BY <1>1, Passing

(* What is known of the program that runs.                                 *)
LEMMA CallerFacts ==
  ASSUME PingInv, Runs
  PROVE  /\ curenv \in Slot /\ Live(curenv) /\ frame = view[curenv]
         /\ Place(curenv) /\ kernel = "running"
         /\ \/ env_ipc_recving[curenv] = 0
            \/ env_ipc_recving[curenv] = 1 /\ pc[curenv] = "yield_recv"
<1>1. LibInv
  BY DEF PingInv
<1>2. /\ curenv \in Slot /\ Live(curenv) /\ frame = view[curenv] /\ kernel = "running"
  BY <1>1, RunsFacts DEF LibInv
<1>3. Served(curenv)
  BY <1>1, <1>2 DEF LibInv
<1>4. Place(curenv)
  BY <1>2 DEF PingInv
<1> QED
  BY <1>2, <1>3, <1>4 DEF Served

(* Types of what the steps change.                                         *)
LEMMA Shapes ==
  ASSUME PingInv
  PROVE  /\ pc \in [Slot -> Pcs] /\ out \in [Slot -> [to : EnvId, value : Value]]
         /\ at \in [Slot -> {"fork", "forked", "served", "received", "hit", "stopped"}]
         /\ ball \in [Slot -> 0 .. Last] /\ DOMAIN who = Slot
         /\ env_ipc_recving \in [Slot -> 0 .. 2]
         /\ view \in [Slot -> Reg] /\ env_ipc \in [Slot -> Mail \cup {NoMail}]
         /\ mail \in [Slot -> Mail \cup {NoMail}]
         /\ env_status \in [Slot -> {"FREE", "RUNNABLE", "NOT_RUNNABLE"}]
BY DEF PingInv, LibInv, UserTypeOK, PingTypeOK, Inv, TypeOK

-----------------------------------------------------------------------------
(* The steps of umain.                                                     *)

(* The library's invariant under them.                                     *)
LEMMA UmainLib ==
  ASSUME PingInv, Fork \/ Serve \/ Wait \/ Hit \/ Stop
  PROVE  LibInv' /\ PingTypeOK'
<1>1. LibInv
  BY DEF PingInv
<1>2. 0 .. Last \subseteq Value /\ 0 \in 0 .. Last /\ Last \in Nat
  BY LastAssumption
<1>3. CASE Fork
  <2>1. Runs /\ _fork /\ fork /\ env_free_list # <<>>
    BY <1>3 DEF Fork, fork, _fork
  <2>2. curenv \in Slot /\ Head(env_free_list) \in Slot
    BY <2>1, CallerFacts DEF PingInv, LibInv, Inv, TypeOK
  <2>3. PingTypeOK'
    BY <1>3, <2>2, Shapes DEF Fork, PingTypeOK, Proceed
  <2> QED
    BY <1>1, <2>1, <2>3, LibStepInv
<1>4. CASE Serve
  <2>1. Runs /\ frame # 0 /\ at[curenv] = "forked" /\ ipc_send(frame, 0)
    BY <1>4 DEF Serve, Here, At
  <2>2. frame \in EnvId /\ curenv \in Slot
    BY <2>1, CallerFacts DEF Place
  <2>3. PingTypeOK'
    BY <1>4, <2>2, Shapes DEF Serve, PingTypeOK, Proceed
  <2> QED
    BY <1>1, <1>2, <2>1, <2>2, <2>3, LibStepInv
<1>5. CASE Wait
  <2>1. Runs /\ ipc_recv
    BY <1>5 DEF Wait, ipc_recv, At
  <2>2. PingTypeOK'
    BY <1>5, <2>1, CallerFacts, Shapes DEF Wait, PingTypeOK, Proceed
  <2> QED
    BY <1>1, <2>1, <2>2, LibStepInv
<1>6. CASE Hit
  <2>1. /\ Runs /\ at[curenv] = "received" /\ pc[curenv] = "user"
        /\ mail[curenv].value # Last
        /\ ipc_send(mail[curenv].from, mail[curenv].value + 1)
        /\ ball' = [ball EXCEPT ![curenv] = mail[curenv].value + 1]
        /\ who' = [who EXCEPT ![curenv] = mail[curenv].from]
        /\ at' = [at EXCEPT ![curenv] = "hit"]
    BY <1>6 DEF Hit, Here, At, Proceed
  <2>2. curenv \in Slot /\ mail[curenv] \in BallMail
    BY <2>1, CallerFacts DEF Place
  <2>3. mail[curenv].from \in EnvId /\ mail[curenv].value + 1 \in 0 .. Last
    BY <1>2, <2>1, <2>2 DEF BallMail
  <2>4. PingTypeOK'
    BY <2>1, <2>2, <2>3, Shapes DEF PingTypeOK
  <2> QED
    BY <1>1, <1>2, <2>1, <2>3, <2>4, LibStepInv
<1>7. CASE Stop
  <2>1. UNCHANGED vars /\ pc' = pc /\ out' = out /\ Runs
    BY <1>7 DEF Stop, allVars, userVars, Here, At
  <2>2. UserTypeOK'
    BY <1>1, <2>1 DEF LibInv, UserTypeOK
  <2>3. PingTypeOK'
    BY <1>7, <2>1, CallerFacts, Shapes DEF Stop, PingTypeOK, Proceed
  <2> QED
    BY <1>1, <2>1, <2>2, <2>3, MoveLib
<1> QED
  BY <1>3, <1>4, <1>5, <1>6, <1>7

(* fork: the parent may serve, its child, who is told 0, may not.          *)
LEMMA ForkPing ==
  ASSUME PingInv, Fork
  PROVE  PingInv'
<1>1. PICK c \in Slot, e \in Slot : c = curenv /\ e = Head(env_free_list) /\ ~Live(e)
  <2>1. /\ env_free_list \in Seq(Slot) /\ NoDup(env_free_list)
        /\ \A i \in Slot : ~Live(i) <=> i \in Elems(env_free_list)
    BY ListFacts DEF ListInv, TypeOK, PingInv, LibInv, Inv
  <2>2. env_free_list # <<>> /\ Runs
    BY DEF Fork, fork, _fork
  <2>3. Head(env_free_list) \in Slot /\ Head(env_free_list) \in Elems(env_free_list)
    BY ONLY <2>1, <2>2, PopElems
  <2> QED
    BY <2>1, <2>2, <2>3, CallerFacts
<1>2. PICK new \in EnvId : new = mkenvid(e)
  BY MkenvidFacts DEF PingInv, LibInv, Inv
<1>3. /\ Runs /\ pc[c] = "user" /\ at[c] = "fork"
      /\ pc' = [pc EXCEPT ![e] = "user"]
      /\ out' = [out EXCEPT ![e] = out[c]]
      /\ at' = [at EXCEPT ![c] = "forked", ![e] = "forked"]
      /\ env_status' = [env_status EXCEPT ![e] = "RUNNABLE"]
      /\ env_ipc_recving' = [env_ipc_recving EXCEPT ![e] = 0]
      /\ mail' = [mail EXCEPT ![e] = mail[c]]
      /\ view' = [view EXCEPT ![e] = 0, ![c] = new]
      /\ env_ipc' = env_ipc
  BY <1>1, <1>2 DEF Fork, Here, At, fork, _fork
<1>4. /\ LibInv' /\ PingTypeOK' /\ Live(c) /\ Place(c) /\ e # c /\ 0 \in EnvId
  BY <1>1, <1>3, UmainLib, CallerFacts, ConstFacts
<1>5. \A i \in Slot : i # c /\ i # e => Same(i)
  BY <1>3, Shapes DEF Same
<1>6. /\ pc'[e] = "user" /\ at'[e] = "forked" /\ view'[e] = 0 /\ env_ipc_recving'[e] = 0
      /\ pc'[c] = "user" /\ at'[c] = "forked" /\ view'[c] = new
      /\ env_ipc_recving'[c] = env_ipc_recving[c]
      /\ env_ipc'[c] = env_ipc[c]
  BY <1>1, <1>3, <1>4, Shapes
<1>7. Place(e)' /\ ~Token(e)'
  BY <1>4, <1>6 DEF Place, Token, Holds
<1>8. Place(c)' /\ Token(c)
  <2>1. env_ipc_recving[c] = 2 => env_ipc[c] \in BallMail
    BY <1>4 DEF Place
  <2>2. Place(c)'
    BY <1>6, <2>1 DEF Place, BallMail
  <2>3. Token(c)
    BY <1>3, <1>4 DEF Token
  <2> QED
    BY <2>2, <2>3
<1>9. ASSUME NEW i \in Slot
      PROVE  (Live(i)' => Place(i)') /\ (Token(i)' => Token(i))
  BY <1>5, <1>7, <1>8, SameFacts
<1> QED
  BY <1>4, <1>9, Passing

(* The program itself: who hits the ball had it, who waits has it not.     *)
LEMMA UmainPing ==
  ASSUME PingInv, Serve \/ Wait \/ Hit \/ Stop
  PROVE  PingInv'
<1>1. PICK c \in Slot : c = curenv /\ Live(c) /\ Place(c) /\ pc[c] = "user"
                        /\ frame = view[c] /\ env_ipc_recving[c] = 0
  <2>1. Runs /\ pc[curenv] = "user"
    BY DEF Serve, Wait, Hit, Stop, Here, At
  <2> QED
    BY <2>1, CallerFacts
<1>2. /\ UNCHANGED <<env_status, view, env_ipc_recving, env_ipc, mail>>
      /\ DOMAIN at = Slot /\ DOMAIN pc = Slot /\ DOMAIN out = Slot
  <2>1. UNCHANGED vars
    BY DEF Serve, Wait, Hit, Stop, ipc_send, ipc_recv, allVars
  <2> QED
    BY <2>1, Shapes DEF vars, envVars, ipcVars, runVars
<1>3. LibInv' /\ PingTypeOK'
  BY UmainLib
<1>4. ASSUME NEW l, NEW p, NEW o,
             at' = [at EXCEPT ![c] = l],
             pc' = [pc EXCEPT ![c] = p] \/ (pc' = pc /\ p = pc[c]),
             out' = [out EXCEPT ![c] = o] \/ (out' = out /\ o = out[c])
      PROVE  /\ \A i \in Slot : i # c => Same(i)
             /\ at'[c] = l /\ pc'[c] = p /\ out'[c] = o
  BY <1>1, <1>2, <1>4 DEF Same
<1>5. CASE Serve
  <2>1. /\ at[c] = "forked" /\ view[c] # 0
        /\ at' = [at EXCEPT ![c] = "served"] /\ pc' = [pc EXCEPT ![c] = "can_send"]
        /\ out' = [out EXCEPT ![c] = [to |-> frame, value |-> 0]]
    BY <1>1, <1>5 DEF Serve, Here, Proceed, ipc_send, Goto
  <2>2. /\ \A i \in Slot : i # c => Same(i)
        /\ at'[c] = "served" /\ pc'[c] = "can_send" /\ out'[c] = [to |-> frame, value |-> 0]
    BY <1>4, <2>1
  <2>3. out'[c].value \in 0 .. Last
    BY <2>2, LastAssumption
  <2>4. Place(c)'
    BY <1>1, <1>2, <2>2, <2>3 DEF Place
  <2>5. Token(c)
    BY <1>1, <2>1 DEF Token
  <2> QED
    BY <1>3, <2>2, <2>4, <2>5, CallerMoves
<1>6. CASE Wait
  <2>1. at' = [at EXCEPT ![c] = "received"] /\ pc' = [pc EXCEPT ![c] = "can_recv"] /\ out' = out
    BY <1>1, <1>6 DEF Wait, Proceed, ipc_recv, Goto
  <2>2. /\ \A i \in Slot : i # c => Same(i)
        /\ at'[c] = "received" /\ pc'[c] = "can_recv"
    BY <1>4, <2>1
  <2>3. Place(c)'
    BY <1>1, <1>2, <2>2 DEF Place
  <2>4. ~Token(c)'
    BY <2>2 DEF Token, Holds
  <2> QED
    BY <1>3, <2>2, <2>3, <2>4, CallerMoves
<1>7. CASE Hit
  <2> DEFINE message == [to |-> mail[c].from, value |-> mail[c].value + 1]
  <2>1. /\ at[c] = "received" /\ mail[c].value # Last
        /\ at' = [at EXCEPT ![c] = "hit"] /\ pc' = [pc EXCEPT ![c] = "can_send"]
        /\ out' = [out EXCEPT ![c] = message]
    BY <1>1, <1>7 DEF Hit, Here, Proceed, ipc_send, Goto
  <2>2. message.value \in 0 .. Last
    <3>1. mail[c] \in BallMail
      BY <1>1, <2>1 DEF Place
    <3> QED
      BY <2>1, <3>1, LastAssumption DEF BallMail
  <2> HIDE DEF message
  <2>3. /\ \A i \in Slot : i # c => Same(i)
        /\ at'[c] = "hit" /\ pc'[c] = "can_send" /\ out'[c] = message
    BY <1>4, <2>1
  <2>4. Place(c)'
    BY <1>1, <1>2, <2>2, <2>3 DEF Place
  <2>5. Token(c)
    BY <1>1, <2>1 DEF Token, Holds
  <2> QED
    BY <1>3, <2>3, <2>4, <2>5, CallerMoves
<1>8. CASE Stop
  <2>1. at' = [at EXCEPT ![c] = "stopped"] /\ pc' = pc /\ out' = out
    BY <1>1, <1>8 DEF Stop, Proceed, allVars, userVars
  <2>2. /\ \A i \in Slot : i # c => Same(i)
        /\ at'[c] = "stopped" /\ pc'[c] = "user"
    BY <1>1, <1>4, <2>1
  <2>3. Place(c)'
    BY <1>1, <1>2, <2>2 DEF Place
  <2>4. ~Token(c)'
    BY <2>2 DEF Token, Holds
  <2> QED
    BY <1>3, <2>2, <2>3, <2>4, CallerMoves
<1> QED
  BY <1>5, <1>6, <1>7, <1>8

(* The trap of ipc_send: the ball goes over, or stays.                     *)
LEMMA TrapSendPing ==
  ASSUME PingInv, TrapSend, UNCHANGED programVars
  PROVE  PingInv'
<1>1. PICK c \in Slot :
        /\ c = curenv /\ Live(c) /\ Place(c) /\ pc[c] = "can_send"
        /\ at[c] \in {"served", "hit"} /\ Token(c)
  <2>1. Runs /\ pc[curenv] = "can_send"
    BY DEF TrapSend, At
  <2>2. /\ curenv \in Slot /\ Live(curenv) /\ Place(curenv)
        /\ at[curenv] \in {"served", "hit"}
    BY <2>1, CallerFacts, Shapes DEF Place
  <2> QED
    BY <2>1, <2>2 DEF Token, Holds
<1>2. /\ at' = at /\ out' = out /\ mail' = mail /\ pc' = [pc EXCEPT ![c] = "sent"]
      /\ Runs
      /\ SendRefused(out[c].to) \/ SendAccepted(out[c].to, out[c].value)
  BY <1>1 DEF TrapSend, At, programVars, Goto, SendRefused, SendAnswers, SendAccepted, ipcVars
<1>3. /\ LibInv' /\ PingTypeOK'
      /\ out[c].to \in EnvId /\ out[c].value \in 0 .. Last
  BY <1>1, TrapSendLib, Shapes DEF PingInv, PingTypeOK, programVars, Place
<1>4. CASE SendRefused(out[c].to)
  <2>1. PICK ret \in Reg : /\ view' = [view EXCEPT ![c] = ret]
                           /\ UNCHANGED <<env_status, env_ipc_recving, env_ipc>>
    BY <1>1, <1>4 DEF SendRefused, SendAnswers, sys_return, envVars, ipcVars, Reg
  <2>2. /\ \A i \in Slot : i # c => Same(i)
        /\ pc'[c] = "sent"
    BY <1>2, <2>1, Shapes DEF Same
  <2>3. Place(c)'
    BY <1>1, <1>2, <2>1, <2>2 DEF Place
  <2> QED
    BY <1>1, <1>3, <2>2, <2>3, CallerMoves
<1>5. CASE SendAccepted(out[c].to, out[c].value)
  <2>1. PICK e \in Slot :
          /\ env_ipc_recving[e] = 1
          /\ env_ipc_recving' = [env_ipc_recving EXCEPT ![e] = 2]
          /\ env_ipc' = [env_ipc EXCEPT ![e] =
               [from |-> env_id[curenv], value |-> out[c].value]]
          /\ env_status' = [env_status EXCEPT ![e] = "RUNNABLE"]
          /\ Live(e)
    BY <1>2, <1>3, <1>5, FoundFacts DEF SendAccepted, PingInv, LibInv
  <2>2. view' = [view EXCEPT ![c] = 0]
    BY <1>1, <1>5 DEF SendAccepted, sys_return
  <2>3. e # c
    BY <1>1, <1>2, <2>1, CallerFacts
  <2>4. \A i \in Slot : i # c /\ i # e => Same(i)
    BY <1>2, <2>1, <2>2, Shapes DEF Same
  <2>5. /\ pc'[c] = "sent" /\ view'[c] = 0 /\ at'[c] = at[c] /\ out'[c] = out[c]
        /\ env_ipc_recving'[c] = env_ipc_recving[c] /\ env_ipc'[c] = env_ipc[c]
    BY <1>2, <2>1, <2>2, <2>3, Shapes
  <2>6. Place(c)' /\ ~Token(c)'
    <3>1. Place(c)'
      BY <1>1, <2>5 DEF Place, BallMail
    <3>2. ~Token(c)'
      BY <1>1, <2>5 DEF Token, Holds, E_IPC_NOT_RECV
    <3> QED
      BY <3>1, <3>2
  <2>7. /\ pc'[e] = pc[e] /\ view'[e] = view[e] /\ at'[e] = at[e] /\ out'[e] = out[e]
        /\ env_ipc_recving'[e] = 2
        /\ env_ipc'[e] = [from |-> env_id[curenv], value |-> out[c].value]
    BY <1>2, <2>1, <2>2, <2>3, Shapes
  <2>8. Place(e)'
    <3>1. env_id[curenv] \in EnvId
      BY <1>1 DEF PingInv, LibInv, Inv, TypeOK
    <3>2. env_ipc'[e] \in BallMail
      BY <1>3, <2>7, <3>1 DEF BallMail
    <3>3. Place(e)
      BY <2>1 DEF PingInv
    <3> QED
      BY <2>7, <3>2, <3>3 DEF Place
  <2>9. ASSUME NEW i \in Slot
        PROVE  (Live(i)' => Place(i)') /\ (Token(i)' => i = e \/ Token(i))
    BY <2>4, <2>6, <2>8, SameFacts
  <2> QED
    BY <1>1, <1>3, <2>6, <2>9, Passing
<1> QED
  BY <1>2, <1>4, <1>5

(* The trap of ipc_recv: the caller has not been given the ball yet.       *)
LEMMA TrapRecvPing ==
  ASSUME PingInv, TrapRecv, UNCHANGED programVars
  PROVE  PingInv'
<1>1. PICK c \in Slot :
        c = curenv /\ Live(c) /\ Place(c) /\ pc[c] = "can_recv" /\ env_ipc_recving[c] = 0
  <2>1. Runs /\ pc[curenv] = "can_recv"
    BY DEF TrapRecv, At
  <2> QED
    BY <2>1, CallerFacts
<1>2. at[c] = "received"
  BY <1>1, Shapes DEF Place
<1>3. /\ pc' = [pc EXCEPT ![c] = "yield_recv"] /\ out' = out /\ at' = at
      /\ env_ipc_recving' = [env_ipc_recving EXCEPT ![c] = 1]
      /\ env_status' = [env_status EXCEPT ![c] = "NOT_RUNNABLE"]
      /\ UNCHANGED <<view, env_ipc, mail>>
  BY <1>1 DEF TrapRecv, Goto, _ipc_can_recv, runVars, programVars
<1>4. LibInv' /\ PingTypeOK'
  BY TrapRecvLib DEF PingInv, PingTypeOK, programVars
<1>5. /\ \A i \in Slot : i # c => Same(i)
      /\ pc'[c] = "yield_recv" /\ at'[c] = "received" /\ env_ipc_recving'[c] = 1
  BY <1>2, <1>3, Shapes DEF Same
<1>6. Place(c)' /\ ~Token(c)'
  BY <1>5 DEF Place, Token, Holds
<1> QED
  BY <1>4, <1>5, <1>6, CallerMoves

(* What a switch of programs does to messages: the next program's own      *)
(* reaches its memory, and that is all.                                    *)
LEMMA SwitchMail ==
  ASSUME PingInv, Schedule(env_status, curenv), UNCHANGED envVars
  PROVE  /\ env_ipc' = env_ipc /\ view' = view /\ env_status' = env_status
         /\ \A i \in Slot :
              \/ env_ipc_recving'[i] = env_ipc_recving[i] /\ mail'[i] = mail[i]
              \/ /\ env_ipc_recving[i] = 2 /\ env_ipc_recving'[i] = 0
                 /\ mail'[i] = env_ipc[i]
<1>1. env_status' = env_status /\ TypeOK
  BY DEF envVars, PingInv, LibInv, Inv
<1>2. CASE UNCHANGED <<view, env_ipc_recving, env_ipc, mail>>
  BY <1>1, <1>2
<1>3. ASSUME NEW e \in Slot, env_run(e, curenv), view' = view
      PROVE  /\ env_ipc' = env_ipc
             /\ \A i \in Slot :
                  \/ env_ipc_recving'[i] = env_ipc_recving[i] /\ mail'[i] = mail[i]
                  \/ /\ env_ipc_recving[i] = 2 /\ env_ipc_recving'[i] = 0
                     /\ mail'[i] = env_ipc[i]
  BY <1>3, Shapes DEF env_run
<1> QED
  BY <1>1, <1>2, <1>3, ScheduleSteps

(* The timer and the yields.                                               *)
LEMMA SwitchPing ==
  ASSUME PingInv, Timer \/ YieldSend \/ YieldRecv, UNCHANGED programVars
  PROVE  PingInv'
<1>1. Schedule(env_status, curenv) /\ UNCHANGED envVars /\ out' = out /\ at' = at
  BY DEF Timer, YieldSend, YieldRecv, irq_handler, _sched_yield, userVars, programVars
<1>2. /\ env_ipc' = env_ipc /\ view' = view /\ env_status' = env_status
      /\ \A i \in Slot :
           \/ env_ipc_recving'[i] = env_ipc_recving[i] /\ mail'[i] = mail[i]
           \/ /\ env_ipc_recving[i] = 2 /\ env_ipc_recving'[i] = 0
              /\ mail'[i] = env_ipc[i]
  BY <1>1, SwitchMail
<1>3. LibInv' /\ PingTypeOK'
  BY SwitchStepsLib DEF PingInv, PingTypeOK, programVars
<1>4. \A i \in Slot :
        \/ pc'[i] = pc[i]
        \/ pc[i] = "yield_send" /\ pc'[i] = "can_send"
        \/ pc[i] = "yield_recv" /\ pc'[i] = "got"
  <2>1. CASE Timer
    BY <2>1 DEF Timer, userVars
  <2>2. CASE YieldSend
    BY <2>2, Shapes DEF YieldSend, At, Goto
  <2>3. CASE YieldRecv
    BY <2>3, Shapes DEF YieldRecv, At, Goto
  <2> QED
    BY <2>1, <2>2, <2>3
<1>5. ASSUME NEW i \in Slot
      PROVE  (Live(i)' => Place(i)') /\ (Token(i)' => Token(i))
  <2>1. ASSUME Live(i)' PROVE Place(i)'
    <3>1. Live(i) /\ Place(i)
      BY <1>2, <2>1 DEF Live, PingInv
    <3>2. mail'[i] = mail[i] \/ (env_ipc_recving[i] = 2 /\ mail'[i] = env_ipc[i])
      BY <1>2
    <3>3. /\ env_ipc_recving'[i] = 2 => env_ipc'[i] \in BallMail
          /\ at'[i] = "received" /\ pc'[i] # "can_recv" /\ env_ipc_recving'[i] = 0
               => mail'[i] \in BallMail
      BY <1>1, <1>2, <1>4, <3>1, <3>2 DEF Place
    <3> QED
      BY <1>1, <1>2, <1>4, <3>1, <3>3 DEF Place
  <2>2. ASSUME Token(i)' PROVE Token(i)
    <3>1. Live(i)
      BY <1>2, <2>2 DEF Token, Live
    <3>2. CASE Holds(i)'
      BY <1>1, <1>2, <1>4, <3>1, <3>2 DEF Token, Holds
    <3>3. CASE ~Holds(i)'
      BY <1>1, <1>2, <2>2, <3>1, <3>3 DEF Token
    <3> QED
      BY <3>2, <3>3
  <2> QED
    BY <2>1, <2>2
<1> QED
  BY <1>3, <1>5, Passing

(* The library between its traps: a refused sender tries again, the others *)
(* return.                                                                 *)
LEMMA MovePing ==
  ASSUME PingInv, SendRetry \/ SendReturn \/ RecvReturn, UNCHANGED programVars
  PROVE  PingInv'
<1>1. PICK c \in Slot :
        /\ c = curenv /\ Live(c) /\ Place(c) /\ pc[c] \in {"sent", "got"}
        /\ frame = view[c] /\ env_ipc_recving[c] = 0
  <2>1. Runs /\ pc[curenv] \in {"sent", "got"}
    BY DEF SendRetry, SendReturn, RecvReturn, At
  <2> QED
    BY <2>1, CallerFacts
<1>2. UNCHANGED <<env_status, view, env_ipc_recving, env_ipc, mail, at, out>>
  <2>1. UNCHANGED vars /\ out' = out /\ at' = at
    BY DEF SendRetry, SendReturn, RecvReturn, programVars
  <2> QED
    BY <2>1 DEF vars, envVars, ipcVars, runVars
<1>3. LibInv' /\ PingTypeOK'
  BY MoveStepsLib DEF PingInv, PingTypeOK, programVars
<1>4. PICK l \in Pcs : /\ pc' = [pc EXCEPT ![c] = l]
                       /\ \/ l = "yield_send" /\ pc[c] = "sent" /\ view[c] = E_IPC_NOT_RECV
                          \/ l = "user"
  BY <1>1 DEF SendRetry, SendReturn, RecvReturn, At, Goto, Pcs
<1>5. /\ \A i \in Slot : i # c => Same(i)
      /\ pc'[c] = l
  BY <1>2, <1>4, Shapes DEF Same
<1>6. /\ at[c] \in {"served", "hit"} => pc[c] = "sent"
      /\ at[c] = "received" => pc[c] = "got"
      /\ at[c] \in {"served", "hit", "received"}
  BY <1>1, Shapes DEF Place
<1>7. Place(c)'
  BY <1>1, <1>2, <1>4, <1>5, <1>6 DEF Place
<1>8. Token(c)' => Token(c)
  BY <1>1, <1>2, <1>4, <1>5, <1>6 DEF Token, Holds, Live
<1> QED
  BY <1>3, <1>5, <1>7, <1>8, CallerMoves

(* The ball is never in two places, whoever is interrupted where, whatever *)
(* a retry repeats, and however long the rally is.                         *)
THEOREM OneBallCorrect == PingSpec => []OneBall
<1>1. PingInit => PingInv
  BY PingInitInv
<1>2. PingInv /\ [PingNext]_everything => PingInv'
  <2> SUFFICES ASSUME PingInv, [PingNext]_everything PROVE PingInv'
    OBVIOUS
  <2>1. CASE Step \/ (Timer /\ UNCHANGED programVars)
    BY <2>1, ForkPing, UmainPing, TrapSendPing, TrapRecvPing, SwitchPing, MovePing
    DEF Step, Library, LibStep
  <2>2. CASE UNCHANGED everything
    <3>1. UNCHANGED vars /\ UNCHANGED <<pc, out, at, ball, who>>
      BY <2>2 DEF everything, allVars, userVars, programVars
    <3>2. UserTypeOK' /\ PingTypeOK'
      BY <3>1 DEF PingInv, LibInv, UserTypeOK, PingTypeOK
    <3>3. LibInv'
      BY <3>1, <3>2, MoveLib DEF PingInv
    <3>4. ASSUME NEW i \in Slot
          PROVE  (Live(i)' => Place(i)') /\ (Token(i)' => Token(i))
      BY <3>1, SameFacts DEF Same, vars, envVars, ipcVars, runVars
    <3> QED
      BY <3>2, <3>3, <3>4, Passing
  <2> QED
    BY <2>1, <2>2 DEF PingNext
<1>3. PingInv => OneBall
  <2> SUFFICES ASSUME PingInv, NEW i \in Slot, NEW j \in Slot,
                      Live(i), Live(j), InHand(i), InHand(j)
               PROVE  i = j
    BY DEF OneBall
  <2>1. \A k \in Slot : Live(k) => Result(k) = view[k]
    BY DEF PingInv, LibInv, Inv, RegistersPrivate, Result
  <2>2. Token(i) /\ Token(j)
    BY <2>1 DEF InHand, Token, Holds
  <2> QED
    BY <2>2 DEF PingInv
<1>4. PingSpec => PingInit /\ [][PingNext]_everything
  BY PTL DEF PingSpec
<1> QED
  BY <1>1, <1>2, <1>3, <1>4, PTL
=============================================================================
