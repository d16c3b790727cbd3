-------------------------------- MODULE Env --------------------------------
(***************************************************************************)
(* Environments: the table envs[], their names, the round-robin scheduler, *)
(* the exception frame through which registers are switched, and the       *)
(* message-passing system calls (src/os/lib/env.c, sched.c, handler.c).    *)
(*                                                                         *)
(* Handlers run with interrupts masked, one at a time, so each is one step *)
(* on behalf of curenv.  The programs are arbitrary: whichever environment *)
(* runs may make any system call, or be interrupted by the timer, next.    *)
(* Memory is left to Pmap and Fork.                                        *)
(***************************************************************************)
EXTENDS Integers, Sequences, FiniteSets

CONSTANTS
  NENV,      \* slots of envs[], 1024 in the code
  Gens,      \* values the upper part of an envid can take, 2^21 in the code
  MaxAlloc,  \* bound: env_alloc succeeds at most so often
  Value,     \* the values programs send
  NoEnv,     \* a null struct Env pointer
  NoMail     \* the result variables of ipc_recv, never written

Slot == 0..(NENV - 1)

ASSUME EnvAssumption ==
  /\ NENV \in Nat \ {0} /\ Gens \in Nat \ {0, 1} /\ MaxAlloc \in Nat
  /\ NoEnv \notin Slot

(* error.h, as the caller sees them in x0.                                 *)
E_BAD_ENV == -2
E_INVAL == -3
E_NO_MEM == -4
E_IPC_NOT_RECV == -6

(* An envid is an u_int: bits 0..LOG2NENV-1 are the slot, the next one is  *)
(* never set, the others count environments.                               *)
EnvId == 0..(2 * NENV * Gens - 1)
ENVX(envid) == envid % NENV

Reg == EnvId \cup {0, E_BAD_ENV, E_INVAL, E_NO_MEM, E_IPC_NOT_RECV}
Mail == [from : EnvId, value : Value]

ASSUME MailAssumption == NoMail \notin Mail

VARIABLES
  env_status,       \* "FREE", "RUNNABLE" or "NOT_RUNNABLE"
  env_id,
  env_parent_id,
  env_ipc_recving,  \* 0, 1 while receiving, 2 when a message has arrived
  env_ipc,          \* the fields env_ipc_from and env_ipc_value
  env_tf,           \* x0 in the saved registers of each environment
  env_free_list,    \* the free list, its head first
  next_env_id,      \* the static counter of mkenvid, 64 bits wide
  curenv,
  index,            \* the static counter of _sched_yield
  frame,            \* x0 in the frame at TIMESTACK, the registers of curenv
  mail,             \* user memory: where each program's ipc_recv put its results
  kernel,           \* "running", "panic", "spin" when _sched_yield never
                    \* returns, or "wild" when a program has lost its memory
  view              \* auxiliary: the x0 each program must find

envVars == <<env_status, env_id, env_parent_id, env_free_list, next_env_id>>
ipcVars == <<env_ipc_recving, env_ipc, mail>>
runVars == <<env_tf, curenv, index, frame, view>>
vars == <<envVars, ipcVars, runVars, kernel>>

Live(i) == env_status[i] # "FREE"

-----------------------------------------------------------------------------
(* A program is running and traps.                                         *)
Runs == kernel = "running" /\ curenv # NoEnv

(* sys_return writes x0 of the caller's frame.                             *)
sys_return(ret) ==
  /\ frame' = ret
  /\ view' = [view EXCEPT ![curenv] = ret]

(* _sched_yield over the given statuses: the first RUNNABLE slot after     *)
(* index, around the table, index itself last.                             *)
After(i, k) == (i + k) % NENV
Turns(status) == {k \in 1..NENV : status[After(index, k)] = "RUNNABLE"}

(* Mutant of NextRunnable: the search starts over at slot 0 each time.     *)
FirstRunnable(status) ==
  CHOOSE i \in Slot : /\ status[i] = "RUNNABLE"
                      /\ \A j \in Slot : status[j] = "RUNNABLE" => i <= j

NextRunnable(status) ==
  After(index, CHOOSE k \in Turns(status) : \A m \in Turns(status) : k <= m)

(* Mutant of env_run: the frame is not saved.                              *)
RunUnsaved(e, old) ==
  /\ env_tf' = env_tf
  /\ frame' = env_tf[e]
  /\ curenv' = e
  /\ IF env_ipc_recving[e] = 2
     THEN /\ env_ipc_recving' = [env_ipc_recving EXCEPT ![e] = 0]
          /\ mail' = [mail EXCEPT ![e] = env_ipc[e]]
     ELSE UNCHANGED <<env_ipc_recving, mail>>
  /\ UNCHANGED env_ipc

(* Mutant of env_run: no message is handed over.                           *)
RunWithoutMail(e, old) ==
  /\ env_tf' = IF old = NoEnv THEN env_tf ELSE [env_tf EXCEPT ![old] = frame]
  /\ frame' = env_tf'[e]
  /\ curenv' = e
  /\ UNCHANGED ipcVars

(* Mutant of env_run: env_ipc_recving stays 2 when a message has been      *)
(* handed over.                                                            *)
RunStillReceiving(e, old) ==
  /\ env_tf' = IF old = NoEnv THEN env_tf ELSE [env_tf EXCEPT ![old] = frame]
  /\ frame' = env_tf'[e]
  /\ curenv' = e
  /\ mail' = IF env_ipc_recving[e] = 2 THEN [mail EXCEPT ![e] = env_ipc[e]] ELSE mail
  /\ UNCHANGED <<env_ipc_recving, env_ipc>>

(* env_run: the frame is saved for the environment that had it, if any,    *)
(* and loaded from the next one, whose pending message is handed over.     *)
env_run(e, old) ==
  /\ env_tf' = IF old = NoEnv THEN env_tf ELSE [env_tf EXCEPT ![old] = frame]
  /\ frame' = env_tf'[e]
  /\ curenv' = e
  /\ IF env_ipc_recving[e] = 2
     THEN /\ env_ipc_recving' = [env_ipc_recving EXCEPT ![e] = 0]
          /\ mail' = [mail EXCEPT ![e] = env_ipc[e]]
     ELSE UNCHANGED <<env_ipc_recving, mail>>
  /\ UNCHANGED env_ipc

(* Mutant of Schedule: index is not static.                                *)
ScheduleForgetful(status, old) ==
  IF Turns(status) = {}
  THEN /\ kernel' = "spin"
       /\ curenv' = old
       /\ UNCHANGED <<env_tf, frame, index, view, ipcVars>>
  ELSE /\ env_run(NextRunnable(status), old)
       /\ UNCHANGED <<index, view, kernel>>

(* With nobody RUNNABLE the search goes round for ever: no interrupt can   *)
(* come in, and no other core can change a status.                         *)
Schedule(status, old) ==
  IF Turns(status) = {}
  THEN /\ kernel' = "spin"
       /\ curenv' = old
       /\ UNCHANGED <<env_tf, frame, index, view, ipcVars>>
  ELSE /\ index' = NextRunnable(status)
       /\ env_run(NextRunnable(status), old)
       /\ UNCHANGED <<view, kernel>>

(* The timer.  Its first interrupt comes while main still loops and there  *)
(* is no curenv yet.                                                       *)
irq_handler ==
  /\ kernel = "running"
  /\ Schedule(env_status, curenv)
  /\ UNCHANGED envVars

_sched_yield ==
  /\ Runs
  /\ Schedule(env_status, curenv)
  /\ UNCHANGED envVars
-----------------------------------------------------------------------------
(* Names.                                                                  *)
(* Mutant of mkenvid: the slot is left out.                                *)
IdWithoutSlot(e) == ((next_env_id + 1) * 2 * NENV) % (2 * NENV * Gens)

mkenvid(e) == ((next_env_id + 1) * 2 * NENV + e) % (2 * NENV * Gens)

(* Mutants of envid2env: the test of ENV_FREE, or of env_id, is missing.   *)
EnvOfAnyStatus(envid) ==
  IF envid = 0 THEN curenv
  ELSE IF env_id[ENVX(envid)] = envid THEN ENVX(envid)
  ELSE NoEnv

EnvOfSlot(envid) ==
  IF envid = 0 THEN curenv
  ELSE IF Live(ENVX(envid)) THEN ENVX(envid)
  ELSE NoEnv

envid2env(envid) ==
  IF envid = 0 THEN curenv
  ELSE IF Live(ENVX(envid)) /\ env_id[ENVX(envid)] = envid THEN ENVX(envid)
  ELSE NoEnv

(* With checkperm set.                                                     *)
Permitted(e) == e = curenv \/ env_parent_id[e] = env_id[curenv]

_getenvid ==
  /\ Runs
  /\ sys_return(env_id[curenv])
  /\ UNCHANGED <<envVars, ipcVars, env_tf, curenv, index, kernel>>

(* env_alloc and the rest of _fork.  The child's registers are the frame,  *)
(* with 0 for the result.                                                  *)
_fork ==
  /\ Runs /\ env_free_list # <<>> /\ next_env_id < MaxAlloc
  /\ LET e == Head(env_free_list) IN
       /\ env_free_list' = Tail(env_free_list)
       /\ next_env_id' = next_env_id + 1
       /\ env_id' = [env_id EXCEPT ![e] = mkenvid(e)]
       /\ env_parent_id' = [env_parent_id EXCEPT ![e] = env_id[curenv]]
       /\ env_status' = [env_status EXCEPT ![e] = "RUNNABLE"]
       /\ env_ipc_recving' = [env_ipc_recving EXCEPT ![e] = 0]
       /\ mail' = [mail EXCEPT ![e] = mail[curenv]]
       /\ env_tf' = [env_tf EXCEPT ![e] = 0]
       /\ frame' = mkenvid(e)
       /\ view' = [view EXCEPT ![e] = 0, ![curenv] = mkenvid(e)]
  /\ UNCHANGED <<env_ipc, curenv, index, kernel>>

(* env_free of the caller itself, which the scheduler then leaves.         *)
DestroySelf(envid) ==
  /\ Runs /\ envid2env(envid) = curenv
  /\ env_status' = [env_status EXCEPT ![curenv] = "FREE"]
  /\ env_free_list' = <<curenv>> \o env_free_list
  /\ Schedule(env_status', NoEnv)
  /\ UNCHANGED <<env_id, env_parent_id, next_env_id>>

(* Mutant of DestroyChild: the result of envid2env is not looked at.       *)
DestroyUnchecked(envid) ==
  /\ Runs
  /\ LET e == envid2env(envid) IN
       /\ e # curenv
       /\ env_status' = [i \in Slot |-> IF i = e THEN "FREE" ELSE env_status[i]]
       /\ env_free_list' = <<e>> \o env_free_list
  /\ kernel' = "wild"
  /\ UNCHANGED <<env_id, env_parent_id, next_env_id, ipcVars, runVars>>

(* env_free of a child walks, and takes away, the page tables of the       *)
(* caller: what the caller does next is not modelled.                      *)
DestroyChild(envid) ==
  /\ Runs
  /\ LET e == envid2env(envid) IN
       /\ e \notin {curenv, NoEnv} /\ Permitted(e)
       /\ env_status' = [env_status EXCEPT ![e] = "FREE"]
       /\ env_free_list' = <<e>> \o env_free_list
  /\ kernel' = "wild"
  /\ UNCHANGED <<env_id, env_parent_id, next_env_id, ipcVars, runVars>>

(* Any other envid is refused without an answer.                           *)
DestroyRefused(envid) ==
  /\ Runs
  /\ \/ envid2env(envid) = NoEnv
     \/ envid2env(envid) # NoEnv /\ ~Permitted(envid2env(envid))
  /\ UNCHANGED vars
-----------------------------------------------------------------------------
(* Messages.                                                               *)

_ipc_can_recv ==
  /\ Runs /\ env_ipc_recving[curenv] = 0
  /\ env_ipc_recving' = [env_ipc_recving EXCEPT ![curenv] = 1]
  /\ env_status' = [env_status EXCEPT ![curenv] = "NOT_RUNNABLE"]
  /\ UNCHANGED <<env_id, env_parent_id, env_free_list, next_env_id,
                 env_ipc, mail, runVars, kernel>>

SendAnswers(ret) ==
  /\ sys_return(ret)
  /\ UNCHANGED <<envVars, ipcVars, env_tf, curenv, index, kernel>>

SendRefused(envid) ==
  /\ Runs
  /\ \/ envid2env(envid) = NoEnv /\ SendAnswers(E_BAD_ENV)
     \/ /\ envid2env(envid) # NoEnv
        /\ env_ipc_recving[envid2env(envid)] # 1
        /\ SendAnswers(E_IPC_NOT_RECV)

(* The sender offers a page that is not there, or the receiver's tables    *)
(* cannot be extended.                                                     *)
SendNoPage(envid) ==
  /\ Runs
  /\ envid2env(envid) # NoEnv /\ env_ipc_recving[envid2env(envid)] = 1
  /\ \E ret \in {E_INVAL, E_NO_MEM} : SendAnswers(ret)

(* Mutant of SendAccepted: the receiver is not woken.                      *)
SendWithoutWaking(envid, value) ==
  /\ Runs
  /\ LET e == envid2env(envid) IN
       /\ e # NoEnv /\ env_ipc_recving[e] = 1
       /\ env_ipc_recving' = [env_ipc_recving EXCEPT ![e] = 2]
       /\ env_ipc' = [env_ipc EXCEPT
            ![e] = [from |-> env_id[curenv], value |-> value]]
  /\ sys_return(0)
  /\ UNCHANGED <<envVars, mail, env_tf, curenv, index, kernel>>

SendAccepted(envid, value) ==
  /\ Runs
  /\ LET e == envid2env(envid) IN
       /\ e # NoEnv /\ env_ipc_recving[e] = 1
       /\ env_ipc_recving' = [env_ipc_recving EXCEPT ![e] = 2]
       /\ env_ipc' = [env_ipc EXCEPT
            ![e] = [from |-> env_id[curenv], value |-> value]]
       /\ env_status' = [env_status EXCEPT ![e] = "RUNNABLE"]
  /\ sys_return(0)
  /\ UNCHANGED <<env_id, env_parent_id, env_free_list, next_env_id,
                 mail, env_tf, curenv, index, kernel>>

_ipc_can_send(envid, value) ==
  SendRefused(envid) \/ SendNoPage(envid) \/ SendAccepted(envid, value)

(* A second ipc_can_recv before the first is served, or a fork without a   *)
(* free slot.  (Faults that no handler mends are in Fork.)                 *)
Panic ==
  /\ Runs
  /\ env_ipc_recving[curenv] # 0 \/ env_free_list = <<>>
  /\ kernel' = "panic"
  /\ UNCHANGED <<envVars, ipcVars, runVars>>
-----------------------------------------------------------------------------
(* env_init and env_create: the table is free but for the first program.   *)
Init ==
  /\ env_status = [i \in Slot |-> IF i = 0 THEN "RUNNABLE" ELSE "FREE"]
  /\ env_id = [i \in Slot |-> IF i = 0 THEN 2 * NENV % (2 * NENV * Gens) ELSE 0]
  /\ env_parent_id = [i \in Slot |-> 0]
  /\ env_ipc_recving = [i \in Slot |-> 0]
  /\ env_ipc = [i \in Slot |-> NoMail]
  /\ env_tf = [i \in Slot |-> 0]
  /\ env_free_list = [k \in 1..(NENV - 1) |-> k]
  /\ next_env_id = 1
  /\ curenv = NoEnv
  /\ index = 0
  /\ frame = 0
  /\ mail = [i \in Slot |-> NoMail]
  /\ kernel = "running"
  /\ view = [i \in Slot |-> 0]

(* The ids a program may have got hold of, or made up from one.            *)
Known == {0} \cup {(g * 2 * NENV + i) % (2 * NENV * Gens) : g \in 1..MaxAlloc, i \in Slot}

Next ==
  \/ irq_handler \/ _sched_yield
  \/ _getenvid \/ _fork \/ _ipc_can_recv \/ Panic
  \/ \E envid \in Known :
       \/ DestroySelf(envid) \/ DestroyChild(envid) \/ DestroyRefused(envid)
       \/ \E value \in Value : _ipc_can_send(envid, value)

Spec == Init /\ [][Next]_vars

(* The timer is set again after every interrupt, and interrupts are open   *)
(* whenever a program runs.                                                *)
FairSpec == Spec /\ WF_vars(irq_handler)
-----------------------------------------------------------------------------
(***************************************************************************)
(* Properties                                                              *)
(***************************************************************************)

(* The shapes of the variables.                                            *)
TypeOK ==
  /\ env_status \in [Slot -> {"FREE", "RUNNABLE", "NOT_RUNNABLE"}]
  /\ env_id \in [Slot -> EnvId] /\ env_parent_id \in [Slot -> EnvId]
  /\ env_ipc_recving \in [Slot -> 0..2]
  /\ env_ipc \in [Slot -> Mail \cup {NoMail}]
  /\ env_tf \in [Slot -> Reg] /\ frame \in Reg /\ view \in [Slot -> Reg]
  /\ env_free_list \in Seq(Slot)
  /\ next_env_id \in Nat
  /\ curenv \in Slot \cup {NoEnv} /\ index \in Slot
  /\ mail \in [Slot -> Mail \cup {NoMail}]
  /\ kernel \in {"running", "panic", "spin", "wild"}

(* env_free_list holds the ENV_FREE slots and no others, each once: a slot *)
(* is never handed to two programs, and none gets lost.                    *)
FreeListExact ==
  /\ \A j, k \in DOMAIN env_free_list :
       env_free_list[j] = env_free_list[k] => j = k
  /\ \A i \in Slot :
       ~Live(i) <=> \E k \in DOMAIN env_free_list : env_free_list[k] = i

(* The slot _sched_yield remembers is the one that runs, and it is in use: *)
(* round robin goes on from there, and a system call acts on its caller.   *)
CurrentIsIndex ==
  kernel = "running" /\ curenv # NoEnv => curenv = index /\ Live(curenv)

(* ENV_NOT_RUNNABLE and env_ipc_recving = 1 go together, although          *)
(* _ipc_can_recv goes on running as NOT_RUNNABLE until it yields, and the  *)
(* timer, a sender or a destroyer may come in between.                     *)
BlockedIffReceiving ==
  \A i \in Slot : Live(i) =>
    (env_status[i] = "NOT_RUNNABLE" <=> env_ipc_recving[i] = 1)

(* A program never runs with a message that has arrived and not been       *)
(* handed over, unless it sent the message to itself.                      *)
MailHandedOver ==
  kernel = "running" /\ curenv # NoEnv /\ env_ipc_recving[curenv] = 2
    => env_ipc[curenv].from = env_id[curenv]

(* However interrupts, yields, forks and exits follow one another, each    *)
(* program finds in x0 the result of its own last system call: there is    *)
(* one frame at TIMESTACK for all of them.                                 *)
RegistersPrivate ==
  \A i \in Slot : Live(i) => (IF i = curenv THEN frame ELSE env_tf[i]) = view[i]

(* Every environment is found under its own name, whoever asks (mkenvid:   *)
(* "making an unique ID for every env").                                   *)
IdResolves ==
  kernel = "running" => \A i \in Slot : Live(i) => envid2env(env_id[i]) = i

(* Round robin: what can run does run, whatever the others do.             *)
NoStarvation ==
  \A i \in Slot :
    env_status[i] = "RUNNABLE" ~>
      curenv = i \/ env_status[i] # "RUNNABLE" \/ kernel # "running"
=============================================================================
