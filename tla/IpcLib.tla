------------------------------ MODULE IpcLib ------------------------------
(***************************************************************************)
(* The user side of message passing, ipc_send and ipc_recv of              *)
(* src/os/user/syscall.c, over the system calls of Env.                    *)
(*                                                                         *)
(* Both are loops or sequences of several traps, and the timer may stop    *)
(* the program between any two of them.  The programs call these two, fork *)
(* and env_destroy(getenvid()), in any order.                              *)
(***************************************************************************)
EXTENDS Env

ASSUME ValueAssumption == Value # {}

VARIABLES
  pc,   \* where each program is in the library, "user" outside it
  out   \* the arguments of its ipc_send

userVars == <<pc, out>>
allVars == <<vars, userVars>>

Goto(l) == pc' = [pc EXCEPT ![curenv] = l]
At(l) == Runs /\ pc[curenv] = l

-----------------------------------------------------------------------------
(* ipc_send: while ipc_can_send answers -E_IPC_NOT_RECV, yield.  No page   *)
(* goes along.                                                             *)
ipc_send(to, value) ==
  /\ At("user")
  /\ Goto("can_send")
  /\ out' = [out EXCEPT ![curenv] = [to |-> to, value |-> value]]
  /\ UNCHANGED vars

TrapSend ==
  /\ At("can_send")
  /\ \/ SendRefused(out[curenv].to)
     \/ SendAccepted(out[curenv].to, out[curenv].value)
  /\ Goto("sent")
  /\ UNCHANGED out

(* Mutant of SendRetry: the loop goes on whatever the answer is.           *)
SendAgain ==
  /\ At("sent")
  /\ Goto("yield_send")
  /\ UNCHANGED <<vars, out>>

SendRetry ==
  /\ At("sent") /\ frame = E_IPC_NOT_RECV
  /\ Goto("yield_send")
  /\ UNCHANGED <<vars, out>>

SendReturn ==
  /\ At("sent") /\ frame # E_IPC_NOT_RECV
  /\ Goto("user")
  /\ UNCHANGED <<vars, out>>

YieldSend == At("yield_send") /\ _sched_yield /\ Goto("can_send") /\ UNCHANGED out

(* ipc_recv: ipc_can_recv, yield, and the value is there.  At "got" the    *)
(* trap of yield has been taken; it returns when the program next runs.    *)
ipc_recv == At("user") /\ Goto("can_recv") /\ UNCHANGED <<vars, out>>

TrapRecv ==
  /\ At("can_recv")
  /\ \/ _ipc_can_recv
     \/ env_ipc_recving[curenv] # 0 /\ Panic
  /\ Goto("yield_recv")
  /\ UNCHANGED out

YieldRecv == At("yield_recv") /\ _sched_yield /\ Goto("got") /\ UNCHANGED out

RecvReturn == At("got") /\ Goto("user") /\ UNCHANGED <<vars, out>>

(* A program forks only while there is a free slot.  The child is where    *)
(* its parent is.                                                          *)
fork ==
  /\ At("user") /\ _fork
  /\ pc' = [pc EXCEPT ![Head(env_free_list)] = "user"]
  /\ out' = [out EXCEPT ![Head(env_free_list)] = out[curenv]]

exit == At("user") /\ DestroySelf(env_id[curenv]) /\ UNCHANGED userVars

Timer == irq_handler /\ UNCHANGED userVars

-----------------------------------------------------------------------------
LibInit ==
  /\ Init
  /\ pc = [i \in Slot |-> "user"]
  /\ out = [i \in Slot |-> [to |-> 0, value |-> CHOOSE v \in Value : TRUE]]

LibStep == \/ TrapSend \/ SendRetry \/ SendReturn \/ YieldSend
           \/ TrapRecv \/ YieldRecv \/ RecvReturn

LibNext == \/ Timer \/ LibStep \/ ipc_recv \/ fork \/ exit
           \/ \E to \in Known, v \in Value : ipc_send(to, v)

LibSpec == LibInit /\ [][LibNext]_allVars
-----------------------------------------------------------------------------
(***************************************************************************)
(* Properties                                                              *)
(***************************************************************************)

(* The program's x0, whether it is running or not.                         *)
Result(i) == IF i = curenv THEN frame ELSE env_tf[i]

(* A message has arrived for i, and lies in the kernel or in its memory.   *)
Arrived(i) == IF env_ipc_recving[i] = 2 THEN env_ipc[i] ELSE mail[i]

(* What i is doing, as its callers see it: a send that is tried again goes *)
(* on, a receiver waits until its message has arrived.                     *)
Sends(i) == \/ pc[i] \in {"can_send", "yield_send"}
            \/ pc[i] = "sent" /\ Result(i) = E_IPC_NOT_RECV
Waits(i) == \/ pc[i] = "can_recv"
            \/ pc[i] \in {"yield_recv", "got"} /\ env_ipc_recving[i] = 1

Party(i) ==
  CASE ~Live(i) -> [at |-> "absent"]
    [] Live(i) /\ pc[i] = "user" -> [at |-> "idle"]
    [] Live(i) /\ Sends(i) ->
         [at |-> "sending", to |-> out[i].to, value |-> out[i].value]
    [] Live(i) /\ pc[i] = "sent" /\ ~Sends(i) -> [at |-> "answered", ret |-> Result(i)]
    [] Live(i) /\ Waits(i) -> [at |-> "receiving"]
    [] Live(i) /\ pc[i] \in {"yield_recv", "got"} /\ ~Waits(i) ->
         [at |-> "received", from |-> Arrived(i).from, value |-> Arrived(i).value]

NameNow == [i \in Slot |-> IF Live(i) THEN env_id[i] ELSE 0]
PartyNow == [i \in Slot |-> Party(i)]

R == INSTANCE Rendezvous WITH
  Name <- EnvId, NoName <- 0, BadEnv <- E_BAD_ENV, name <- NameNow, party <- PartyNow

(* Whatever the timer does between the traps of ipc_send and ipc_recv, a   *)
(* message is passed as Rendezvous says: once, whole, to the receiver it   *)
(* was meant for, the answer 0 if and only if it was.                      *)
RendezvousSpec == R!Spec

(* Programs that receive through ipc_recv alone never meet the panic       *)
(* "already recving!".                                                     *)
RecvNeverPanics == kernel # "panic"
=============================================================================
