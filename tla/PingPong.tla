------------------------------ MODULE PingPong ------------------------------
(***************************************************************************)
(* The program src/user/test-pingpong.c on the kernel of Env with the      *)
(* library of IpcLib: a parent and its child hit a ball back and forth     *)
(* until its number is Last.                                               *)
(***************************************************************************)
EXTENDS IpcLib

CONSTANT Last  \* the number of the last ball, 10 in the program

ASSUME LastAssumption == Last \in Nat \ {0} /\ 0..Last \subseteq Value

VARIABLES
  at,    \* where each program is in umain
  ball,  \* its variable i
  who    \* its variable who

programVars == <<at, ball, who>>
everything == <<allVars, programVars>>

Proceed(l) == at' = [at EXCEPT ![curenv] = l]
Here(l) == At("user") /\ at[curenv] = l

(* who = fork()                                                            *)
Fork ==
  /\ Here("fork") /\ fork
  /\ at' = [at EXCEPT ![curenv] = "forked", ![Head(env_free_list)] = "forked"]
  /\ ball' = [ball EXCEPT ![Head(env_free_list)] = ball[curenv]]
  /\ UNCHANGED who

(* The parent, who is not told 0, serves.                                  *)
Serve ==
  /\ Here("forked") /\ frame # 0
  /\ who' = [who EXCEPT ![curenv] = frame]
  /\ ipc_send(frame, 0)
  /\ Proceed("served")
  /\ UNCHANGED ball

Wait ==
  /\ \/ Here("forked") /\ frame = 0
     \/ Here("served")
     \/ Here("hit") /\ ball[curenv] # Last
  /\ ipc_recv
  /\ Proceed("received")
  /\ UNCHANGED <<ball, who>>

(* The number is checked, raised and sent back.                            *)
Hit ==
  /\ Here("received") /\ mail[curenv].value # Last
  /\ ball' = [ball EXCEPT ![curenv] = mail[curenv].value + 1]
  /\ who' = [who EXCEPT ![curenv] = mail[curenv].from]
  /\ ipc_send(mail[curenv].from, mail[curenv].value + 1)
  /\ Proceed("hit")

Stop ==
  /\ \/ Here("received") /\ mail[curenv].value = Last
     \/ Here("hit") /\ ball[curenv] = Last
  /\ Proceed("stopped")
  /\ UNCHANGED <<allVars, ball, who>>

Library == LibStep /\ UNCHANGED programVars

-----------------------------------------------------------------------------
PingInit ==
  /\ LibInit
  /\ at = [i \in Slot |-> "fork"]
  /\ ball = [i \in Slot |-> 0]
  /\ who = [i \in Slot |-> 0]

Step == Fork \/ Serve \/ Wait \/ Hit \/ Stop \/ Library

PingNext == Step \/ (Timer /\ UNCHANGED programVars)

(* The timer keeps ticking, and a turn is long enough (1 s) for a program  *)
(* to get somewhere now and then before the next tick.                     *)
PingSpec ==
  /\ PingInit /\ [][PingNext]_everything
  /\ WF_everything(Timer /\ UNCHANGED programVars)
  /\ \A i \in Slot : SF_everything(curenv = i /\ Step)
-----------------------------------------------------------------------------
(***************************************************************************)
(* Properties                                                              *)
(***************************************************************************)

(* The ball has arrived at i, which has yet to look at it, or i is sending *)
(* it and has not been told that it arrived.                               *)
InHand(i) ==
  \/ pc[i] \in {"can_send", "yield_send"} /\ at[i] \in {"served", "hit"}
  \/ pc[i] = "sent" /\ Result(i) = E_IPC_NOT_RECV
  \/ at[i] = "received" /\ pc[i] \in {"user", "yield_recv", "got"}
       /\ env_ipc_recving[i] # 1

(* The ball is never in two places: at every moment one program at most    *)
(* has it, in the middle of a retry or of an interrupted ipc_recv too.     *)
OneBall == \A i, j \in Slot : Live(i) /\ Live(j) /\ InHand(i) /\ InHand(j) => i = j

(* The rally ends, with both programs in while(1), however the timer cuts  *)
(* the two loops: no send is lost and no receiver is left waiting.         *)
RallyEnds == <>(\E i, j \in Slot : i # j /\ at[i] = "stopped" /\ at[j] = "stopped")
=============================================================================
