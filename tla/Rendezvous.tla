----------------------------- MODULE Rendezvous -----------------------------
(***************************************************************************)
(* What ipc_send and ipc_recv promise: a message goes from one sender to   *)
(* one receiver in a single step, in which the sender is answered 0 and    *)
(* the receiver gets the value and the sender's name.  There is no kernel  *)
(* here, no retry, and nobody is interrupted.                              *)
(***************************************************************************)
CONSTANTS Slot, Name, NoName, Value, BadEnv

VARIABLES
  name,   \* who is in each slot, NoName when nobody is
  party   \* what they are doing

vars == <<name, party>>

Absent == [at |-> "absent"]
Idle == [at |-> "idle"]
Sending(to, v) == [at |-> "sending", to |-> to, value |-> v]
Answered(ret) == [at |-> "answered", ret |-> ret]
Receiving == [at |-> "receiving"]
Received(from, v) == [at |-> "received", from |-> from, value |-> v]

Becomes(i, p) == party' = [party EXCEPT ![i] = p] /\ UNCHANGED name

Start(i, n) ==
  /\ name[i] = NoName /\ n # NoName /\ \A j \in Slot : name[j] # n
  /\ name' = [name EXCEPT ![i] = n]
  /\ party' = [party EXCEPT ![i] = Idle]

Exit(i) ==
  /\ party[i] = Idle
  /\ name' = [name EXCEPT ![i] = NoName]
  /\ party' = [party EXCEPT ![i] = Absent]

CallSend(i, to, v) == party[i] = Idle /\ Becomes(i, Sending(to, v))
CallRecv(i) == party[i] = Idle /\ Becomes(i, Receiving)

(* A send fails only when nobody has the name.                             *)
Refuse(i) ==
  /\ party[i].at = "sending"
  /\ \A j \in Slot : name[j] # party[i].to
  /\ Becomes(i, Answered(BadEnv))

Transfer(s, r) ==
  /\ party[s].at = "sending" /\ party[s].to = name[r]
  /\ party[r] = Receiving
  /\ party' = [party EXCEPT ![s] = Answered(0),
                            ![r] = Received(name[s], party[s].value)]
  /\ UNCHANGED name

Return(i) == party[i].at \in {"answered", "received"} /\ Becomes(i, Idle)

(* One program at boot.                                                    *)
Init ==
  \E i \in Slot, n \in Name \ {NoName} :
    /\ name = [j \in Slot |-> IF j = i THEN n ELSE NoName]
    /\ party = [j \in Slot |-> IF j = i THEN Idle ELSE Absent]

Next ==
  \/ \E i \in Slot : Exit(i) \/ CallRecv(i) \/ Refuse(i) \/ Return(i)
  \/ \E i \in Slot, n \in Name : Start(i, n)
  \/ \E i \in Slot, to \in Name, v \in Value : CallSend(i, to, v)
  \/ \E s, r \in Slot : Transfer(s, r)

Spec == Init /\ [][Next]_vars
=============================================================================
