----------------------------- MODULE PrivateMem -----------------------------
(***************************************************************************)
(* What fork promises the programs: each environment has a memory of its   *)
(* own.  A child starts with a copy of its parent's memory, and from then  *)
(* on nobody sees what another one writes.  There are no pages here, and   *)
(* nothing is shared.                                                      *)
(***************************************************************************)
CONSTANTS AS, VA, Value, Unmapped

VARIABLES
  live,  \* the environments that exist
  mem    \* mem[e][va], Unmapped when e has nothing there

vars == <<live, mem>>

Write(e, va, v) ==
  /\ e \in live /\ mem[e][va] # Unmapped
  /\ mem' = [mem EXCEPT ![e][va] = v]
  /\ UNCHANGED live

(* The child lacks the addresses of miss when memory runs out.             *)
Fork(e, c, miss) ==
  /\ e \in live /\ c \notin live
  /\ live' = live \cup {c}
  /\ mem' = [mem EXCEPT
       ![c] = [va \in VA |-> IF va \in miss THEN Unmapped ELSE mem[e][va]]]

Exit(e) ==
  /\ e \in live
  /\ live' = live \ {e}
  /\ mem' = [mem EXCEPT ![e] = [va \in VA |-> Unmapped]]

(* One program is loaded at boot, into memory of any contents.             *)
Init ==
  \E e \in AS :
    /\ live = {e}
    /\ mem \in [AS -> [VA -> Value \cup {Unmapped}]]
    /\ \A a \in AS \ {e}, va \in VA : mem[a][va] = Unmapped

Next ==
  \/ \E e \in AS, va \in VA, v \in Value : Write(e, va, v)
  \/ \E e, c \in AS, miss \in SUBSET VA : Fork(e, c, miss)
  \/ \E e \in AS : Exit(e)

Spec == Init /\ [][Next]_vars
=============================================================================
