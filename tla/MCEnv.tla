------------------------------- MODULE MCEnv -------------------------------
(* Env on small tables.                                                    *)
EXTENDS Env, TLC

(* What the rest of a run can depend on.  Dead are: every field of a free  *)
(* slot but those env_alloc leaves alone and nobody reads, the message     *)
(* fields of an environment no message waits for, the saved registers of   *)
(* the one that runs, and the user memory mail, which no property reads.   *)
Seen ==
  <<env_free_list, next_env_id, curenv, index, kernel,
    [i \in Slot |->
       IF Live(i)
       THEN <<env_status[i], env_id[i], env_parent_id[i], env_ipc_recving[i],
              IF env_ipc_recving[i] = 2 THEN env_ipc[i] ELSE NoMail,
              IF i = curenv THEN frame ELSE env_tf[i], view[i]>>
       ELSE <<>>]>>
=============================================================================
