------------------------------ MODULE MCIpcLib ------------------------------
(* IpcLib on small tables.                                                 *)
EXTENDS IpcLib, TLC

(* What the rest of a run can depend on.  Dead are: the fields of a free   *)
(* slot, the message fields of an environment no message waits for, the    *)
(* saved registers of the one that runs, the results of an ipc_recv that   *)
(* is over and the arguments of an ipc_send that is, and view, which no    *)
(* property here reads.                                                    *)
Seen ==
  <<env_free_list, next_env_id, curenv, index, kernel,
    [i \in Slot |->
       IF Live(i)
       THEN <<env_status[i], env_id[i], env_ipc_recving[i],
              IF env_ipc_recving[i] = 2 THEN env_ipc[i] ELSE NoMail,
              IF pc[i] = "sent" THEN Result(i) ELSE 0, pc[i],
              IF pc[i] \in {"got", "yield_recv"} THEN mail[i] ELSE NoMail,
              IF pc[i] \in {"can_send", "sent", "yield_send"}
              THEN out[i] ELSE <<>> >>
       ELSE <<>>]>>
=============================================================================
