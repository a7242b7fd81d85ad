--------------------------- MODULE GrassRefinement ---------------------------
(***************************************************************************)
(* Grass implements SyncIPC.  A message has been exchanged, as far as the  *)
(* callers can tell, once proc_try_send has marked the receiver's system   *)
(* call DONE; the wake-up of both by proc_try_recv is not visible.         *)
(***************************************************************************)
EXTENDS Grass

\* The receivers whose message is in the kernel's copy of their system call while
\* they are still blocked.
HandedOver == {r \in Slots : Blocked(r) /\ Received(syscall, r)}
\* s's message has been handed over, and s is still blocked.
Taken(s, handed) == \E r \in handed : Sending(s, r) /\ syscall[r].sender = pid[s]

Waiting(k, handed) ==
  IF ~Blocked(k) THEN "idle" ELSE
  IF syscall[k].type = "SEND" THEN IF Taken(k, handed) THEN "idle" ELSE "sending"
                              ELSE IF k \in handed THEN "idle" ELSE "receiving"

ipcState ==
  LET handed == HandedOver
  IN  [k \in Slots |-> IF Live(k) THEN Waiting(k, handed) ELSE "absent"]
ipcRequest ==
  LET handed == HandedOver
  IN  [k \in Slots |->
         IF ~Blocked(k) THEN NoCall ELSE
         CASE Waiting(k, handed) = "sending" ->
                [peer |-> syscall[k].receiver, content |-> syscall[k].content]
           [] Waiting(k, handed) = "receiving" -> [peer |-> syscall[k].sender]
           [] OTHER -> NoCall]
ipcInbox ==
  [k \in Slots |->
     CASE status[k] \in {"UNUSED", "LOADING"} -> NoMsg
       [] Blocked(k) /\ Received(syscall, k) ->
            [sender |-> syscall[k].sender, content |-> syscall[k].content]
       [] OTHER -> usr[k]]

IPC == INSTANCE SyncIPC WITH Endpoints <- Slots, Names <- Pids, Any <- GPID_ALL,
         NoRequest <- NoCall, NoMessage <- NoMsg,
         name <- pid, state <- ipcState, request <- ipcRequest, inbox <- ipcInbox

\* sys_send and sys_recv, as proc_try_send, proc_try_recv and the loop of
\* proc_yield implement them, are synchronous message passing: every step of the
\* kernel is one step of SyncIPC or is invisible to the callers.
ImplementsSyncIPC == IPC!IPCSpec

=============================================================================
