------------------------------- MODULE SyncIPC -------------------------------
(***************************************************************************)
(* What sys_send and sys_recv promise to their callers: synchronous        *)
(* message passing.  A send blocks until the process it names takes the    *)
(* message; a receive blocks until a process it accepts sends one; an      *)
(* exchange frees both and nobody else, and gives the receiver exactly the *)
(* sender's message.  An exchange that is possible happens before any      *)
(* process goes on.  Queues, polling and scheduling do not appear here.    *)
(***************************************************************************)
EXTENDS Integers

CONSTANTS Endpoints,   \* places a process can live in
          Names,       \* pids
          Any,         \* a receiver that accepts everyone
          Contents,    \* message bodies
          NoRequest, NoMessage

VARIABLES name,     \* the pid of the process at each endpoint
          state,    \* "absent", "idle", "sending" or "receiving"
          request,  \* what a blocked process asks for
          inbox     \* the message its last receive returned

ipcVars == <<name, state, request, inbox>>

IPCInit ==
  /\ \E e \in Endpoints :
       state = [x \in Endpoints |-> IF x = e THEN "idle" ELSE "absent"]
  /\ name \in [Endpoints -> Names]
  /\ request = [e \in Endpoints |-> NoRequest]
  /\ inbox = [e \in Endpoints |-> NoMessage]

\* s is sending to r, and r accepts s.
Matches(s, r) ==
  /\ state[s] = "sending" /\ state[r] = "receiving"
  /\ request[s].peer = name[r] /\ request[r].peer \in {Any, name[s]}

Quiet ==
  LET senders == {s \in Endpoints : state[s] = "sending"}
      receivers == {r \in Endpoints : state[r] = "receiving"}
  IN  \A s \in senders, r \in receivers : ~Matches(s, r)

Create(e) ==
  /\ state[e] = "absent" /\ state' = [state EXCEPT ![e] = "idle"]
  /\ \E n \in Names \ {name[x] : x \in Endpoints} : name' = [name EXCEPT ![e] = n]
  /\ UNCHANGED <<request, inbox>>

Destroy(e) ==
  /\ state[e] # "absent" /\ state' = [state EXCEPT ![e] = "absent"]
  /\ request' = [request EXCEPT ![e] = NoRequest]
  /\ inbox' = [inbox EXCEPT ![e] = NoMessage]
  /\ UNCHANGED name

\* Nobody is waiting for this message yet.
SendAndWait(e) ==
  /\ state[e] = "idle" /\ state' = [state EXCEPT ![e] = "sending"]
  /\ \E n \in Names, c \in Contents :
       /\ request' = [request EXCEPT ![e] = [peer |-> n, content |-> c]]
       /\ ~\E r \in Endpoints : /\ state[r] = "receiving" /\ name[r] = n
                                /\ request[r].peer \in {Any, name[e]}
  /\ inbox' = [inbox EXCEPT ![e] = NoMessage]
  /\ UNCHANGED name

\* The receiver is waiting: the message goes over at once.
SendNow(e, r) ==
  /\ state[e] = "idle" /\ state[r] = "receiving" /\ request[r].peer \in {Any, name[e]}
  /\ state' = [state EXCEPT ![r] = "idle"]
  /\ request' = [request EXCEPT ![r] = NoRequest]
  /\ \E c \in Contents :
       inbox' = [inbox EXCEPT ![e] = NoMessage, ![r] = [sender |-> name[e], content |-> c]]
  /\ UNCHANGED name

Receive(e) ==
  /\ state[e] = "idle" /\ state' = [state EXCEPT ![e] = "receiving"]
  /\ \E n \in Names \cup {Any} : request' = [request EXCEPT ![e] = [peer |-> n]]
  /\ inbox' = [inbox EXCEPT ![e] = NoMessage]
  /\ UNCHANGED name

Exchange(s, r) ==
  /\ Matches(s, r)
  /\ state' = [state EXCEPT ![s] = "idle", ![r] = "idle"]
  /\ request' = [request EXCEPT ![s] = NoRequest, ![r] = NoRequest]
  /\ inbox' = [inbox EXCEPT ![r] = [sender |-> name[s], content |-> request[s].content]]
  /\ UNCHANGED name

\* Every step changes what some process is doing.
IPCNext ==
  /\ state' # state
  /\ \/ /\ Quiet
        /\ \E e \in Endpoints :
             \/ Create(e) \/ Destroy(e) \/ SendAndWait(e) \/ Receive(e)
             \/ \E r \in Endpoints : SendNow(e, r)
     \/ \E s, r \in Endpoints : Exchange(s, r)

IPCSpec == IPCInit /\ [][IPCNext]_ipcVars

=============================================================================
