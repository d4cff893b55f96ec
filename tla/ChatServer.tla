----------------------------- MODULE ChatServer -----------------------------
(***************************************************************************)
(* HandsOnNetworkProgrammingWithC/tcp_server_chat01/main.c: one process    *)
(* that waits with select and passes on what a client sends to all others. *)
(*                                                                         *)
(* The bytes that clients send are numbered, so that they can be told      *)
(* apart.  Descriptor 0 stands for server_sock, which is opened first and  *)
(* so is below those of the clients.  End of file is not handled: it is    *)
(* passed on as a message of no bytes, again and again.  Nobody ignores    *)
(* SIGPIPE, so a send to a client that has gone may fail or end the server.*)
(* A send blocks, and the server with it, while the client does not read   *)
(* what it was sent before and there is no room for more.                  *)
(***************************************************************************)
EXTENDS Sockets, FiniteSetsExt

CONSTANTS MaxFd,      \* descriptors 1 .. MaxFd are left for connections
          Senders,    \* the clients that say anything
          Slow,       \* the clients that may leave no room
          NULL

Fds == 1 .. MaxFd
server_sock == 0

VARIABLES fds,        \* descriptor -> the client it is connected to, or NULL
          master, max_fd,
          reads,      \* what select has returned and the loop has not come to
          pc,
          buf,        \* what recv has returned ...
          to,         \* ... and to which descriptors it has still to be sent
          since,      \* per client: how much of each was read when it joined
          full        \* clients for which there is no room at the moment

server == <<fds, master, max_fd, reads, pc, buf, to>>
vars == <<net, server, since, full>>

(* The variables have their types. *)
TypeOK == /\ NetTypeOK
          /\ fds \in [Fds -> Clients \cup {NULL}]
          /\ master \subseteq {server_sock} \cup Fds /\ max_fd \in {server_sock} \cup Fds
          /\ reads \subseteq {server_sock} \cup Fds /\ to \subseteq Fds
          /\ pc \in {"select", "loop", "send", "dead"}
          /\ buf \in Seq(Bytes)
          /\ since \in [Clients -> [Clients -> 0 .. MaxSent]] /\ full \subseteq Slow

Init == /\ NetInit
        /\ fds = [d \in Fds |-> NULL]
        /\ master = {server_sock} /\ max_fd = server_sock
        /\ reads = {} /\ to = {}
        /\ pc = "select" /\ buf = <<>>
        /\ since = [c \in Clients |-> [d \in Clients |-> 0]] /\ full = {}

(* The program has ended, or was never started. *)
Off == /\ NetInit
       /\ fds = [d \in Fds |-> NULL]
       /\ master = {} /\ max_fd = server_sock
       /\ reads = {} /\ to = {}
       /\ pc = "dead" /\ buf = <<>>
       /\ since = [c \in Clients |-> [d \in Clients |-> 0]] /\ full = {}

(* How much of what c has sent the server has read. *)
Read(c) == Len(sent[c]) - Len(arrived[c])

Client(c) == /\ pc # "dead"
             /\ \/ Connect(c)
                \/ Close(c)
                \/ c \in Senders /\ Send(c, <<c, Len(sent[c]) + 1>>)
             /\ UNCHANGED <<server, since, full>>

(* A client reads, or it resets the connection: there is room again. *)
ClientReads(c) == /\ c \in full
                  /\ full' = full \ {c}
                  /\ UNCHANGED <<net, server, since>>

(* The process ends, and its connections with it. *)
Die == /\ pc' = "dead"
       /\ CloseOf({fds[d] : d \in Fds} \cap Clients)
       /\ fds' = [d \in Fds |-> NULL]
       /\ master' = {} /\ max_fd' = server_sock /\ reads' = {} /\ to' = {} /\ buf' = <<>>
       /\ full' = {}
       /\ UNCHANGED since

----------------------------------------------------------------------------
Ready(d) == IF d = server_sock THEN backlog # <<>>
            ELSE arrived[fds[d]] # <<>> \/ fin[fds[d]]

(* Mutant: the result of select is not looked at. *)
SelectAll == /\ pc = "select"
             /\ reads' = master /\ \E d \in master : Ready(d)
             /\ pc' = "loop"
             /\ UNCHANGED <<net, fds, master, max_fd, buf, to, since, full>>

Select == /\ pc = "select"
          /\ reads' = {d \in master : d <= max_fd /\ Ready(d)} /\ reads' # {}
          /\ pc' = "loop"
          /\ UNCHANGED <<net, fds, master, max_fd, buf, to, since, full>>

(* The loop over the descriptors goes upwards. *)
Here(d) == pc = "loop" /\ d \in reads /\ d = Min(reads)

LoopEnds == /\ pc = "loop" /\ reads = {}
            /\ pc' = "select"
            /\ UNCHANGED <<net, fds, master, max_fd, reads, buf, to, since, full>>

FreeFds == {d \in Fds : fds[d] = NULL}

Accept == /\ Here(server_sock) /\ FreeFds # {}
          /\ LET d == Min(FreeFds) IN
                /\ \E c \in Clients : /\ AcceptOf(c) /\ fds' = [fds EXCEPT ![d] = c]
                                      /\ since' = [since EXCEPT ![c] = [o \in Clients |-> Read(o)]]
                /\ master' = master \cup {d}
                /\ max_fd' = Max({d, max_fd})
          /\ reads' = reads \ {server_sock}
          /\ UNCHANGED <<pc, buf, to, full>>

(* accept fails, as it does with no descriptor left: main returns. *)
AcceptFails == Here(server_sock) /\ Die

(* Mutant: the last one is left out. *)
OthersBelow(i) == {j \in master : j < max_fd} \ {server_sock, i}

(* The others, who get what i has sent. *)
Others(i) == {j \in master : j <= max_fd} \ {server_sock, i}

Recv(i) == /\ Here(i) /\ i # server_sock
           /\ \/ \E s \in Readable(fds[i]) : RecvOf(fds[i], s) /\ buf' = s
              \/ AtEof(fds[i]) /\ buf' = <<>> /\ UNCHANGED net
           /\ to' = Others(i)
           /\ pc' = "send"
           /\ reads' = reads \ {i}
           /\ UNCHANGED <<fds, master, max_fd, since, full>>

(* recv fails on a connection that was reset. *)
RecvFails(i) == /\ Here(i) /\ i # server_sock /\ fin[fds[i]]
                /\ CloseOf({fds[i]})
                /\ fds' = [fds EXCEPT ![i] = NULL]
                /\ master' = master \ {i}
                /\ reads' = reads \ {i} /\ full' = full \ {fds[i]}
                /\ UNCHANGED <<max_fd, pc, buf, to, since>>

(* send to the next one of the others. *)
SendNext(j) == /\ pc = "send" /\ j \in to /\ j = Min(to)
               /\ buf # <<>> => fds[j] \notin full
               /\ SendOf(fds[j], buf)
               /\ \/ UNCHANGED full
                  \/ buf # <<>> /\ fds[j] \in Slow /\ full' = full \cup {fds[j]}
               /\ to' = to \ {j}
               /\ UNCHANGED <<fds, master, max_fd, reads, pc, buf, since>>

(* The error is ignored ... *)
SendFails(j) == /\ pc = "send" /\ j \in to /\ j = Min(to) /\ fin[fds[j]]
                /\ to' = to \ {j}
                /\ UNCHANGED <<net, fds, master, max_fd, reads, pc, buf, since, full>>

(* ... unless SIGPIPE comes with it. *)
SendKills(j) == pc = "send" /\ j \in to /\ j = Min(to) /\ fin[fds[j]] /\ Die

SendEnds == /\ pc = "send" /\ to = {}
            /\ pc' = "loop" /\ buf' = <<>>
            /\ UNCHANGED <<net, fds, master, max_fd, reads, to, since, full>>

Server == \/ Select \/ LoopEnds \/ Accept \/ SendEnds
          \/ \E d \in Fds : Recv(d) \/ SendNext(d)
ServerFails == AcceptFails \/ \E d \in Fds : RecvFails(d) \/ SendFails(d) \/ SendKills(d)

Ended == pc = "dead" /\ UNCHANGED vars

(* All is quiet: select blocks. *)
Quiet == /\ pc = "select" /\ \A d \in master : ~Ready(d)
         /\ UNCHANGED vars

Next == (\E c \in Clients : Client(c) \/ ClientReads(c)) \/ Server \/ ServerFails \/ Ended \/ Quiet

Spec == Init /\ [][Next]_vars

(* The server runs; clients need not do anything but read. *)
Fairness == WF_vars(Server) /\ \A c \in Slow : WF_vars(ClientReads(c))
FairSpec == Spec /\ Fairness

----------------------------------------------------------------------------
(* select never waits for a descriptor that is closed (it would fail, and   *)
(* end the server), and always for all that are open.                       *)
MasterOpen == pc # "dead" =>
                 /\ master = {server_sock} \cup {d \in Fds : fds[d] # NULL}
                 /\ \A d \in master : d <= max_fd

(* recv does not block: what select has returned is still open and still    *)
(* has something to read when the loop comes to it, although connections    *)
(* were opened and closed in between.                                       *)
RecvReady == pc \in {"loop", "send"} =>
                 \A d \in reads : Ready(d) /\ (d # server_sock => fds[d] # NULL /\ conn[fds[d]] = "open")

(* Whenever the server waits, every client has got all that the others have *)
(* said since it joined, each of them in order, and nothing of its own.     *)
HeardAll == pc = "select" => \A r, c \in Clients : conn[r] = "open" /\ ~fin[r] =>
               SelectSeq(answered[r], LAMBDA m : m[1] = c) =
                   [k \in 1 .. (IF r = c THEN 0 ELSE Read(c) - since[r][c]) |-> <<c, since[r][c] + k>>]

(* What has arrived is passed on, however many connections are at their end *)
(* and are read again and again, and however often the server is held up by *)
(* clients that are slow to read: if one of them never reads again, all the *)
(* others wait for it.                                                      *)
PassedOn == \A c \in Clients : (conn[c] = "open" /\ arrived[c] # <<>>)
                               ~> (arrived[c] = <<>> \/ conn[c] = "over")
=============================================================================
