---------------------------- MODULE ThreadServer ----------------------------
(***************************************************************************)
(* multi_thread_server01/server.c: main accepts, and starts a detached     *)
(* thread with a client_info of its own for every connection; handler      *)
(* answers in capitals until the end of the connection.                    *)
(*                                                                         *)
(* The threads share the heap and the table of file descriptors, so both   *)
(* are here: malloc returns a free cell (which one makes no difference, as *)
(* they are all alike), accept the lowest descriptor that is free, and     *)
(* cells and descriptors are used again; what stays in a freed cell is     *)
(* forgotten.                                                              *)
(* SIGPIPE is ignored, so a send to a client that has gone returns an      *)
(* error, which handler only prints.                                       *)
(***************************************************************************)
EXTENDS Sockets, FiniteSets

CONSTANTS Threads,    \* as many threads as the system allows at a time
          Infos,      \* cells of the heap of the size of a client_info
          MaxFd,      \* descriptors 1 .. MaxFd are left for connections
          Text,       \* what clients send, as much of it as they like
          Upper,      \* toupper, on Bytes
          NULL

Fds == 1 .. MaxFd

VARIABLES fds,          \* descriptor -> the client it is connected to, or NULL
          allocated,    \* cells that malloc has given out
          sock,         \* cell -> its field sock
          main_pc, info,            \* main, and its variable info
          pc, arg, buffer,          \* per thread: handler, its info and buffer
          broken,       \* connections on which a send has failed
          leaked        \* connections that were accepted and got no thread

heap == <<allocated, sock>>
main == <<main_pc, info>>
threads == <<pc, arg, buffer>>
server == <<fds, heap, main, threads, broken, leaked>>
vars == <<net, server>>

(* The variables have their types. *)
TypeOK == /\ NetTypeOK
          /\ fds \in [Fds -> Clients \cup {NULL}]
          /\ allocated \subseteq Infos /\ sock \in [Infos -> Fds \cup {0}]
          /\ main_pc \in {"malloc", "accept", "create", "exited"} /\ info \in Infos \cup {NULL}
          /\ pc \in [Threads -> {"none", "recv", "send", "close", "free"}]
          /\ arg \in [Threads -> Infos \cup {NULL}]
          /\ buffer \in [Threads -> Seq(Bytes)]
          /\ broken \subseteq Clients /\ leaked \subseteq Clients

Init == /\ NetInit
        /\ fds = [d \in Fds |-> NULL]
        /\ allocated = {} /\ sock = [i \in Infos |-> 0]
        /\ main_pc = "malloc" /\ info = NULL
        /\ pc = [t \in Threads |-> "none"]
        /\ arg = [t \in Threads |-> NULL]
        /\ buffer = [t \in Threads |-> <<>>]
        /\ broken = {} /\ leaked = {}

(* The program has ended, or was never started. *)
Off == /\ NetInit
       /\ fds = [d \in Fds |-> NULL]
       /\ allocated = {} /\ sock = [i \in Infos |-> 0]
       /\ main_pc = "exited" /\ info = NULL
       /\ pc = [t \in Threads |-> "none"]
       /\ arg = [t \in Threads |-> NULL]
       /\ buffer = [t \in Threads |-> <<>>]
       /\ broken = {} /\ leaked = {}

UpperOf(s) == [i \in 1 .. Len(s) |-> Upper[s[i]]]

Client(c) == /\ \/ main_pc # "exited" /\ Connect(c)
                \/ Close(c)
                \/ Send(c, Text[Len(sent[c]) + 1])
             /\ UNCHANGED server

----------------------------------------------------------------------------

Malloc == /\ main_pc = "malloc"
          /\ Infos \ allocated # {}
          /\ info' = (CHOOSE i \in Infos \ allocated : TRUE) /\ allocated' = allocated \cup {info'}
          /\ main_pc' = "accept"
          /\ UNCHANGED <<net, fds, sock, threads, broken, leaked>>

(* malloc fails: main returns, which ends the process and all its threads.  *)
MallocFails == /\ main_pc = "malloc"
               /\ main_pc' = "exited"
               /\ CloseOf({fds[d] : d \in Fds} \cap Clients)
               /\ fds' = [d \in Fds |-> NULL]
               /\ allocated' = {} /\ sock' = [i \in Infos |-> 0]
               /\ pc' = [t \in Threads |-> "none"]
               /\ arg' = [t \in Threads |-> NULL]
               /\ buffer' = [t \in Threads |-> <<>>]
               /\ UNCHANGED <<info, broken, leaked>>

FreeFds == {d \in Fds : fds[d] = NULL}

Accept == /\ main_pc = "accept"
          /\ \E c \in Clients, d \in FreeFds :
                /\ AcceptOf(c)
                /\ \A e \in FreeFds : d <= e
                /\ fds' = [fds EXCEPT ![d] = c]
                /\ sock' = [sock EXCEPT ![info] = d]
          /\ main_pc' = "create"
          /\ UNCHANGED <<allocated, info, threads, broken, leaked>>

(* accept fails (there is no descriptor left, or the client has gone): info *)
(* is freed, and the next turn of the loop allocates one again.             *)
AcceptFails == /\ main_pc = "accept"
               /\ allocated' = allocated \ {info}
               /\ main_pc' = "malloc" /\ info' = NULL
               /\ UNCHANGED <<net, fds, sock, threads, broken, leaked>>

Create == /\ main_pc = "create"
          /\ \E t \in Threads : /\ pc[t] = "none"
                                /\ pc' = [pc EXCEPT ![t] = "recv"]
                                /\ arg' = [arg EXCEPT ![t] = info]
          /\ main_pc' = "malloc" /\ info' = NULL
          /\ UNCHANGED <<net, fds, heap, buffer, broken, leaked>>

(* pthread_create fails: info is freed, and the connection stays open. *)
CreateFails == /\ main_pc = "create"
               /\ allocated' = allocated \ {info}
               /\ sock' = [sock EXCEPT ![info] = 0]
               /\ leaked' = leaked \cup {fds[sock[info]]}
               /\ main_pc' = "malloc" /\ info' = NULL
               /\ UNCHANGED <<net, fds, threads, broken>>

----------------------------------------------------------------------------
(* What handler's info->sock is connected to. *)
Peer(t) == fds[sock[arg[t]]]

Recv(t) == /\ pc[t] = "recv"
           /\ \E s \in Readable(Peer(t)) : /\ RecvOf(Peer(t), s)
                                           /\ buffer' = [buffer EXCEPT ![t] = UpperOf(s)]
           /\ pc' = [pc EXCEPT ![t] = "send"]
           /\ UNCHANGED <<fds, heap, main, arg, broken, leaked>>

(* recv returns 0, or an error on a connection that was reset. *)
RecvEnds(t) == /\ pc[t] = "recv"
               /\ AtEof(Peer(t)) \/ fin[Peer(t)]
               /\ pc' = [pc EXCEPT ![t] = "close"]
               /\ UNCHANGED <<net, fds, heap, main, arg, buffer, broken, leaked>>

SendBack(t) == /\ pc[t] = "send" /\ Peer(t) \notin broken
               /\ SendOf(Peer(t), buffer[t])
               /\ buffer' = [buffer EXCEPT ![t] = <<>>]
               /\ pc' = [pc EXCEPT ![t] = "recv"]
               /\ UNCHANGED <<fds, heap, main, arg, broken, leaked>>

(* Mutant: the connection is closed, and then used again. *)
SendFailsCloses(t) == /\ pc[t] = "send" /\ fin[Peer(t)]
                      /\ CloseOf({Peer(t)})
                      /\ fds' = [fds EXCEPT ![sock[arg[t]]] = NULL]
                      /\ buffer' = [buffer EXCEPT ![t] = <<>>]
                      /\ pc' = [pc EXCEPT ![t] = "recv"]
                      /\ UNCHANGED <<heap, main, arg, broken, leaked>>

(* send fails once the client has gone, and then always. *)
SendFails(t) == /\ pc[t] = "send" /\ fin[Peer(t)]
                /\ broken' = broken \cup {Peer(t)}
                /\ buffer' = [buffer EXCEPT ![t] = <<>>]
                /\ pc' = [pc EXCEPT ![t] = "recv"]
                /\ UNCHANGED <<net, fds, heap, main, arg, leaked>>

(* Mutant: the connection is not closed. *)
CloseSockNot(t) == /\ pc[t] = "close"
                   /\ pc' = [pc EXCEPT ![t] = "free"]
                   /\ UNCHANGED <<net, fds, heap, main, arg, buffer, broken, leaked>>

(* close(info->sock). *)
CloseSock(t) == /\ pc[t] = "close"
                /\ CloseOf({Peer(t)})
                /\ fds' = [fds EXCEPT ![sock[arg[t]]] = NULL]
                /\ pc' = [pc EXCEPT ![t] = "free"]
                /\ UNCHANGED <<heap, main, arg, buffer, broken, leaked>>

(* free(info), and the thread ends. *)
Free(t) == /\ pc[t] = "free"
           /\ allocated' = allocated \ {arg[t]}
           /\ sock' = [sock EXCEPT ![arg[t]] = 0]
           /\ arg' = [arg EXCEPT ![t] = NULL]
           /\ pc' = [pc EXCEPT ![t] = "none"]
           /\ UNCHANGED <<net, fds, main, buffer, broken, leaked>>

Handler(t) == \/ Recv(t) \/ RecvEnds(t) \/ SendBack(t) \/ SendFails(t)
              \/ CloseSock(t) \/ Free(t)
Main == Malloc \/ Accept \/ Create
MainFails == MallocFails \/ AcceptFails \/ CreateFails

Ended == main_pc = "exited" /\ UNCHANGED vars

Next == \/ \E c \in Clients : Client(c)
        \/ Main \/ MainFails
        \/ \E t \in Threads : Handler(t)
        \/ Ended

Spec == Init /\ [][Next]_vars

(* Threads are scheduled; clients need not do anything.  An accept that can *)
(* succeed does not fail for ever; other calls of main may fail, or not.    *)
Fairness == WF_vars(Main) /\ SF_vars(Accept) /\ \A t \in Threads : WF_vars(Handler(t))
FairSpec == Spec /\ Fairness

----------------------------------------------------------------------------
Live == {t \in Threads : pc[t] # "none"}

(* A handler works with memory that was not freed, and that nobody else has:*)
(* neither another handler nor main, which fills in the next client_info.   *)
InfoOwned == /\ \A t \in Live : arg[t] \in allocated /\ (main_pc \in {"accept", "create"} => arg[t] # info)
             /\ \A t, u \in Live : arg[t] = arg[u] => t = u
             /\ main_pc \in {"accept", "create"} => info \in allocated

(* The descriptor in a client_info is open, and no two handlers have the    *)
(* same, although numbers are used again as soon as they are closed.        *)
FdOwned == /\ \A t \in Live : pc[t] # "free" => Peer(t) # NULL /\ conn[Peer(t)] = "open"
           /\ \A t, u \in Live : pc[t] # "free" /\ pc[u] # "free" /\ sock[arg[t]] = sock[arg[u]] => t = u

(* Every connection that is open has a handler, or is about to get one, or  *)
(* belongs to those that pthread_create failed for: only these stay open    *)
(* with nobody to close them.                                               *)
Leaks == \A d \in Fds : fds[d] # NULL =>
            \/ \E t \in Live : sock[arg[t]] = d /\ pc[t] # "free"
            \/ main_pc = "create" /\ sock[info] = d
            \/ fds[d] \in leaked

(* Memory is freed in every case. *)
NoMemoryLost == allocated = {arg[t] : t \in Live} \cup
                            (IF main_pc \in {"accept", "create"} THEN {info} ELSE {})

(* All of these: who has what. *)
Owned == InfoOwned /\ FdOwned /\ Leaks /\ NoMemoryLost

(* A connection is accepted no matter what other clients do, as long as     *)
(* there are descriptors, memory and threads for all of them.               *)
Accepted == \A c \in Clients : (conn[c] = "queued") ~> (conn[c] # "queued" \/ main_pc = "exited")

(* What has arrived is answered without the help of other clients, for a    *)
(* client that stays and was not left without a thread.                     *)
Answered == \A c \in Clients :
               (conn[c] = "open" /\ arrived[c] # <<>>)
               ~> (arrived[c] = <<>> \/ fin[c] \/ c \in leaked \/ main_pc = "exited")
=============================================================================
