--------------------------- MODULE PreforkServer ----------------------------
(***************************************************************************)
(* prefork_server01/main.c: a parent that forks its children, each of which*)
(* accepts one connection after the other on the same socket and sends back*)
(* what it reads in capitals.  A child leaves (return -1, or SIGPIPE, which*)
(* nobody handles) on the first error; the parent waits for them all.      *)
(*                                                                         *)
(* The kernel and the clients are external: the backlog of the listening   *)
(* socket, the bytes on their way, and clients that connect, send and close*)
(* at will.  A read may return any part of what has arrived.               *)
(***************************************************************************)
EXTENDS Sockets

CONSTANTS Children,   \* NUM_CHILDREN processes
          Text,       \* what clients send, as much of it as they like
          Upper,      \* toupper, on Bytes
          NULL

VARIABLES parent,                   \* "fork", "wait", "done", or "failed"
          pc, client_sock, buffer   \* per child

server == <<parent, pc, client_sock, buffer>>
vars == <<net, server>>

(* The variables have their types. *)
TypeOK == /\ NetTypeOK
          /\ parent \in {"fork", "wait", "done", "failed"}
          /\ pc \in [Children -> {"unborn", "accept", "read", "send", "dead"}]
          /\ client_sock \in [Children -> Clients \cup {NULL}]
          /\ buffer \in [Children -> Seq(Bytes)]

(* The socket listens. *)
Init == /\ NetInit
        /\ parent = "fork"
        /\ pc = [k \in Children |-> "unborn"]
        /\ client_sock = [k \in Children |-> NULL]
        /\ buffer = [k \in Children |-> <<>>]

(* The program has ended, or was never started. *)
Off == /\ NetInit
       /\ parent = "done"
       /\ pc = [k \in Children |-> "dead"]
       /\ client_sock = [k \in Children |-> NULL]
       /\ buffer = [k \in Children |-> <<>>]

(* Mutant: toupper is forgotten. *)
UpperOfNone(s) == s

UpperOf(s) == [i \in 1 .. Len(s) |-> Upper[s[i]]]

----------------------------------------------------------------------------
(* Some process holds the listening socket. *)
Listening == parent \in {"fork", "wait"} \/ \E k \in Children : pc[k] \notin {"unborn", "dead"}

Client(c) == /\ \/ Listening /\ Connect(c)
                \/ Close(c)
                \/ Send(c, Text[Len(sent[c]) + 1])
             /\ UNCHANGED server

----------------------------------------------------------------------------
(* The parent's loop; a fork that fails ends the parent, not the children. *)
Fork == /\ parent = "fork"
        /\ \/ \E k \in Children : /\ pc[k] = "unborn"
                                  /\ pc' = [pc EXCEPT ![k] = "accept"]
                                  /\ UNCHANGED parent
           \/ /\ \E k \in Children : pc[k] = "unborn"
              /\ parent' = "failed" /\ UNCHANGED pc
           \/ /\ \A k \in Children : pc[k] # "unborn"
              /\ parent' = "wait" /\ UNCHANGED pc
        /\ UNCHANGED <<net, client_sock, buffer>>

(* waitpid returns as long as there is a child. *)
WaitDone == /\ parent = "wait" /\ \A k \in Children : pc[k] = "dead"
            /\ parent' = "done"
            /\ UNCHANGED <<net, pc, client_sock, buffer>>

----------------------------------------------------------------------------
Accept(k) == /\ pc[k] = "accept"
             /\ \E c \in Clients : /\ AcceptOf(c)
                                   /\ client_sock' = [client_sock EXCEPT ![k] = c]
             /\ pc' = [pc EXCEPT ![k] = "read"]
             /\ UNCHANGED <<parent, buffer>>

(* The child returns or is killed; its sockets are closed. *)
Die(k) == /\ pc' = [pc EXCEPT ![k] = "dead"]
          /\ CloseOf({client_sock[k]})
          /\ client_sock' = [client_sock EXCEPT ![k] = NULL]
          /\ buffer' = [buffer EXCEPT ![k] = <<>>]
          /\ UNCHANGED parent

AcceptFails(k) == pc[k] = "accept" /\ Die(k)

(* Mutant: what a read leaves behind is lost. *)
ReadDropsRest(k) ==
    LET c == client_sock[k] IN
    /\ pc[k] = "read"
    /\ \E s \in Readable(c) : buffer' = [buffer EXCEPT ![k] = UpperOf(s)]
    /\ RecvOf(c, arrived[c])
    /\ pc' = [pc EXCEPT ![k] = "send"]
    /\ UNCHANGED <<parent, client_sock>>

(* read and toupper. *)
Read(k) == LET c == client_sock[k] IN
           /\ pc[k] = "read"
           /\ \E s \in Readable(c) : /\ RecvOf(c, s)
                                     /\ buffer' = [buffer EXCEPT ![k] = UpperOf(s)]
           /\ pc' = [pc EXCEPT ![k] = "send"]
           /\ UNCHANGED <<parent, client_sock>>

(* End of file: the child closes the connection and accepts the next one.  *)
ReadEof(k) == /\ pc[k] = "read" /\ AtEof(client_sock[k])
              /\ pc' = [pc EXCEPT ![k] = "accept"]
              /\ CloseOf({client_sock[k]})
              /\ client_sock' = [client_sock EXCEPT ![k] = NULL]
              /\ UNCHANGED <<parent, buffer>>

(* The connection was reset. *)
ReadFails(k) == pc[k] = "read" /\ fin[client_sock[k]] /\ Die(k)

(* Mutant: a send of a part counts as a send of all. *)
SendBackFirst(k) == /\ pc[k] = "send"
                    /\ SendOf(client_sock[k], <<Head(buffer[k])>>)
                    /\ buffer' = [buffer EXCEPT ![k] = <<>>]
                    /\ pc' = [pc EXCEPT ![k] = "read"]
                    /\ UNCHANGED <<parent, client_sock>>

SendBack(k) == /\ pc[k] = "send"
               /\ SendOf(client_sock[k], buffer[k])
               /\ buffer' = [buffer EXCEPT ![k] = <<>>]
               /\ pc' = [pc EXCEPT ![k] = "read"]
               /\ UNCHANGED <<parent, client_sock>>

(* The client is gone: an error, or SIGPIPE. *)
SendFails(k) == pc[k] = "send" /\ fin[client_sock[k]] /\ Die(k)

Child(k) == \/ Accept(k) \/ Read(k) \/ ReadEof(k) \/ SendBack(k)
ChildFails(k) == AcceptFails(k) \/ ReadFails(k) \/ SendFails(k)

(* Nothing can happen any more but that the listening socket goes away. *)
Ended == ~Listening /\ UNCHANGED vars

(* All clients have come and gone. *)
Idle == (\A c \in Clients : fin[c]) /\ UNCHANGED vars

Next == \/ \E c \in Clients : Client(c)
        \/ Fork \/ WaitDone
        \/ \E k \in Children : Child(k) \/ ChildFails(k)
        \/ Ended \/ Idle

Spec == Init /\ [][Next]_vars

(* Processes are scheduled, and a client does not keep a connection open    *)
(* for ever.  Errors may happen or not.                                     *)
Fairness == /\ WF_vars(Fork) /\ WF_vars(WaitDone)
            /\ \A k \in Children : WF_vars(Child(k))
            /\ \A c \in Clients : WF_vars(Listening /\ Close(c) /\ UNCHANGED server)
FairSpec == Spec /\ Fairness

----------------------------------------------------------------------------
(* A connection that was accepted and not closed is in the hands of exactly *)
(* one child, and a child that reads or sends has one.                      *)
OneServer == /\ \A c \in Clients : conn[c] = "open" <=> \E k \in Children : client_sock[k] = c
             /\ \A j, k \in Children : client_sock[j] = client_sock[k] /\ client_sock[j] # NULL => j = k
             /\ \A k \in Children : client_sock[k] # NULL <=> pc[k] \in {"read", "send"}

(* Nothing a client has sent gets lost while its connection lives: it was   *)
(* answered, is in the buffer of its child, or has still to be read.        *)
BufferFor(c) == IF conn[c] = "open" THEN buffer[CHOOSE k \in Children : client_sock[k] = c] ELSE <<>>
NothingLost == \A c \in Connected :
                  UpperOf(sent[c]) = answered[c] \o BufferFor(c) \o UpperOf(arrived[c])

AllDead == \A k \in Children : pc[k] \in {"dead", "unborn"}

(* A connection does not wait for ever as long as some child lives: every   *)
(* child comes back to accept when its client has closed.                   *)
Accepted == \A c \in Clients : (conn[c] = "queued") ~> (conn[c] # "queued" \/ AllDead)

(* What a client has sent is answered, unless a child dies on an error. *)
Answered == \A c \in Clients :
               (conn[c] = "open" /\ arrived[c] # <<>>)
               ~> (Len(answered[c]) = Len(sent[c]) \/ \E k \in Children : pc[k] = "dead")
=============================================================================
