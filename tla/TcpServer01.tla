---------------------------- MODULE TcpServer01 -----------------------------
(***************************************************************************)
(* HandsOnNetworkProgrammingWithC/tcp_server01/main.c: one connection is   *)
(* accepted, one recv takes of the request what is there, and the response *)
(* is sent, whatever the request was.  A connection that is closed before  *)
(* all that has arrived was read is reset, and the client may then not get *)
(* to see the response; so are the connections that were not accepted.     *)
(***************************************************************************)
EXTENDS Sockets, FiniteSets

CONSTANTS Size,       \* of request
          response

VARIABLES client_sock,    \* who was accepted: at most one client
          pc,
          reset           \* clients whose connection was reset

server == <<client_sock, pc>>
vars == <<net, server, reset>>

(* The socket listens. *)
At(p) == NetInit /\ client_sock = {} /\ pc = p /\ reset = {}
Init == At("accept")
Off == At("returned")

Client(c) == /\ pc # "returned"
             /\ Connect(c) \/ Close(c) \/ Send(c, "x")
             /\ UNCHANGED <<server, reset>>

Accept(c) == /\ pc = "accept"
             /\ AcceptOf(c)
             /\ client_sock' = {c} /\ pc' = "recv"
             /\ UNCHANGED reset

Recv(c) == /\ pc = "recv" /\ c \in client_sock
           /\ \/ \E s \in Readable(c) : Len(s) <= Size /\ RecvOf(c, s)
              \/ AtEof(c) /\ UNCHANGED net
           /\ pc' = "send"
           /\ UNCHANGED <<client_sock, reset>>

(* The number of bytes that were sent is printed, and that is all. *)
SendResponse(c) == /\ pc = "send" /\ c \in client_sock
                   /\ \E n \in 1 .. Len(response) : SendOf(c, SubSeq(response, 1, n))
                   /\ pc' = "close"
                   /\ UNCHANGED <<client_sock, reset>>

(* Mutant: only what was accepted is closed. *)
EndOpen == /\ CloseOf(client_sock) /\ pc' = "returned"
           /\ reset' = {c \in client_sock : arrived[c] # <<>>}
           /\ UNCHANGED client_sock

(* Both sockets are closed, by close or at the end of the process. *)
End == /\ CloseOf(Connected) /\ pc' = "returned"
       /\ reset' = {c \in Connected : c \notin client_sock \/ arrived[c] # <<>>}
       /\ UNCHANGED client_sock

CloseAll == pc = "close" /\ End

(* accept, recv or send fails, or SIGPIPE comes. *)
Fail == /\ pc \in {"accept", "recv", "send"}
        /\ pc = "accept" => backlog # <<>>
        /\ pc # "accept" => \E c \in client_sock : fin[c]
        /\ End

Server == CloseAll \/ \E c \in Clients : Accept(c) \/ Recv(c) \/ SendResponse(c)
Idle == pc \in {"returned", "accept", "recv"} /\ UNCHANGED vars
Next == Server \/ Fail \/ Idle \/ \E c \in Clients : Client(c)
Spec == Init /\ [][Next]_vars

(* The server is scheduled. *)
Fairness == WF_vars(Server)

----------------------------------------------------------------------------
(* One client at most gets a response, the first that connects, and only    *)
(* once something of its request has come or it has left.  It can lose the  *)
(* response just if one recv has not taken all that it had to say; which    *)
(* happens to a request of two bytes already, if they come apart.  The      *)
(* others are reset when the server ends, and nobody is left connected.     *)
OneResponse == /\ \A c \in Clients : answered[c] # <<>> => c \in client_sock /\ (sent[c] # <<>> \/ fin[c])
               /\ pc = "returned" => Connected = {}
               /\ \A c \in client_sock : c \in reset /\ answered[c] # <<>> => Len(sent[c]) > 1
               /\ pc = "returned" => \A c \in Clients \ client_sock : conn[c] = "over" => c \in reset

(* The first client that says something, or leaves, ends the server.        *)
Done == pc # "returned" => /\ pc = "accept" => backlog = <<>>
                           /\ \A c \in client_sock : arrived[c] = <<>> /\ ~fin[c]
=============================================================================
