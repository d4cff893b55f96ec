------------------------------ MODULE Sockets -------------------------------
(***************************************************************************)
(* What the TCP servers of the repository see of the kernel and of their   *)
(* clients, both outside of the sources: a client connects once, sends     *)
(* bytes and closes its end whenever it likes.  Bytes arrive in order, and *)
(* a read returns any part of what has arrived.  Each server adds its own  *)
(* variables and says in which of its steps it uses the operators below.   *)
(***************************************************************************)
EXTENDS Integers, Sequences

CONSTANTS Clients, Bytes,
          MaxSent     \* bound on what a client sends

VARIABLES sent, answered,   \* per client: what it has sent, and was sent back
          arrived,          \* per client: what the server can read
          fin,              \* per client: it has closed its end
          conn,             \* per client: the state of its connection
          backlog           \* connections that wait for accept, oldest first

net == <<sent, answered, arrived, fin, conn, backlog>>

NetTypeOK == /\ sent \in [Clients -> Seq(Bytes)] /\ answered \in [Clients -> Seq(Bytes)]
             /\ arrived \in [Clients -> Seq(Bytes)] /\ fin \in [Clients -> BOOLEAN]
             /\ conn \in [Clients -> {"new", "queued", "open", "over"}]
             /\ backlog \in Seq(Clients)

NetInit == /\ sent = [c \in Clients |-> <<>>] /\ answered = [c \in Clients |-> <<>>]
           /\ arrived = [c \in Clients |-> <<>>] /\ fin = [c \in Clients |-> FALSE]
           /\ conn = [c \in Clients |-> "new"]
           /\ backlog = <<>>

----------------------------------------------------------------------------
(* Clients *)
Connect(c) == /\ conn[c] = "new"
              /\ conn' = [conn EXCEPT ![c] = "queued"]
              /\ backlog' = Append(backlog, c)
              /\ UNCHANGED <<sent, answered, arrived, fin>>

Connected == {c \in Clients : conn[c] \in {"queued", "open"}}

Send(c, b) == /\ c \in Connected /\ ~fin[c] /\ Len(sent[c]) < MaxSent
              /\ sent' = [sent EXCEPT ![c] = Append(@, b)]
              /\ arrived' = [arrived EXCEPT ![c] = Append(@, b)]
              /\ UNCHANGED <<answered, fin, conn, backlog>>

Close(c) == /\ c \in Connected /\ ~fin[c]
            /\ fin' = [fin EXCEPT ![c] = TRUE]
            /\ UNCHANGED <<sent, answered, arrived, conn, backlog>>

----------------------------------------------------------------------------
(* accept: the oldest connection that waits is c. *)
AcceptOf(c) == /\ backlog # <<>> /\ c = Head(backlog)
               /\ conn' = [conn EXCEPT ![c] = "open"]
               /\ backlog' = Tail(backlog)
               /\ UNCHANGED <<sent, answered, arrived, fin>>

(* recv or read: s, not empty, is what it returns. *)
RecvOf(c, s) == /\ s # <<>> /\ s = SubSeq(arrived[c], 1, Len(s))
                /\ arrived' = [arrived EXCEPT ![c] = SubSeq(@, Len(s) + 1, Len(@))]
                /\ UNCHANGED <<sent, answered, fin, conn, backlog>>

(* All that recv can return. *)
Readable(c) == {SubSeq(arrived[c], 1, n) : n \in 1 .. Len(arrived[c])}

(* recv returns 0: all was read, and the client has closed. *)
AtEof(c) == arrived[c] = <<>> /\ fin[c]

(* send or write of s. *)
SendOf(c, s) == /\ answered' = [answered EXCEPT ![c] = @ \o s]
                /\ UNCHANGED <<sent, arrived, fin, conn, backlog>>

(* The server closes connections. *)
CloseOf(cs) == /\ conn' = [c \in Clients |-> IF c \in cs THEN "over" ELSE conn[c]]
               /\ UNCHANGED <<sent, answered, arrived, fin, backlog>>
=============================================================================
