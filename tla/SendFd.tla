------------------------------- MODULE SendFd -------------------------------
(***************************************************************************)
(* send_fd_unix_socket: server.c opens a file for every client and passes  *)
(* the descriptor on; client.c writes a line to what it gets.  A client    *)
(* may be killed at any time.  The server closes neither the connection    *)
(* nor the file, and returns at the first call that fails; the kernel then *)
(* resets the connections that it has not accepted and ends the others.    *)
(***************************************************************************)
EXTENDS Integers, Sequences, FiniteSets

CONSTANTS Clients,
          MaxFd       \* as many descriptors are left for the server

VARIABLES waiting,      \* connections that wait for accept, oldest first
          server,       \* "accept", "open", "send", "returned"
          client,       \* the connection that was accepted last, if any: a sequence
          used,         \* how many descriptors the server has open
          accepted, passed,     \* history: clients that were accepted, and sent a descriptor
          unread,       \* messages with a descriptor that wait for their clients
          pc,           \* per client: "connect", "recv", "write", ...
          file,         \* the lines of test.txt, by who wrote them
          unwritten     \* history: clients whose write has failed

history == <<accepted, passed, unwritten>>
vars == <<waiting, server, client, used, unread, pc, file, history>>

At(s, p) == /\ waiting = <<>> /\ server = s /\ client = <<>> /\ used = 0
            /\ accepted = {} /\ passed = {} /\ unread = {}
            /\ pc = [c \in Clients |-> p] /\ file = <<>> /\ unwritten = {}
Init == At("accept", "connect")
Off == At("returned", "returned 1")

Goto(c, p) == pc' = [pc EXCEPT ![c] = p]

----------------------------------------------------------------------------
(* server.c *)
Accept == /\ server = "accept" /\ waiting # <<>> /\ used < MaxFd
          /\ client' = <<Head(waiting)>> /\ waiting' = Tail(waiting)
          /\ accepted' = accepted \cup {Head(waiting)}
          /\ used' = used + 1 /\ server' = "open"
          /\ UNCHANGED <<unread, pc, file, passed, unwritten>>

Open == /\ server = "open" /\ used < MaxFd
        /\ used' = used + 1 /\ server' = "send"
        /\ UNCHANGED <<waiting, client, unread, pc, file, history>>

Alive(c) == pc[c] # "killed"

(* Mutant: the descriptor goes to the client that has waited longest. *)
do_sendmsg_head == /\ server = "send"
                   /\ LET c == IF waiting # <<>> THEN Head(waiting) ELSE client[1] IN
                         unread' = unread \cup {c} /\ passed' = passed \cup {c}
                   /\ server' = "accept"
                   /\ UNCHANGED <<waiting, client, used, pc, file, accepted, unwritten>>

do_sendmsg == /\ server = "send" /\ Alive(client[1])
              /\ unread' = unread \cup {client[1]} /\ passed' = passed \cup {client[1]}
              /\ server' = "accept"
              /\ UNCHANGED <<waiting, client, used, pc, file, accepted, unwritten>>

(* accept, open or sendmsg fails: there is no descriptor left, the client   *)
(* has gone, or any other reason.                                           *)
Fail == /\ \/ server = "accept" /\ waiting # <<>>
           \/ server \in {"open", "send"}
        /\ server' = "returned" /\ used' = 0 /\ waiting' = <<>>
        /\ UNCHANGED <<client, unread, pc, file, history>>
MustFail == Fail /\ IF server = "send" THEN ~Alive(client[1]) ELSE used = MaxFd

----------------------------------------------------------------------------
(* client.c *)
Connect(c) == /\ pc[c] = "connect" /\ server # "returned"
              /\ waiting' = Append(waiting, c) /\ Goto(c, "recv")
              /\ UNCHANGED <<server, client, used, unread, file, history>>

ConnectFails(c) == /\ pc[c] = "connect"
                   /\ Goto(c, "returned 1")
                   /\ UNCHANGED <<waiting, server, client, used, unread, file, history>>

RecvMsg(c) == /\ pc[c] = "recv" /\ c \in unread
              /\ unread' = unread \ {c} /\ Goto(c, "write")
              /\ UNCHANGED <<waiting, server, client, used, file, history>>

(* The connection was reset: recvmsg fails.  It has ended: recvmsg returns  *)
(* 0, and what is taken for the descriptor was never set.                   *)
RecvNothing(c) == /\ pc[c] = "recv" /\ c \notin unread /\ server = "returned"
                  /\ Goto(c, IF c \in accepted THEN "undefined" ELSE "returned 1")
                  /\ UNCHANGED <<waiting, server, client, used, unread, file, history>>

(* The file was opened to append, so that lines do not overwrite others.    *)
Write(c) == /\ pc[c] = "write"
            /\ file' = Append(file, c) /\ Goto(c, "returned 0")
            /\ UNCHANGED <<waiting, server, client, used, unread, history>>

(* The result of write is not looked at. *)
WriteFails(c) == /\ pc[c] = "write"
                 /\ unwritten' = unwritten \cup {c} /\ Goto(c, "returned 0")
                 /\ UNCHANGED <<waiting, server, client, used, unread, file, accepted, passed>>

Kill(c) == /\ pc[c] \in {"recv", "write"}
           /\ Goto(c, "killed") /\ unread' = unread \ {c}
           /\ UNCHANGED <<waiting, server, client, used, file, history>>

Server == Accept \/ Open \/ do_sendmsg \/ MustFail
Client(c) == RecvMsg(c) \/ RecvNothing(c) \/ Write(c)
Over(c) == pc[c] \in {"returned 0", "returned 1", "undefined", "killed"}
Idle == (\A c \in Clients : Over(c)) /\ UNCHANGED vars

Next == \/ Server \/ Fail \/ Idle
        \/ \E c \in Clients : Connect(c) \/ ConnectFails(c) \/ Client(c) \/ WriteFails(c) \/ Kill(c)
Spec == Init /\ [][Next]_vars

(* Server and clients are scheduled. *)
Fairness == WF_vars(Server) /\ \A c \in Clients : WF_vars(Client(c))

----------------------------------------------------------------------------
(* A client that returns 0 has written one line, or its write has failed;   *)
(* nobody else writes.  Descriptors are never given back: each client costs *)
(* the server two, so it serves half as many clients as it has descriptors, *)
(* ever.  When it returns, what it has passed on can still be received; and *)
(* no more than the one client it was about to serve is left to use a       *)
(* descriptor that it has not got.                                          *)
Passed == /\ \A c \in Clients : pc[c] = "returned 0" <=> c \in unwritten \/ \E k \in DOMAIN file : file[k] = c
          /\ \A j, k \in DOMAIN file : file[j] = file[k] => j = k
          /\ server # "returned" => used = Cardinality(accepted) + Cardinality(passed)
                                           + (IF server = "send" THEN 1 ELSE 0)
          /\ 2 * Cardinality(passed) <= MaxFd
          /\ \A c \in passed : pc[c] \in {"recv", "write", "returned 0", "killed"}
          /\ \A c \in Clients : pc[c] = "undefined" => server = "returned" /\ client = <<c>>

(* What they come to: a client that has connected ends. *)
Done == \A c \in Clients : pc[c] = "connect" \/ Over(c)
=============================================================================
