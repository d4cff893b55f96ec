------------------------- MODULE ThreadServerProofs -------------------------
(***************************************************************************)
(* Proofs about ThreadServer, for any numbers of clients, threads, cells   *)
(* and descriptors.                                                        *)
(***************************************************************************)
EXTENDS ThreadServer, TLAPS

(* As much of the types as the proofs need. *)
Types == /\ conn \in [Clients -> {"new", "queued", "open", "over"}]
         /\ backlog \in Seq(Clients)
         /\ fds \in [Fds -> Clients \cup {NULL}]
         /\ allocated \subseteq Infos /\ sock \in [Infos -> Fds \cup {0}]
         /\ main_pc \in {"malloc", "accept", "create", "exited"}
         /\ pc \in [Threads -> {"none", "recv", "send", "close", "free"}]
         /\ arg \in [Threads -> Infos \cup {NULL}]

(* Who waits for accept waits once, and has no descriptor yet. *)
Backlog == /\ \A i \in 1 .. Len(backlog) : conn[backlog[i]] = "queued"
           /\ \A i, j \in 1 .. Len(backlog) : backlog[i] = backlog[j] => i = j

(* A descriptor that is in use leads to an open connection of its own. *)
Table == /\ \A d \in Fds : fds[d] # NULL => conn[fds[d]] = "open"
         /\ \A d, e \in Fds : fds[d] = fds[e] /\ fds[d] # NULL => d = e

(* The threads between their start and close(info->sock). *)
Working == {t \in Threads : pc[t] \in {"recv", "send", "close"}}

(* The memory and the descriptors of the handlers, and of main. *)
Cells == /\ \A t \in Live : arg[t] \in allocated /\ (main_pc \in {"accept", "create"} => arg[t] # info)
         /\ \A t, u \in Live : arg[t] = arg[u] => t = u
         /\ main_pc \in {"accept", "create"} => info \in allocated
         /\ \A i \in allocated : (\E t \in Live : i = arg[t]) \/ (main_pc \in {"accept", "create"} /\ i = info)
Socks == /\ \A t \in Working : sock[arg[t]] \in Fds /\ fds[sock[arg[t]]] # NULL
         /\ \A t, u \in Working : sock[arg[t]] = sock[arg[u]] => t = u
         /\ main_pc = "create" => /\ sock[info] \in Fds /\ fds[sock[info]] # NULL
                                  /\ \A t \in Working : sock[arg[t]] # sock[info]

IInv == Types /\ Backlog /\ Table /\ Cells /\ Socks /\ Leaks

----------------------------------------------------------------------------
(* The inductive invariant says all that Owned does. *)
LEMMA IInvOwned == IInv => Owned
  <1> SUFFICES ASSUME IInv PROVE Owned
    OBVIOUS
  <1>1. InfoOwned
    BY DEF IInv, Cells, InfoOwned
  <1>2. \A t \in Live : pc[t] # "free" => t \in Working
    BY DEF IInv, Types, Live, Working
  <1>3. FdOwned
    BY <1>2 DEF IInv, Socks, Table, FdOwned, Peer, Live
  <1>4. NoMemoryLost
    BY DEF IInv, Cells, NoMemoryLost
  <1> QED
    BY <1>1, <1>3, <1>4 DEF IInv, Owned

LEMMA InitIInv == Init => IInv
  <1> SUFFICES ASSUME Init PROVE IInv
    OBVIOUS
  <1> USE DEF Init, NetInit
  <1>1. Types
    BY DEF Types
  <1>2. Backlog /\ Table
    BY DEF Backlog, Table
  <1>3. Cells /\ Socks /\ Leaks
    BY DEF Cells, Socks, Leaks, Live, Working
  <1> QED
    BY <1>1, <1>2, <1>3 DEF IInv

(* A step that leaves the server alone, and no connection worse. *)
LEMMA ClientIInv ==
    ASSUME IInv, NEW c \in Clients, Client(c)
    PROVE  IInv'
  <1> USE DEF IInv
  <1>0. UNCHANGED server
    BY DEF Client
  <1> USE <1>0 DEF server, heap, main, threads
  <1>1. CASE conn' = conn /\ backlog' = backlog
    <2>1. Types' /\ Backlog' /\ Table'
      BY <1>1 DEF Types, Backlog, Table
    <2>2. Cells' /\ Socks' /\ Leaks'
      BY <1>1 DEF Cells, Socks, Leaks, Live, Working
    <2> QED BY <2>1, <2>2
  <1>2. CASE Connect(c)
    <2>1. Types'
      BY <1>2 DEF Connect, Types
    <2>2. Backlog'
      BY <1>2 DEF Connect, Types, Backlog
    <2>3. Table'
      BY <1>2 DEF Connect, Types, Table
    <2>4. Cells' /\ Socks' /\ Leaks'
      BY <1>2 DEF Connect, Cells, Socks, Leaks, Live, Working
    <2> QED BY <2>1, <2>2, <2>3, <2>4
  <1> QED
    BY <1>1, <1>2 DEF Client, Close, Send

----------------------------------------------------------------------------
(* malloc gives a cell that nobody has. *)
LEMMA MallocIInv == IInv /\ Malloc => IInv'
  <1> SUFFICES ASSUME IInv, Malloc PROVE IInv'
    OBVIOUS
  <1> USE DEF IInv, Malloc, net, threads
  <1>1. info' \in Infos \ allocated
    OBVIOUS
  <1>2. Types' /\ Backlog' /\ Table'
    BY <1>1 DEF Types, Backlog, Table
  <1>3. Cells'
    BY <1>1 DEF Cells, Live
  <1>4. Socks' /\ Leaks'
    BY DEF Socks, Leaks, Live, Working
  <1> QED BY <1>2, <1>3, <1>4

(* The process ends: nothing is left. *)
LEMMA MallocFailsIInv ==
    ASSUME NULL \notin Clients, IInv, MallocFails
    PROVE  IInv'
  <1> USE DEF IInv, MallocFails, CloseOf
  <1>1. Types'
    BY DEF Types
  <1>2. Backlog'
    BY DEF Types, Backlog, Table
  <1>3. Table'
    BY DEF Table
  <1>4. Cells' /\ Socks' /\ Leaks'
    BY DEF Cells, Socks, Leaks, Live, Working
  <1> QED BY <1>1, <1>2, <1>3, <1>4

(* accept takes a descriptor that nobody works with: theirs are in use.     *)
LEMMA AcceptIInv ==
    ASSUME NULL \notin Clients, IInv, Accept
    PROVE  IInv'
  <1> USE DEF IInv
  <1>1. PICK c \in Clients, d \in FreeFds :
           /\ AcceptOf(c)
           /\ fds' = [fds EXCEPT ![d] = c]
           /\ sock' = [sock EXCEPT ![info] = d]
    BY Zenon DEF Accept
  <1>2. /\ main_pc = "accept" /\ main_pc' = "create" /\ info \in allocated
        /\ UNCHANGED <<allocated, info, pc, arg>>
    BY DEF Accept, threads, Cells
  <1>3. d \in Fds /\ fds[d] = NULL
    BY DEF FreeFds
  <1>4. backlog # <<>> /\ c = backlog[1] /\ conn[c] = "queued"
    BY <1>1 DEF AcceptOf, Types, Backlog
  <1>5. /\ conn' = [conn EXCEPT ![c] = "open"]
        /\ backlog' = Tail(backlog)
    BY <1>1 DEF AcceptOf
  <1>6. Types'
    BY <1>1, <1>2, <1>3, <1>4, <1>5 DEF Types
  <1>7. Backlog'
    BY <1>4, <1>5 DEF Types, Backlog
  <1>8. Table'
    BY <1>1, <1>3, <1>4, <1>5 DEF Types, Table
  <1>9. Cells'
    BY <1>2 DEF Cells, Live
  <1>10. sock'[info] = d /\ \A t \in Live : sock'[arg[t]] = sock[arg[t]]
    BY <1>1, <1>2 DEF Types, Cells, Live
  <1>11. Live' = Live /\ Working' = Working /\ Working \subseteq Live
    BY <1>2 DEF Live, Working
  <1>12. Socks'
    BY <1>1, <1>2, <1>3, <1>10, <1>11 DEF Types, Socks
  <1>13. Leaks'
    BY <1>1, <1>2, <1>3, <1>10, <1>11 DEF Types, Leaks, Accept
  <1> QED BY <1>6, <1>7, <1>8, <1>9, <1>12, <1>13

LEMMA AcceptFailsIInv == IInv /\ AcceptFails => IInv'
  <1> SUFFICES ASSUME IInv, AcceptFails PROVE IInv'
    OBVIOUS
  <1> USE DEF IInv, AcceptFails, net, threads
  <1>1. Types' /\ Backlog' /\ Table'
    BY DEF Types, Backlog, Table
  <1>2. Cells'
    BY DEF Cells, Live
  <1>3. Socks' /\ Leaks'
    BY DEF Socks, Leaks, Live, Working
  <1> QED BY <1>1, <1>2, <1>3

(* The new thread takes over what main has prepared. *)
LEMMA CreateIInv == IInv /\ Create => IInv'
  <1> SUFFICES ASSUME IInv, Create PROVE IInv'
    OBVIOUS
  <1> USE DEF IInv
  <1>1. PICK t \in Threads : /\ pc[t] = "none"
                             /\ pc' = [pc EXCEPT ![t] = "recv"]
                             /\ arg' = [arg EXCEPT ![t] = info]
    BY Zenon DEF Create
  <1>2. /\ main_pc = "create" /\ main_pc' = "malloc" /\ info \in allocated
        /\ UNCHANGED <<conn, backlog, fds, allocated, sock, leaked>>
    BY DEF Create, net, heap, Cells
  <1>3. Types' /\ Backlog' /\ Table'
    BY <1>1, <1>2 DEF Types, Backlog, Table
  <1>4. /\ Live' = Live \cup {t} /\ Working' = Working \cup {t} /\ t \notin Live
        /\ Working \subseteq Live
    BY <1>1 DEF Types, Live, Working
  <1>5. arg'[t] = info /\ \A u \in Live : arg'[u] = arg[u] /\ arg[u] # info
    BY <1>1, <1>2, <1>4 DEF Types, Cells, Live
  <1>6. Cells'
    BY <1>2, <1>4, <1>5 DEF Cells
  <1>7. Socks'
    BY <1>2, <1>4, <1>5 DEF Socks
  <1>8. Leaks'
    <2> SUFFICES ASSUME NEW d \in Fds, fds[d] # NULL
                 PROVE  \/ \E u \in Live' : sock[arg'[u]] = d /\ pc'[u] # "free"
                        \/ fds[d] \in leaked
      BY <1>2 DEF Leaks
    <2>1. \A u \in Live : pc'[u] = pc[u]
      BY <1>1, <1>4 DEF Types, Live
    <2>2. pc'[t] = "recv"
      BY <1>1 DEF Types
    <2> QED BY <1>2, <1>4, <1>5, <2>1, <2>2 DEF Leaks
  <1> QED BY <1>3, <1>6, <1>7, <1>8

(* The connection is leaked; its descriptor will never be anybody's again.  *)
LEMMA CreateFailsIInv == IInv /\ CreateFails => IInv'
  <1> SUFFICES ASSUME IInv, CreateFails PROVE IInv'
    OBVIOUS
  <1> USE DEF IInv, CreateFails, net, threads
  <1>1. info \in allocated
    BY DEF Cells
  <1>2. Types' /\ Backlog' /\ Table'
    BY <1>1 DEF Types, Backlog, Table
  <1>3. Cells'
    BY DEF Cells, Live
  <1>4. \A t \in Live : sock'[arg[t]] = sock[arg[t]]
    BY DEF Types, Cells, Live
  <1>5. Live' = Live /\ Working' = Working /\ Working \subseteq Live
    BY DEF Live, Working
  <1>6. Socks'
    BY <1>4, <1>5 DEF Socks
  <1>7. Leaks'
    BY <1>4, <1>5 DEF Leaks
  <1> QED BY <1>2, <1>3, <1>6, <1>7

----------------------------------------------------------------------------
(* Between recv, send and close a handler keeps what it has. *)
LEMMA StaysIInv ==
    ASSUME IInv, NEW t \in Working, NEW p \in {"recv", "send", "close"},
           pc' = [pc EXCEPT ![t] = p],
           UNCHANGED <<conn, backlog, fds, heap, main, arg, leaked>>
    PROVE  IInv'
  <1> USE DEF IInv, heap, main
  <1>1. Types' /\ Backlog' /\ Table'
    BY Zenon DEF Types, Backlog, Table
  <1>2. Live' = Live /\ Working' = Working
    BY DEF Types, Live, Working
  <1>3. Cells' /\ Socks'
    BY <1>2 DEF Cells, Socks
  <1>4. \A u \in Live : pc'[u] # "free" <=> pc[u] # "free"
    BY DEF Types, Live, Working
  <1>5. Leaks'
    BY <1>2, <1>4 DEF Leaks
  <1> QED BY <1>1, <1>3, <1>5

(* close(info->sock): of its own connection, which it forgets. *)
LEMMA CloseSockIInv ==
    ASSUME NULL \notin Clients, IInv, NEW t \in Threads, CloseSock(t)
    PROVE  IInv'
  <1> USE DEF IInv
  <1> DEFINE d == sock[arg[t]]
  <1>1. /\ pc[t] = "close" /\ pc' = [pc EXCEPT ![t] = "free"]
        /\ fds' = [fds EXCEPT ![d] = NULL]
        /\ conn' = [c \in Clients |-> IF c = fds[d] THEN "over" ELSE conn[c]]
        /\ UNCHANGED <<backlog, allocated, sock, main_pc, info, arg, leaked>>
    BY DEF CloseSock, CloseOf, Peer, heap, main
  <1>2. t \in Working /\ d \in Fds /\ fds[d] \in Clients /\ conn[fds[d]] = "open"
    BY <1>1 DEF Types, Working, Socks, Table
  <1>3. Types'
    BY <1>1, <1>2 DEF Types
  <1>4. Backlog'
    BY <1>1, <1>2 DEF Types, Backlog
  <1>5. Table'
    BY <1>1, <1>2 DEF Types, Table
  <1>6. Live' = Live /\ Working' = Working \ {t} /\ \A u \in Live \ {t} : pc'[u] = pc[u]
    BY <1>1 DEF Types, Live, Working
  <1>7. Cells'
    BY <1>1, <1>6 DEF Cells
  <1>8. \A e \in Fds : IF e = d THEN fds'[e] = NULL ELSE fds'[e] = fds[e]
    BY <1>1 DEF Types
  <1>9. Socks'
    BY <1>1, <1>2, <1>6, <1>8 DEF Socks
  <1>10. Leaks'
    BY <1>1, <1>2, <1>6, <1>8 DEF Leaks
  <1> QED BY <1>3, <1>4, <1>5, <1>7, <1>9, <1>10

(* free(info): of its own cell. *)
LEMMA FreeIInv ==
    ASSUME IInv, NEW t \in Threads, Free(t)
    PROVE  IInv'
  <1> USE DEF IInv
  <1>1. /\ pc[t] = "free" /\ pc' = [pc EXCEPT ![t] = "none"]
        /\ allocated' = allocated \ {arg[t]}
        /\ sock' = [sock EXCEPT ![arg[t]] = 0]
        /\ arg' = [arg EXCEPT ![t] = NULL]
        /\ UNCHANGED <<conn, backlog, fds, main_pc, info, leaked>>
    BY DEF Free, net, main
  <1>2. Types' /\ Backlog' /\ Table'
    BY <1>1, Zenon DEF Types, Backlog, Table
  <1>3. /\ t \in Live /\ Live' = Live \ {t} /\ Working' = Working
        /\ Working \subseteq Live \ {t}
        /\ \A u \in Live \ {t} : pc'[u] = pc[u] /\ arg'[u] = arg[u] /\ arg[u] # arg[t]
    BY <1>1 DEF Types, Live, Working, Cells
  <1>4. Cells'
    BY <1>1, <1>3 DEF Cells
  <1>5. /\ \A u \in Live \ {t} : sock'[arg[u]] = sock[arg[u]]
        /\ main_pc \in {"accept", "create"} => sock'[info] = sock[info]
    BY <1>1, <1>3 DEF Types, Cells
  <1>6. Socks'
    BY <1>1, <1>3, <1>5 DEF Socks
  <1>7. Leaks'
    BY <1>1, <1>3, <1>5 DEF Leaks
  <1> QED BY <1>2, <1>4, <1>6, <1>7

LEMMA HandlerIInv ==
    ASSUME NULL \notin Clients, IInv, NEW t \in Threads, Handler(t)
    PROVE  IInv'
  <1>1. CASE Recv(t)
    BY <1>1, StaysIInv, Zenon DEF Recv, RecvOf, Working
  <1>2. CASE RecvEnds(t)
    BY <1>2, StaysIInv, Zenon DEF RecvEnds, Working, net
  <1>3. CASE SendBack(t)
    BY <1>3, StaysIInv, Zenon DEF SendBack, SendOf, Working
  <1>4. CASE SendFails(t)
    BY <1>4, StaysIInv, Zenon DEF SendFails, Working, net
  <1> QED BY <1>1, <1>2, <1>3, <1>4, CloseSockIInv, FreeIInv DEF Handler

LEMMA NextIInv ==
    ASSUME NULL \notin Clients, IInv, [Next]_vars
    PROVE  IInv'
  <1>1. CASE UNCHANGED vars
    BY <1>1 DEF vars, net, server, heap, main, threads, IInv, Types, Backlog, Table, Cells, Socks,
                Leaks, Live, Working
  <1>2. CASE Main
    BY <1>2, MallocIInv, AcceptIInv, CreateIInv DEF Main
  <1>3. CASE MainFails
    BY <1>3, MallocFailsIInv, AcceptFailsIInv, CreateFailsIInv DEF MainFails
  <1> QED BY <1>1, <1>2, <1>3, ClientIInv, HandlerIInv DEF Next, Ended

(* ThreadServer: a handler's client_info was not freed and is nobody else's *)
(* (free(info) of server.c comes last), its descriptor is open and its own, *)
(* only pthread_create's failures leave connections open, and no client_info*)
(* is lost: for any number of clients, threads, cells and descriptors.      *)
THEOREM OwnedAlways ==
    ASSUME NULL \notin Clients
    PROVE  Spec => []Owned
  <1>1. Init => IInv
    BY InitIInv
  <1>2. IInv /\ [Next]_vars => IInv'
    BY NextIInv
  <1>3. IInv => Owned
    BY IInvOwned
  <1> QED BY <1>1, <1>2, <1>3, PTL DEF Spec
=============================================================================
