------------------------------ MODULE Servers -------------------------------
(***************************************************************************)
(* The network programs of the repository, side by side: one of them is    *)
(* started, the others are off.  The servers that answer in capitals have  *)
(* the same TCP clients, and are held to the same promise, UpcaseEcho.     *)
(***************************************************************************)
EXTENDS Integers, Sequences, TLC

CONSTANTS Programs,                       \* which of them may be started
          Clients, Bytes, Text, Upper, NULL,
          Children, PreforkMaxSent,       \* PreforkServer
          Threads, Infos, ThreadMaxFd, ThreadMaxSent,   \* ThreadServer
          UvMaxFd, UvMaxSent, MaxQueued, MaxTalkers,    \* UvServer
          ChatClients, Senders, Slow, ChatMaxFd, ChatMaxSent,    \* ChatServer
          HelloClients, HelloSize, response, HelloMaxSent,       \* TcpServer01
          UdpClients, Messages, Size, Host, MaxLost, MaxCopies,  \* UdpEcho
          FdClients, FdMaxFd,             \* SendFd
          LineSize, Lines                 \* EchoClient

ASSUME ProgramsAssumption == Programs \subseteq {"prefork", "thread", "uv", "chat", "hello", "udp", "send_fd", "client"}
ASSUME TextAssumption == /\ Text \in Seq(Bytes)
                         /\ PreforkMaxSent <= Len(Text) /\ ThreadMaxSent <= Len(Text) /\ UvMaxSent <= Len(Text)
ASSUME UpperAssumption == Upper \in [Bytes -> Bytes]
ASSUME NullAssumption == NULL \notin Clients \cup ChatClients \cup Bytes \cup Infos
ASSUME ChildrenAssumption == Children # {}
ASSUME FdAssumption == {ThreadMaxFd, UvMaxFd, ChatMaxFd, FdMaxFd} \subseteq Nat
ASSUME SendersAssumption == Senders \subseteq ChatClients /\ Slow \subseteq ChatClients
ASSUME MessagesAssumption == Messages \in [UdpClients -> Seq(Seq(Bytes))]
ASSUME HostAssumption == Host \notin UdpClients
ASSUME LinesAssumption == Lines \subseteq Seq(Bytes) /\ LineSize > 1

VARIABLES program,    \* the one that was started
          sent, answered, arrived, fin, conn, backlog,
          parent, pc, client_sock, buffer,
          fds, allocated, sock, main_pc, info, thread_pc, arg, thread_buffer, broken, leaked,
          uv_reads, at_eof, writes, completed, uv_broken, requests, buffers, handles, uv_pc,
          chat_sent, chat_answered, chat_arrived, chat_fin, chat_conn, chat_backlog,
          chat_fds, master, max_fd, reads, chat_pc, buf, to, since, full,
          hello_sent, hello_answered, hello_arrived, hello_fin, hello_conn, hello_backlog,
          hello_sock, hello_pc, reset,
          datagrams, lost, copies, udp_pc, i, responses, server_pc, udp_buffer, peer,
          waiting, fd_server, fd_client, used, accepted, passed, unread, fd_pc, file, unwritten,
          input, typed, line_buffer, to_server, answers, read, up, client_pc

Prefork == INSTANCE PreforkServer WITH MaxSent <- PreforkMaxSent
Thread == INSTANCE ThreadServer WITH MaxSent <- ThreadMaxSent, MaxFd <- ThreadMaxFd,
             pc <- thread_pc, buffer <- thread_buffer
Uv == INSTANCE UvServer WITH MaxSent <- UvMaxSent, MaxFd <- UvMaxFd, broken <- uv_broken
Chat == INSTANCE ChatServer WITH Clients <- ChatClients, MaxSent <- ChatMaxSent, MaxFd <- ChatMaxFd,
           Bytes <- ChatClients \X (1 .. ChatMaxSent),
           sent <- chat_sent, answered <- chat_answered, arrived <- chat_arrived, fin <- chat_fin,
           conn <- chat_conn, backlog <- chat_backlog, fds <- chat_fds, pc <- chat_pc
Hello == INSTANCE TcpServer01 WITH Clients <- HelloClients, Size <- HelloSize, MaxSent <- HelloMaxSent,
            sent <- hello_sent, answered <- hello_answered, arrived <- hello_arrived, fin <- hello_fin,
            conn <- hello_conn, backlog <- hello_backlog, client_sock <- hello_sock, pc <- hello_pc
Udp == INSTANCE UdpEcho WITH Clients <- UdpClients, net <- datagrams, pc <- udp_pc, buffer <- udp_buffer
Pass == INSTANCE SendFd WITH Clients <- FdClients, MaxFd <- FdMaxFd, server <- fd_server, client <- fd_client,
           pc <- fd_pc
Echo == INSTANCE EchoClient WITH buffer <- line_buffer, pc <- client_pc

tcp == <<sent, answered, arrived, fin, conn, backlog>>
prefork == <<parent, pc, client_sock, buffer>>
thread == <<fds, allocated, sock, main_pc, info, thread_pc, arg, thread_buffer, broken, leaked>>
uv == <<uv_reads, at_eof, writes, completed, uv_broken, requests, buffers, handles, uv_pc>>
chat == <<chat_sent, chat_answered, chat_arrived, chat_fin, chat_conn, chat_backlog,
          chat_fds, master, max_fd, reads, chat_pc, buf, to, since, full>>
hello == <<hello_sent, hello_answered, hello_arrived, hello_fin, hello_conn, hello_backlog,
           hello_sock, hello_pc, reset>>
udp == <<datagrams, lost, copies, udp_pc, i, responses, server_pc, udp_buffer, peer>>
send_fd == <<waiting, fd_server, fd_client, used, accepted, passed, unread, fd_pc, file, unwritten>>
client == <<input, typed, line_buffer, to_server, answers, read, up, client_pc>>
vars == <<program, tcp, prefork, thread, uv, chat, hello, udp, send_fd, client>>

Init == /\ program \in Programs
        /\ IF program = "prefork" THEN Prefork!Init ELSE Prefork!Off
        /\ IF program = "thread" THEN Thread!Init ELSE Thread!Off
        /\ IF program = "uv" THEN Uv!Init ELSE Uv!Off
        /\ IF program = "chat" THEN Chat!Init ELSE Chat!Off
        /\ IF program = "hello" THEN Hello!Init ELSE Hello!Off
        /\ IF program = "udp" THEN Udp!Init ELSE Udp!Off
        /\ IF program = "send_fd" THEN Pass!Init ELSE Pass!Off
        /\ IF program = "client" THEN Echo!Init ELSE Echo!Off

Next == /\ \/ /\ program = "prefork" /\ Prefork!Next
              /\ UNCHANGED <<thread, uv, chat, hello, udp, send_fd, client>>
           \/ /\ program = "thread" /\ Thread!Next
              /\ UNCHANGED <<prefork, uv, chat, hello, udp, send_fd, client>>
           \/ /\ program = "uv" /\ Uv!Next
              /\ UNCHANGED <<prefork, thread, chat, hello, udp, send_fd, client>>
           \/ /\ program = "chat" /\ Chat!Next
              /\ UNCHANGED <<tcp, prefork, thread, uv, hello, udp, send_fd, client>>
           \/ /\ program = "hello" /\ Hello!Next
              /\ UNCHANGED <<tcp, prefork, thread, uv, chat, udp, send_fd, client>>
           \/ /\ program = "udp" /\ Udp!Next
              /\ UNCHANGED <<tcp, prefork, thread, uv, chat, hello, send_fd, client>>
           \/ /\ program = "send_fd" /\ Pass!Next
              /\ UNCHANGED <<tcp, prefork, thread, uv, chat, hello, udp, client>>
           \/ /\ program = "client" /\ Echo!Next
              /\ UNCHANGED <<tcp, prefork, thread, uv, chat, hello, udp, send_fd>>
        /\ UNCHANGED program

Spec == Init /\ [][Next]_vars

(* What is off has no step to take, and is not concerned. *)
FairSpec == /\ Spec /\ Prefork!Fairness /\ Thread!Fairness /\ Uv!Fairness /\ Chat!Fairness
            /\ Hello!Fairness /\ Udp!Fairness /\ Pass!Fairness /\ Echo!Fairness

----------------------------------------------------------------------------
(* PreforkServer: a connection that was accepted and not closed is in the   *)
(* hands of exactly one child, and what its client has sent was answered,   *)
(* is in the buffer of that child or has still to be read.                  *)
NothingLost == program = "prefork" => Prefork!OneServer /\ Prefork!NothingLost

(* ThreadServer: a handler's client_info was not freed and is nobody else's;*)
(* its descriptor is open and is no other handler's, although numbers are   *)
(* used again.  Only the connections that pthread_create failed for stay    *)
(* open with no handler, and the memory is freed in every case.             *)
Owned == Thread!Owned


(* ChatServer: select waits for all the descriptors that are open, and for  *)
(* none that is closed; and recv never blocks, although connections are     *)
(* opened and closed between select and recv.                               *)
SelectSafe == Chat!MasterOpen /\ Chat!RecvReady

(* ChatServer: when the server waits, every client has got all that the     *)
(* others have said since it joined.                                        *)
HeardAll == Chat!HeardAll


(* SendFd: each client that gets a descriptor writes its line, also if the  *)
(* server has ended by then, and each costs the server two descriptors.     *)
(* TcpServer01: one client gets the response, and the others are reset.     *)
Passed == Pass!Passed /\ Hello!OneResponse

(* The TCP servers that answer in capitals: clients get their own bytes     *)
(* back, in order, whichever child, thread or callback serves them, however *)
(* the bytes are split into reads and writes, and after a send has failed.  *)
Abstract == INSTANCE UpcaseEcho
Implements == Abstract!Spec


(* UdpEcho: a client ends if nothing is lost and the server stays.  SendFd: *)
(* a client that has connected ends.  TcpServer01: the server ends after    *)
(* its first client.  EchoClient: the client ends unless its line is empty. *)
(* UvServer: all who stay are answered or refused.                          *)
Finishes == Udp!Finishes /\ <>[](Pass!Done /\ Hello!Done /\ Echo!Done /\ (program = "uv" => Uv!Done))
=============================================================================
