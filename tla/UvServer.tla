------------------------------ MODULE UvServer ------------------------------
(***************************************************************************)
(* libuv_tcp_server01/main.c: callbacks of libuv that answer in capitals.  *)
(* The loop calls one of them at a time, so each is one step.  libuv is    *)
(* outside of the sources: it reads when there is something to read and    *)
(* stops at the end or an error; it keeps the writes of a stream in order, *)
(* writes as much as the kernel takes, and calls WriteCallback later.      *)
(* When there are no descriptors left, it accepts and closes at once.      *)
(* SIGPIPE is not ignored.                                                 *)
(***************************************************************************)
EXTENDS Sockets, FiniteSetsExt

CONSTANTS MaxFd,      \* as many descriptors are left for connections
          MaxQueued,  \* bound on the writes of a connection that wait when nothing was read
          MaxTalkers, \* bound on the number of clients that send anything
          Text,       \* what clients send, as much of it as they like
          Upper       \* toupper, on Bytes

VARIABLES uv_reads,     \* the streams that libuv reads from
          at_eof,       \* those that have come to their end
          writes,       \* per client: what is left of each write, in order
          completed,    \* per client: the writes whose callback is to be called
          broken,       \* connections on which a write has failed
          requests, buffers, handles,   \* how many of each malloc has given out
          uv_pc         \* "run" or "dead"

memory == <<requests, buffers, handles>>
streams == <<uv_reads, at_eof>>
queue == <<writes, completed, broken>>
server == <<streams, queue, memory, uv_pc>>
vars == <<net, server>>

At(p) == /\ NetInit /\ uv_reads = {} /\ at_eof = {} /\ broken = {}
         /\ writes = [c \in Clients |-> <<>>] /\ completed = [c \in Clients |-> 0]
         /\ requests = 0 /\ buffers = 0 /\ handles = 0 /\ uv_pc = p
Init == At("run")
Off == At("dead")

UpperOf(s) == [i \in 1 .. Len(s) |-> Upper[s[i]]]
Running == uv_pc = "run"
Accepted == {c \in Clients : conn[c] = "open"}

Client(c) == /\ Running
             /\ \/ Connect(c) \/ Close(c)
                \/ /\ Cardinality({d \in Clients : sent[d] # <<>>} \cup {c}) <= MaxTalkers
                   /\ Send(c, Text[Len(sent[c]) + 1])
             /\ UNCHANGED server

(* The process ends, and everything it has with it. *)
Die == /\ CloseOf(Accepted) /\ uv_pc' = "dead"
       /\ uv_reads' = {} /\ at_eof' = {} /\ broken' = {}
       /\ writes' = [c \in Clients |-> <<>>] /\ completed' = [c \in Clients |-> 0]
       /\ requests' = 0 /\ buffers' = 0 /\ handles' = 0

----------------------------------------------------------------------------
ConnectionCallback(c) == /\ Running /\ Cardinality(Accepted) < MaxFd
                         /\ AcceptOf(c)
                         /\ handles' = handles + 1
                         /\ uv_reads' = uv_reads \cup {c}
                         /\ UNCHANGED <<at_eof, queue, requests, buffers, uv_pc>>

(* libuv: there is no descriptor left, and no callback. *)
Refuse(c) == /\ Running /\ Cardinality(Accepted) >= MaxFd
             /\ backlog # <<>> /\ c = Head(backlog)
             /\ conn' = [conn EXCEPT ![c] = "over"] /\ backlog' = Tail(backlog)
             /\ UNCHANGED <<sent, answered, arrived, fin, server>>

(* A buffer for what is read. *)
AllocBuffer == buffers + 1

(* The part of ReadCallback that answers s; the buffer has been freed again. *)
Queue(c, s) == /\ writes' = [writes EXCEPT ![c] = Append(@, UpperOf(s))]
               /\ requests' = requests + 1
               /\ UNCHANGED <<streams, completed, broken, buffers, handles, uv_pc>>

ReadCallback(c) == /\ c \in uv_reads
                   /\ \E s \in Readable(c) : RecvOf(c, s) /\ Queue(c, s)

(* nread is 0: there was nothing to read after all. *)
ReadNothing(c) == /\ c \in uv_reads /\ arrived[c] = <<>> /\ Len(writes[c]) + completed[c] < MaxQueued
                  /\ Queue(c, <<>>)
                  /\ UNCHANGED net


(* nread is UV_EOF: the buffer is not freed, and the stream not closed. *)
ReadEof(c) == /\ c \in uv_reads /\ AtEof(c)
              /\ uv_reads' = uv_reads \ {c} /\ at_eof' = at_eof \cup {c}
              /\ buffers' = AllocBuffer
              /\ UNCHANGED <<net, queue, requests, handles, uv_pc>>

(* nread is another error: the buffer is freed, the stream not closed. *)
ReadError(c) == /\ c \in uv_reads /\ fin[c]
                /\ uv_reads' = uv_reads \ {c}
                /\ UNCHANGED <<net, at_eof, queue, memory, uv_pc>>

(* malloc fails: exit, or a NULL that is not tested. *)
OutOfMemory == /\ Running
               /\ backlog # <<>> \/ \E c \in uv_reads : arrived[c] # <<>>
               /\ Die

----------------------------------------------------------------------------
(* libuv: the kernel takes some of the first write. *)
Write(c) == /\ writes[c] # <<>> /\ c \notin broken
            /\ LET s == Head(writes[c]) IN
               \E n \in (IF s = <<>> THEN {0} ELSE 1 .. Len(s)) :
                  /\ SendOf(c, SubSeq(s, 1, n))
                  /\ writes' = IF n = Len(s) THEN [writes EXCEPT ![c] = Tail(@)]
                               ELSE [writes EXCEPT ![c][1] = SubSeq(s, n + 1, Len(s))]
                  /\ completed' = [completed EXCEPT ![c] = @ + IF n = Len(s) THEN 1 ELSE 0]
            /\ UNCHANGED <<streams, broken, memory, uv_pc>>

(* libuv: once the client has gone, a write fails, and then all do ... *)
WriteFails(c) == /\ writes[c] # <<>> /\ fin[c]
                 /\ writes' = [writes EXCEPT ![c] = Tail(@)]
                 /\ completed' = [completed EXCEPT ![c] = @ + 1]
                 /\ broken' = broken \cup {c}
                 /\ UNCHANGED <<net, streams, memory, uv_pc>>

(* ... or SIGPIPE ends the process. *)
WriteKills == Running /\ (\E c \in Clients : writes[c] # <<>> /\ fin[c]) /\ Die

WriteCallback(c) == /\ completed[c] > 0
                    /\ completed' = [completed EXCEPT ![c] = @ - 1]
                    /\ requests' = requests - 1
                    /\ UNCHANGED <<net, streams, writes, broken, buffers, handles, uv_pc>>

Loop(c) == \/ ConnectionCallback(c) \/ Refuse(c) \/ ReadCallback(c) \/ ReadEof(c)
           \/ Write(c) \/ WriteCallback(c)
Fails(c) == ReadNothing(c) \/ ReadError(c) \/ WriteFails(c)
Idle == UNCHANGED vars

Next == (\E c \in Clients : Client(c) \/ Loop(c) \/ Fails(c)) \/ OutOfMemory \/ WriteKills \/ Idle
Spec == Init /\ [][Next]_vars

(* The loop comes to every stream that is ready. *)
Fairness == \A c \in Clients : /\ WF_vars(ConnectionCallback(c) \/ Refuse(c)) /\ WF_vars(ReadCallback(c))
                               /\ WF_vars(Write(c)) /\ WF_vars(WriteCallback(c))

----------------------------------------------------------------------------

(* What it comes to: a client is accepted or refused, and what it has sent  *)
(* is answered unless it goes or the process dies.                          *)
Done == Running => \A c \in Clients :
                      /\ conn[c] # "queued"
                      /\ conn[c] = "open" => Len(answered[c]) = Len(sent[c]) \/ fin[c]
=============================================================================
