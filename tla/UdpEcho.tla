------------------------------ MODULE UdpEcho -------------------------------
(***************************************************************************)
(* v6_upcase_echo/server.c and client.c: over UDP, a client sends its      *)
(* arguments one by one and takes the next datagram it gets for the answer.*)
(* The network may lose, duplicate and reorder datagrams; neither program  *)
(* does anything about it.  recvfrom cuts off what the buffer cannot hold. *)
(***************************************************************************)
EXTENDS Integers, Sequences, FiniteSets, Bags

CONSTANTS Clients, Bytes,
          Upper,              \* toupper, on Bytes
          Size,               \* of both buffers
          Messages,           \* the arguments of each client
          Host,
          MaxLost, MaxCopies  \* bounds on what the network does

VARIABLES net,                     \* a bag of datagrams
          lost, copies,            \* how many were lost, or doubled
          pc, i, responses,        \* per client: where it is; argument; printed
          server_pc, buffer, peer  \* server: what it has received, from whom

clients == <<pc, i, responses>>
server == <<server_pc, buffer, peer>>
vars == <<net, lost, copies, clients, server>>

Datagrams == [from : Clients \cup {Host}, to : Clients \cup {Host}, data : Seq(Bytes)]

(* The variables have their types. *)
TypeOK == /\ IsABag(net) /\ BagToSet(net) \subseteq Datagrams
          /\ lost \in 0 .. MaxLost /\ copies \in 0 .. MaxCopies
          /\ pc \in [Clients -> {"send", "recv", "done", "failed"}]
          /\ \A c \in Clients : i[c] \in 1 .. Len(Messages[c]) + 1
          /\ responses \in [Clients -> Seq(Seq(Bytes))]
          /\ server_pc \in {"recv", "send", "failed"}
          /\ buffer \in Seq(Bytes) /\ Len(buffer) <= Size
          /\ peer \in Clients \cup {Host}

Init == /\ net = EmptyBag /\ lost = 0 /\ copies = 0
        /\ pc = [c \in Clients |-> "send"] /\ i = [c \in Clients |-> 1]
        /\ responses = [c \in Clients |-> <<>>]
        /\ server_pc = "recv" /\ buffer = <<>> /\ peer = Host

(* The programs have ended, or were never started. *)
Off == /\ net = EmptyBag /\ lost = 0 /\ copies = 0
       /\ pc = [c \in Clients |-> "done"] /\ i = [c \in Clients |-> 1]
       /\ responses = [c \in Clients |-> <<>>]
       /\ server_pc = "failed" /\ buffer = <<>> /\ peer = Host

One(from, to, data) == SetToBag({[from |-> from, to |-> to, data |-> data]})

(* What recvfrom stores of a datagram. *)
Cut(s) == SubSeq(s, 1, IF Len(s) < Size THEN Len(s) ELSE Size)

UpperOf(s) == [k \in 1 .. Len(s) |-> Upper[s[k]]]

----------------------------------------------------------------------------
(* Mutant: a client that waits sends its message again. *)
ClientSendAgain(c) == /\ pc[c] \in {"send", "recv"} /\ i[c] <= Len(Messages[c])
                      /\ BagCardinality(net) < 3
                      /\ net' = net (+) One(c, Host, Messages[c][i[c]])
                      /\ pc' = [pc EXCEPT ![c] = "recv"]
                      /\ UNCHANGED <<lost, copies, i, responses, server>>

ClientSend(c) == /\ pc[c] = "send" /\ i[c] <= Len(Messages[c])
                 /\ net' = net (+) One(c, Host, Messages[c][i[c]])
                 /\ pc' = [pc EXCEPT ![c] = "recv"]
                 /\ UNCHANGED <<lost, copies, i, responses, server>>

ClientRecv(c) == /\ pc[c] = "recv"
                 /\ \E d \in BagToSet(net) :
                       /\ d.to = c
                       /\ net' = net (-) SetToBag({d})
                       /\ responses' = [responses EXCEPT ![c] = Append(@, Cut(d.data))]
                 /\ i' = [i EXCEPT ![c] = @ + 1]
                 /\ pc' = [pc EXCEPT ![c] = "send"]
                 /\ UNCHANGED <<lost, copies, server>>

ClientDone(c) == /\ pc[c] = "send" /\ i[c] > Len(Messages[c])
                 /\ pc' = [pc EXCEPT ![c] = "done"]
                 /\ UNCHANGED <<net, lost, copies, i, responses, server>>

(* sendto or recvfrom fails. *)
ClientFails(c) == /\ pc[c] \in {"send", "recv"} /\ i[c] <= Len(Messages[c])
                  /\ pc' = [pc EXCEPT ![c] = "failed"]
                  /\ UNCHANGED <<net, lost, copies, i, responses, server>>

ServerRecv == /\ server_pc = "recv"
              /\ \E d \in BagToSet(net) :
                    /\ d.to = Host
                    /\ net' = net (-) SetToBag({d})
                    /\ buffer' = UpperOf(Cut(d.data)) /\ peer' = d.from
              /\ server_pc' = "send"
              /\ UNCHANGED <<lost, copies, clients>>

(* Mutant: the server receives again without answering. *)
ServerSendQuiet == /\ server_pc = "send"
                   /\ net' = net
                   /\ server_pc' = "recv" /\ buffer' = <<>> /\ peer' = Host
                   /\ UNCHANGED <<lost, copies, clients>>

ServerSend == /\ server_pc = "send"
              /\ net' = net (+) One(Host, peer, buffer)
              /\ server_pc' = "recv" /\ buffer' = <<>> /\ peer' = Host
              /\ UNCHANGED <<lost, copies, clients>>

(* recvfrom or sendto fails: the server returns. *)
ServerFails == /\ server_pc \in {"recv", "send"}
               /\ server_pc' = "failed" /\ buffer' = <<>> /\ peer' = Host
               /\ UNCHANGED <<net, lost, copies, clients>>

----------------------------------------------------------------------------
(* The network *)
Lose == /\ lost < MaxLost
        /\ \E d \in BagToSet(net) : net' = net (-) SetToBag({d})
        /\ lost' = lost + 1
        /\ UNCHANGED <<copies, clients, server>>

Double == /\ copies < MaxCopies
          /\ \E d \in BagToSet(net) : net' = net (+) SetToBag({d})
          /\ copies' = copies + 1
          /\ UNCHANGED <<lost, clients, server>>

Client(c) == ClientSend(c) \/ ClientRecv(c) \/ ClientDone(c)
Run == ServerRecv \/ ServerSend

(* All have ended or wait in recvfrom, perhaps for what was lost. *)
Stuck == /\ server_pc # "send" /\ \A c \in Clients : pc[c] # "send"
         /\ UNCHANGED vars

Next == \/ \E c \in Clients : Client(c) \/ ClientFails(c)
        \/ Run \/ ServerFails \/ Lose \/ Double \/ Stuck

Spec == Init /\ [][Next]_vars

(* The programs run, and datagrams that are not lost arrive. *)
Fairness == WF_vars(Run) /\ \A c \in Clients : WF_vars(Client(c))
FairSpec == Spec /\ Fairness

----------------------------------------------------------------------------
Answer(c, k) == UpperOf(Cut(Messages[c][k]))

(* A response is the answer to a message of the same client, never to one   *)
(* of another, and not to a later message.                                  *)
OwnResponses == \A c \in Clients : \A k \in DOMAIN responses[c] :
                   \E m \in 1 .. k : responses[c][k] = Answer(c, m)


(* Every client ends if nothing is lost and the server stays; there is no   *)
(* timeout, so that these are the conditions.                               *)
Finishes == \A c \in Clients : <>(pc[c] \in {"done", "failed"} \/ lost > 0 \/ server_pc = "failed")
=============================================================================
