----------------------------- MODULE UpcaseEcho -----------------------------
(***************************************************************************)
(* What the TCP servers of the repository that answer in capitals promise: *)
(* what a client gets back is what it has sent itself, in capitals and in  *)
(* order, as far as the server has come.                                   *)
(***************************************************************************)
EXTENDS Integers, Sequences

CONSTANTS Clients, Bytes,
          Upper     \* toupper, a function on Bytes

VARIABLES sent,      \* what each client has sent
          answered   \* what was sent back to it

Init == sent = [c \in Clients |-> <<>>] /\ answered = [c \in Clients |-> <<>>]

Send(c, b) == sent' = [sent EXCEPT ![c] = Append(@, b)] /\ UNCHANGED answered

UpperOf(s) == [i \in 1 .. Len(s) |-> Upper[s[i]]]

Answer(c, n) == /\ answered' = [answered EXCEPT ![c] = UpperOf(SubSeq(sent[c], 1, n))]
                /\ UNCHANGED sent

Next == \E c \in Clients : \/ \E b \in Bytes : Send(c, b)
                           \/ \E n \in Len(answered[c]) + 1 .. Len(sent[c]) : Answer(c, n)

Spec == Init /\ [][Next]_<<sent, answered>>
=============================================================================
