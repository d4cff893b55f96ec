------------------------- MODULE PreforkServerProofs ------------------------
(***************************************************************************)
(* Proofs about PreforkServer, for any numbers of clients and children and *)
(* any text: no byte is lost, and the server implements UpcaseEcho.        *)
(***************************************************************************)
EXTENDS PreforkServer, TLAPS

(* What the constants are. *)
Parameters == /\ Text \in Seq(Bytes) /\ MaxSent \in Nat /\ MaxSent <= Len(Text)
              /\ Upper \in [Bytes -> Bytes]
              /\ NULL \notin Clients

(* What the server promises. *)
Abstract == INSTANCE UpcaseEcho

(* Who waits for accept waits once, and has been sent nothing. *)
Backlog == /\ \A i \in 1 .. Len(backlog) : conn[backlog[i]] = "queued"
           /\ \A i, j \in 1 .. Len(backlog) : backlog[i] = backlog[j] => i = j

(* Of x, a was answered, s is in a buffer and r is still to be read. *)
Split(x, a, s, r) == UpperOf(x) = a \o (s \o UpperOf(r))
Kept(c, s) == Split(sent[c], answered[c], s, arrived[c])
Buffers == /\ \A k \in Children : buffer[k] # <<>> <=> pc[k] = "send"
           /\ \A k \in Children : client_sock[k] # NULL => Kept(client_sock[k], buffer[k])
           /\ \A c \in Clients : conn[c] \in {"new", "queued"} => Kept(c, <<>>)

(* What was answered, also after the end of the connection. *)
Prefix == \A c \in Clients :
             /\ Len(answered[c]) <= Len(sent[c])
             /\ answered[c] = UpperOf(SubSeq(sent[c], 1, Len(answered[c])))

IInv == TypeOK /\ Backlog /\ OneServer /\ Buffers /\ Prefix

----------------------------------------------------------------------------
(* toupper works byte by byte. *)
LEMMA UpperOfType ==
    ASSUME Upper \in [Bytes -> Bytes], NEW s \in Seq(Bytes)
    PROVE  UpperOf(s) \in Seq(Bytes) /\ Len(UpperOf(s)) = Len(s)
  BY DEF UpperOf

LEMMA UpperOfConcat ==
    ASSUME Upper \in [Bytes -> Bytes], NEW s \in Seq(Bytes), NEW t \in Seq(Bytes)
    PROVE  UpperOf(s \o t) = UpperOf(s) \o UpperOf(t)
  BY SMTT(30) DEF UpperOf

(* What comes first in capitals is the first of it, in capitals. *)
LEMMA UpperOfPrefix ==
    ASSUME Upper \in [Bytes -> Bytes], NEW s \in Seq(Bytes), NEW a \in Seq(Bytes), NEW b \in Seq(Bytes),
           UpperOf(s) = a \o b
    PROVE  Len(a) <= Len(s) /\ a = UpperOf(SubSeq(s, 1, Len(a)))
  <1>1. Len(s) = Len(a) + Len(b)
    <2>1. Len(UpperOf(s)) = Len(s)
      BY UpperOfType
    <2>2. Len(a \o b) = Len(a) + Len(b)
      OBVIOUS
    <2> QED BY <2>1, <2>2
  <1>2. \A i \in 1 .. Len(a) : a[i] = Upper[s[i]]
    <2> TAKE i \in 1 .. Len(a)
    <2>1. i \in 1 .. Len(s)
      BY <1>1
    <2>2. (a \o b)[i] = a[i]
      OBVIOUS
    <2>3. UpperOf(s)[i] = Upper[s[i]]
      BY <2>1 DEF UpperOf
    <2> QED BY <2>2, <2>3
  <1> QED BY <1>1, <1>2, SMTT(30) DEF UpperOf

(* A read takes the first bytes off what has arrived. *)
LEMMA SplitSeq ==
    ASSUME NEW s \in Seq(Bytes), NEW n \in 1 .. Len(s)
    PROVE  /\ SubSeq(s, 1, n) \in Seq(Bytes) /\ SubSeq(s, n + 1, Len(s)) \in Seq(Bytes)
           /\ Len(SubSeq(s, 1, n)) = n
           /\ s = SubSeq(s, 1, n) \o SubSeq(s, n + 1, Len(s))
  BY SMTT(30)

LEMMA Assoc ==
    ASSUME NEW s \in Seq(Bytes), NEW t \in Seq(Bytes), NEW u \in Seq(Bytes)
    PROVE  (s \o t) \o u = s \o (t \o u)
  BY SMTT(30)

----------------------------------------------------------------------------
LEMMA InitIInv == ASSUME Parameters, Init PROVE IInv
  <1> USE DEF Init, NetInit
  <1>1. TypeOK
    BY DEF TypeOK, NetTypeOK
  <1>2. Backlog /\ OneServer
    BY DEF Backlog, OneServer, Parameters
  <1>3. UpperOf(<<>>) = <<>>
    BY DEF UpperOf
  <1>4. <<>> = <<>> \o (<<>> \o <<>>) /\ SubSeq(<<>>, 1, Len(<<>>)) = <<>> /\ Len(<<>>) <= Len(<<>>)
    OBVIOUS
  <1>5. \A c \in Clients : sent[c] = <<>> /\ answered[c] = <<>> /\ arrived[c] = <<>>
    OBVIOUS
  <1>6. \A c \in Clients : Kept(c, <<>>)
    BY <1>3, <1>4, <1>5, Zenon DEF Kept, Split
  <1>7. Prefix
    BY <1>3, <1>4, <1>5, Zenon DEF Prefix
  <1>8. Buffers
    BY <1>6 DEF Buffers
  <1> QED BY <1>1, <1>2, <1>7, <1>8 DEF IInv

(* The inductive invariant says that nothing is lost. *)
LEMMA IInvNothingLost == ASSUME Parameters, IInv PROVE NothingLost
  <1> USE DEF IInv, TypeOK, NetTypeOK
  <1> SUFFICES ASSUME NEW c \in Connected
               PROVE  UpperOf(sent[c]) = (answered[c] \o BufferFor(c)) \o UpperOf(arrived[c])
    BY Zenon DEF NothingLost
  <1>1. c \in Clients /\ conn[c] \in {"queued", "open"}
    BY DEF Connected
  <1>2. BufferFor(c) \in Seq(Bytes) /\ Kept(c, BufferFor(c))
    <2>1. CASE conn[c] = "queued"
      BY <1>1, <2>1 DEF BufferFor, Buffers
    <2>2. CASE conn[c] = "open"
      <3> DEFINE k == CHOOSE j \in Children : client_sock[j] = c
      <3>1. k \in Children /\ client_sock[k] = c
        BY <1>1, <2>2 DEF OneServer
      <3>2. BufferFor(c) = buffer[k]
        BY <2>2 DEF BufferFor
      <3> HIDE DEF k
      <3> QED BY <1>1, <3>1, <3>2 DEF Buffers, Parameters
    <2> QED BY <1>1, <2>1, <2>2
  <1>3. UpperOf(arrived[c]) \in Seq(Bytes)
    BY <1>1, UpperOfType DEF Parameters
  <1>4. answered[c] \in Seq(Bytes)
    BY <1>1
  <1>5. (answered[c] \o BufferFor(c)) \o UpperOf(arrived[c]) = answered[c] \o (BufferFor(c) \o UpperOf(arrived[c]))
    BY <1>2, <1>3, <1>4, Assoc, Zenon
  <1> QED BY <1>2, <1>5 DEF Kept, Split

(* No promise is broken by what leaves the bytes alone. *)
LEMMA SameBytes ==
    ASSUME IInv, UNCHANGED <<sent, answered, arrived>>
    PROVE  Prefix' /\ \A c, s : Kept(c, s)' <=> Kept(c, s)
  BY DEF IInv, Prefix, Kept

LEMMA ConnectIInv ==
    ASSUME IInv, NEW c \in Clients, Connect(c), UNCHANGED server
    PROVE  IInv'
  <1> USE DEF IInv, Connect, server
  <1>1. TypeOK'
    BY DEF TypeOK, NetTypeOK
  <1>2. Backlog'
    <2>1. backlog \in Seq(Clients) /\ conn \in [Clients -> {"new", "queued", "open", "over"}]
      BY DEF TypeOK, NetTypeOK
    <2> QED BY <2>1 DEF Backlog
  <1>3. OneServer'
    BY DEF TypeOK, NetTypeOK, OneServer
  <1>4. Prefix' /\ \A d, s : Kept(d, s)' <=> Kept(d, s)
    BY SameBytes
  <1>5. Buffers'
    BY <1>4 DEF TypeOK, NetTypeOK, Buffers
  <1> QED BY <1>1, <1>2, <1>3, <1>4, <1>5

LEMMA AppendOne ==
    ASSUME NEW x \in Seq(Bytes), NEW b \in Bytes
    PROVE  Append(x, b) = x \o <<b>> /\ <<b>> \in Seq(Bytes)
  <1>1. <<b>> \in Seq(Bytes)
    OBVIOUS
  <1>2. Append(x, b) = x \o <<b>>
    BY SMTT(30)
  <1> QED BY <1>1, <1>2

(* One more byte at the end of what was sent, and of what is to be read. *)
LEMMA SendKept ==
    ASSUME Parameters, NEW x \in Seq(Bytes), NEW a \in Seq(Bytes), NEW s \in Seq(Bytes),
           NEW r \in Seq(Bytes), NEW b \in Bytes, Split(x, a, s, r)
    PROVE  Split(Append(x, b), a, s, Append(r, b))
  <1> DEFINE u == UpperOf(<<b>>)  v == UpperOf(r)
  <1>1. Append(x, b) = x \o <<b>> /\ Append(r, b) = r \o <<b>> /\ <<b>> \in Seq(Bytes)
    BY AppendOne
  <1>2. u \in Seq(Bytes) /\ v \in Seq(Bytes)
    BY <1>1, UpperOfType, Zenon DEF Parameters
  <1>3. UpperOf(Append(x, b)) = UpperOf(x) \o u /\ UpperOf(Append(r, b)) = v \o u
    <2>1. UpperOf(x \o <<b>>) = UpperOf(x) \o u /\ UpperOf(r \o <<b>>) = v \o u
      BY <1>1, UpperOfConcat, Zenon DEF Parameters
    <2> QED BY <1>1, <2>1, Zenon
  <1> HIDE DEF u, v
  <1>4. s \o v \in Seq(Bytes)
    BY <1>2
  <1>5. (a \o (s \o v)) \o u = a \o ((s \o v) \o u)
    <2> DEFINE w == s \o v
    <2>1. w \in Seq(Bytes)
      BY <1>4
    <2> HIDE DEF w
    <2>2. (a \o w) \o u = a \o (w \o u)
      BY <1>2, <2>1, SMTT(30)
    <2> QED BY <2>2 DEF w
  <1>6. (s \o v) \o u = s \o (v \o u)
    BY <1>2, Assoc, SMTT(30)
  <1>7. UpperOf(x) = a \o (s \o v)
    BY DEF v, Split
  <1> QED BY <1>3, <1>5, <1>6, <1>7, Zenon DEF Split

LEMMA SendIInv ==
    ASSUME Parameters, IInv, NEW c \in Clients, Send(c, Text[Len(sent[c]) + 1]), UNCHANGED server
    PROVE  IInv' /\ Abstract!Next
  <1> DEFINE b == Text[Len(sent[c]) + 1]
  <1> USE DEF IInv, server
  <1>1. /\ sent' = [sent EXCEPT ![c] = Append(@, b)]
        /\ arrived' = [arrived EXCEPT ![c] = Append(@, b)]
        /\ UNCHANGED <<answered, fin, conn, backlog>>
        /\ conn[c] \in {"queued", "open"}
        /\ Len(sent[c]) < MaxSent
    BY DEF Send, Connected
  <1>2. /\ sent \in [Clients -> Seq(Bytes)] /\ answered \in [Clients -> Seq(Bytes)]
        /\ arrived \in [Clients -> Seq(Bytes)]
    BY DEF TypeOK, NetTypeOK
  <1>3. b \in Bytes
    <2>1. Len(sent[c]) \in Nat
      BY <1>2
    <2> QED BY <1>1, <2>1 DEF Parameters
  <1> HIDE DEF b
  <1>4. TypeOK'
    <2>1. sent' \in [Clients -> Seq(Bytes)] /\ arrived' \in [Clients -> Seq(Bytes)]
      BY <1>1, <1>2, <1>3
    <2> QED BY <1>1, <2>1 DEF TypeOK, NetTypeOK
  <1>5. Backlog' /\ OneServer'
    BY <1>1 DEF Backlog, OneServer
  <1>6. /\ sent'[c] = Append(sent[c], b) /\ arrived'[c] = Append(arrived[c], b)
        /\ \A d \in Clients \ {c} : sent'[d] = sent[d] /\ arrived'[d] = arrived[d]
    BY <1>1, <1>2
  <1>7. ASSUME NEW d \in Clients, NEW s \in Seq(Bytes), Kept(d, s)
        PROVE  Kept(d, s)'
    <2>1. CASE d = c
      <3>1. Split(Append(sent[c], b), answered[c], s, Append(arrived[c], b))
        <4>1. sent[c] \in Seq(Bytes) /\ answered[c] \in Seq(Bytes) /\ arrived[c] \in Seq(Bytes)
          BY <1>2
        <4> QED BY <1>3, <1>7, <2>1, <4>1, SendKept DEF Kept
      <3> QED BY <1>1, <1>6, <2>1, <3>1 DEF Kept
    <2>2. CASE d # c
      BY <1>1, <1>6, <1>7, <2>2 DEF Kept
    <2> QED BY <2>1, <2>2
  <1>8. Buffers'
    <2>1. \A k \in Children : client_sock[k] \in Clients \cup {NULL} /\ buffer[k] \in Seq(Bytes)
      BY DEF TypeOK
    <2>2. <<>> \in Seq(Bytes)
      OBVIOUS
    <2> QED BY <1>1, <1>7, <2>1, <2>2, Zenon DEF Buffers
  <1>9. Prefix'
    <2> SUFFICES ASSUME NEW d \in Clients
                 PROVE  /\ Len(answered[d]) <= Len(sent'[d])
                        /\ answered[d] = UpperOf(SubSeq(sent'[d], 1, Len(answered[d])))
      BY <1>1 DEF Prefix
    <2>1. CASE d # c
      BY <1>6, <2>1 DEF Prefix
    <2>2. CASE d = c
      <3>1. \A x \in Seq(Bytes) : \A n \in 0 .. Len(x) : SubSeq(Append(x, b), 1, n) = SubSeq(x, 1, n)
        BY <1>3, SMTT(30)
      <3>2. answered[c] \in Seq(Bytes) /\ sent[c] \in Seq(Bytes)
        BY <1>2
      <3>3. Len(answered[c]) \in 0 .. Len(sent[c]) /\ Len(Append(sent[c], b)) = Len(sent[c]) + 1
        BY <1>3, <3>2 DEF Prefix
      <3>4. SubSeq(Append(sent[c], b), 1, Len(answered[c])) = SubSeq(sent[c], 1, Len(answered[c]))
        BY <3>1, <3>2, <3>3
      <3>5. answered[c] = UpperOf(SubSeq(sent'[c], 1, Len(answered[c])))
        BY <1>6, <3>4, Zenon DEF Prefix
      <3>6. Len(answered[c]) <= Len(sent'[c])
        BY <1>6, <3>2, <3>3
      <3> QED BY <2>2, <3>5, <3>6
    <2> QED BY <2>1, <2>2
  <1>10. Abstract!Next
    BY <1>1, <1>3, Zenon DEF Abstract!Next, Abstract!Send
  <1> QED BY <1>4, <1>5, <1>8, <1>9, <1>10

----------------------------------------------------------------------------
(* Steps of the parent, and of children that keep what they have. *)
LEMMA ForkIInv == ASSUME IInv, Fork \/ WaitDone PROVE IInv'
  <1> USE DEF IInv
  <1>1. UNCHANGED <<net, client_sock, buffer>>
    BY DEF Fork, WaitDone
  <1>2. \/ pc' = pc
        \/ \E k \in Children : pc[k] = "unborn" /\ pc' = [pc EXCEPT ![k] = "accept"]
    BY DEF Fork, WaitDone
  <1>3. pc' \in [Children -> {"unborn", "accept", "read", "send", "dead"}]
    BY <1>2 DEF TypeOK
  <1>4. \A k \in Children : /\ pc'[k] \in {"read", "send"} <=> pc[k] \in {"read", "send"}
                            /\ pc'[k] = "send" <=> pc[k] = "send"
    BY <1>2 DEF TypeOK
  <1>5. TypeOK'
    BY <1>1, <1>3 DEF TypeOK, NetTypeOK, net, Fork, WaitDone
  <1>6. Backlog' /\ OneServer'
    BY <1>1, <1>4 DEF Backlog, OneServer, net
  <1>7. Prefix' /\ \A c, s : Kept(c, s)' <=> Kept(c, s)
    BY <1>1, SameBytes DEF net
  <1>8. Buffers'
    BY <1>1, <1>4, <1>7 DEF Buffers, net
  <1> QED BY <1>5, <1>6, <1>7, <1>8

LEMMA AcceptIInv ==
    ASSUME Parameters, IInv, NEW k \in Children, Accept(k)
    PROVE  IInv'
  <1> USE DEF IInv
  <1>1. PICK c \in Clients : AcceptOf(c) /\ client_sock' = [client_sock EXCEPT ![k] = c]
    BY Zenon DEF Accept
  <1>2. /\ pc[k] = "accept" /\ pc' = [pc EXCEPT ![k] = "read"]
        /\ UNCHANGED <<parent, buffer, sent, answered, arrived, fin>>
        /\ conn' = [conn EXCEPT ![c] = "open"]
        /\ backlog # <<>> /\ c = Head(backlog) /\ backlog' = Tail(backlog)
    BY <1>1 DEF Accept, AcceptOf
  <1>3. /\ conn \in [Clients -> {"new", "queued", "open", "over"}] /\ backlog \in Seq(Clients)
        /\ pc \in [Children -> {"unborn", "accept", "read", "send", "dead"}]
        /\ client_sock \in [Children -> Clients \cup {NULL}]
    BY DEF TypeOK, NetTypeOK
  <1>4. c = backlog[1] /\ conn[c] = "queued"
    BY <1>2, <1>3 DEF Backlog
  <1>5. TypeOK'
    <2>1. backlog' \in Seq(Clients)
      BY <1>2, <1>3
    <2> QED BY <1>1, <1>2, <2>1 DEF TypeOK, NetTypeOK
  <1>6. Backlog'
    BY <1>2, <1>3, <1>4 DEF Backlog
  <1>7. client_sock[k] = NULL /\ buffer[k] = <<>> /\ c # NULL
    BY <1>2 DEF OneServer, Buffers, Parameters
  <1>8. \A j \in Children : client_sock[j] # c
    BY <1>4 DEF OneServer
  <1>9. OneServer'
    <2>1. client_sock'[k] = c /\ \A j \in Children \ {k} : client_sock'[j] = client_sock[j]
      BY <1>1, <1>3
    <2>2. conn'[c] = "open" /\ \A d \in Clients \ {c} : conn'[d] = conn[d]
      BY <1>2, <1>3
    <2>3. pc'[k] = "read" /\ \A j \in Children \ {k} : pc'[j] = pc[j]
      BY <1>2, <1>3
    <2>4. \A d \in Clients : conn'[d] = "open" <=> \E j \in Children : client_sock'[j] = d
      BY <1>7, <1>8, <2>1, <2>2 DEF OneServer, Parameters
    <2>5. \A i, j \in Children : client_sock'[i] = client_sock'[j] /\ client_sock'[i] # NULL => i = j
      BY <1>8, <2>1 DEF OneServer
    <2>6. \A j \in Children : client_sock'[j] # NULL <=> pc'[j] \in {"read", "send"}
      BY <1>7, <2>1, <2>3 DEF OneServer
    <2> QED BY <2>4, <2>5, <2>6 DEF OneServer
  <1>10. Prefix' /\ \A d, s : Kept(d, s)' <=> Kept(d, s)
    BY <1>2, SameBytes
  <1>11. Kept(c, <<>>)
    BY <1>4 DEF Buffers
  <1>12. Buffers'
    <2>1. client_sock'[k] = c /\ \A j \in Children \ {k} : client_sock'[j] = client_sock[j]
      BY <1>1, <1>3
    <2>2. \A j \in Children : client_sock'[j] # NULL => Kept(client_sock'[j], buffer[j])
      BY <1>7, <1>11, <2>1 DEF Buffers
    <2>3. \A d \in Clients : conn'[d] \in {"new", "queued"} => conn[d] = conn'[d]
      BY <1>2, <1>3
    <2>4. \A j \in Children : pc'[j] = "send" <=> pc[j] = "send"
      BY <1>2, <1>3
    <2> QED BY <1>2, <1>10, <2>2, <2>3, <2>4 DEF Buffers
  <1> QED BY <1>5, <1>6, <1>9, <1>10, <1>12

(* A child gives up its connection, if it has one: Die and ReadEof. *)
LEMMA LeaveIInv ==
    ASSUME Parameters, IInv, NEW k \in Children, NEW p \in {"accept", "dead"},
           pc' = [pc EXCEPT ![k] = p],
           CloseOf({client_sock[k]}),
           client_sock' = [client_sock EXCEPT ![k] = NULL],
           buffer' = [buffer EXCEPT ![k] = <<>>],
           UNCHANGED parent
    PROVE  IInv'
  <1> USE DEF IInv, CloseOf
  <1>1. /\ conn \in [Clients -> {"new", "queued", "open", "over"}] /\ backlog \in Seq(Clients)
        /\ pc \in [Children -> {"unborn", "accept", "read", "send", "dead"}]
        /\ client_sock \in [Children -> Clients \cup {NULL}]
        /\ buffer \in [Children -> Seq(Bytes)]
    BY DEF TypeOK, NetTypeOK
  <1>2. TypeOK'
    <2>1. /\ pc' \in [Children -> {"unborn", "accept", "read", "send", "dead"}]
          /\ conn' \in [Clients -> {"new", "queued", "open", "over"}]
          /\ buffer' \in [Children -> Seq(Bytes)]
      BY <1>1
    <2> QED BY <2>1 DEF TypeOK, NetTypeOK
  <1>3. \A c \in Clients : conn'[c] = IF c = client_sock[k] THEN "over" ELSE conn[c]
    OBVIOUS
  <1>4. client_sock[k] # NULL => conn[client_sock[k]] = "open"
    BY <1>1 DEF OneServer
  <1>5. Backlog'
    BY <1>1, <1>3, <1>4 DEF Backlog, Parameters
  <1>6. OneServer'
    BY <1>1, <1>3, <1>4 DEF OneServer, Parameters
  <1>7. Prefix' /\ \A c, s : Kept(c, s)' <=> Kept(c, s)
    BY SameBytes
  <1>8. Buffers'
    BY <1>1, <1>3, <1>7 DEF Buffers
  <1> QED BY <1>2, <1>5, <1>6, <1>7, <1>8

(* What is read moves from the network to the buffer, in capitals. *)
LEMMA ReadKept ==
    ASSUME Parameters, NEW x \in Seq(Bytes), NEW a \in Seq(Bytes), NEW r \in Seq(Bytes),
           NEW n \in 1 .. Len(r), Split(x, a, <<>>, r)
    PROVE  Split(x, a, UpperOf(SubSeq(r, 1, n)), SubSeq(r, n + 1, Len(r)))
  <1> DEFINE p == SubSeq(r, 1, n)  q == SubSeq(r, n + 1, Len(r))
  <1>1. p \in Seq(Bytes) /\ q \in Seq(Bytes) /\ r = p \o q
    BY SplitSeq
  <1> HIDE DEF p, q
  <1>2. UpperOf(p \o q) = UpperOf(p) \o UpperOf(q)
    BY <1>1, UpperOfConcat, Zenon DEF Parameters
  <1>3. UpperOf(r) \in Seq(Bytes)
    BY UpperOfType DEF Parameters
  <1>4. <<>> \o UpperOf(r) = UpperOf(r)
    BY <1>3
  <1>5. UpperOf(r) = UpperOf(p) \o UpperOf(q)
    BY <1>1, <1>2, Zenon
  <1>6. Split(x, a, UpperOf(p), q)
    BY <1>4, <1>5, Zenon DEF Split
  <1> QED BY <1>6 DEF p, q

LEMMA ReadIInv ==
    ASSUME Parameters, IInv, NEW k \in Children, Read(k)
    PROVE  IInv'
  <1> USE DEF IInv
  <1> DEFINE c == client_sock[k]
  <1>1. PICK s \in Readable(c) : RecvOf(c, s) /\ buffer' = [buffer EXCEPT ![k] = UpperOf(s)]
    BY Zenon DEF Read
  <1>2. PICK n \in 1 .. Len(arrived[c]) : s = SubSeq(arrived[c], 1, n)
    BY DEF Readable
  <1>3. /\ pc[k] = "read" /\ pc' = [pc EXCEPT ![k] = "send"]
        /\ UNCHANGED <<parent, client_sock, sent, answered, fin, conn, backlog>>
        /\ arrived' = [arrived EXCEPT ![c] = SubSeq(@, Len(s) + 1, Len(@))]
        /\ s # <<>>
    BY <1>1, Zenon DEF Read, RecvOf
  <1>4. /\ sent \in [Clients -> Seq(Bytes)] /\ answered \in [Clients -> Seq(Bytes)]
        /\ arrived \in [Clients -> Seq(Bytes)] /\ buffer \in [Children -> Seq(Bytes)]
        /\ pc \in [Children -> {"unborn", "accept", "read", "send", "dead"}]
        /\ client_sock \in [Children -> Clients \cup {NULL}]
    BY DEF TypeOK, NetTypeOK
  <1>5. c # NULL /\ c \in Clients /\ buffer[k] = <<>>
    BY <1>3, <1>4 DEF OneServer, Buffers
  <1> HIDE DEF c
  <1>6. arrived[c] \in Seq(Bytes) /\ sent[c] \in Seq(Bytes) /\ answered[c] \in Seq(Bytes)
    BY <1>4, <1>5
  <1>7. /\ s \in Seq(Bytes) /\ Len(s) = n
        /\ SubSeq(arrived[c], n + 1, Len(arrived[c])) \in Seq(Bytes)
    BY <1>2, <1>6, SplitSeq
  <1>8. UpperOf(s) \in Seq(Bytes) /\ Len(UpperOf(s)) = n
    BY <1>7, UpperOfType DEF Parameters
  <1>9. /\ arrived'[c] = SubSeq(arrived[c], n + 1, Len(arrived[c]))
        /\ \A d \in Clients \ {c} : arrived'[d] = arrived[d]
        /\ arrived' \in [Clients -> Seq(Bytes)]
    BY <1>3, <1>4, <1>5, <1>7
  <1>10. /\ buffer'[k] = UpperOf(s) /\ \A j \in Children \ {k} : buffer'[j] = buffer[j]
         /\ buffer' \in [Children -> Seq(Bytes)]
    BY <1>1, <1>4, <1>8
  <1>11. /\ pc'[k] = "send" /\ \A j \in Children \ {k} : pc'[j] = pc[j]
         /\ pc' \in [Children -> {"unborn", "accept", "read", "send", "dead"}]
    BY <1>3, <1>4
  <1>12. TypeOK'
    BY <1>3, <1>9, <1>10, <1>11 DEF TypeOK, NetTypeOK
  <1>13. Backlog' /\ Prefix'
    BY <1>3 DEF Backlog, Prefix
  <1>14. OneServer'
    BY <1>3, <1>11 DEF OneServer
  <1>15. UpperOf(s) # <<>>
    BY <1>2, <1>6, <1>8
  <1>16. Split(sent[c], answered[c], UpperOf(s), arrived'[c])
    <2>1. Split(sent[c], answered[c], <<>>, arrived[c])
      BY <1>5 DEF Buffers, Kept, c
    <2> QED BY <1>2, <1>6, <1>9, <2>1, ReadKept
  <1>17. ASSUME NEW j \in Children, client_sock[j] # NULL
         PROVE  Split(sent[client_sock[j]], answered[client_sock[j]], buffer'[j], arrived'[client_sock[j]])
    <2>1. CASE j = k
      BY <1>10, <1>16, <2>1 DEF c
    <2>2. CASE j # k
      <3>1. client_sock[j] \in Clients \ {c}
        BY <1>4, <1>5, <1>17, <2>2 DEF OneServer, c
      <3>2. Kept(client_sock[j], buffer[j])
        BY <1>17 DEF Buffers
      <3> QED BY <1>9, <1>10, <2>2, <3>1, <3>2 DEF Kept
    <2> QED BY <2>1, <2>2
  <1>18. ASSUME NEW d \in Clients, conn[d] \in {"new", "queued"}
         PROVE  Split(sent[d], answered[d], <<>>, arrived'[d])
    <2>1. d # c
      BY <1>5, <1>18 DEF OneServer, c
    <2>2. Kept(d, <<>>)
      BY <1>18 DEF Buffers
    <2> QED BY <1>9, <2>1, <2>2 DEF Kept
  <1>19. Buffers'
    <2>1. \A j \in Children : buffer'[j] # <<>> <=> pc'[j] = "send"
      BY <1>10, <1>11, <1>15 DEF Buffers
    <2> QED BY <1>3, <1>17, <1>18, <2>1 DEF Buffers, Kept
  <1> QED BY <1>12, <1>13, <1>14, <1>19

LEMMA Longer ==
    ASSUME NEW a \in Seq(Bytes), NEW s \in Seq(Bytes), s # <<>>
    PROVE  a \o s \in Seq(Bytes) /\ Len(a \o s) > Len(a)
  <1>1. Len(s) > 0
    OBVIOUS
  <1> QED BY <1>1

(* What is sent moves from the buffer to the client. *)
LEMMA SendBackKept ==
    ASSUME Parameters, NEW x \in Seq(Bytes), NEW a \in Seq(Bytes), NEW s \in Seq(Bytes),
           NEW r \in Seq(Bytes), Split(x, a, s, r)
    PROVE  /\ Split(x, a \o s, <<>>, r)
           /\ Len(a \o s) <= Len(x) /\ a \o s = UpperOf(SubSeq(x, 1, Len(a \o s)))
  <1> DEFINE u == UpperOf(r)
  <1>1. u \in Seq(Bytes)
    BY UpperOfType DEF Parameters
  <1> HIDE DEF u
  <1>2. a \o s \in Seq(Bytes) /\ <<>> \o u = u
    BY <1>1
  <1>3. (a \o s) \o u = a \o (s \o u)
    BY <1>1, Assoc, SMTT(30)
  <1>4. UpperOf(x) = (a \o s) \o u
    BY <1>3, Zenon DEF Split, u
  <1>5. Split(x, a \o s, <<>>, r)
    BY <1>2, <1>4, Zenon DEF Split, u
  <1>6. Len(a \o s) <= Len(x) /\ a \o s = UpperOf(SubSeq(x, 1, Len(a \o s)))
    <2> DEFINE t == a \o s
    <2>1. t \in Seq(Bytes) /\ UpperOf(x) = t \o u
      BY <1>2, <1>4
    <2> HIDE DEF t
    <2>2. Len(t) <= Len(x) /\ t = UpperOf(SubSeq(x, 1, Len(t)))
      BY <1>1, <2>1, UpperOfPrefix, Zenon DEF Parameters
    <2> QED BY <2>2 DEF t
  <1> QED BY <1>5, <1>6

LEMMA SendBackIInv ==
    ASSUME Parameters, IInv, NEW k \in Children, SendBack(k)
    PROVE  IInv' /\ Abstract!Next
  <1> USE DEF IInv
  <1> DEFINE c == client_sock[k]
  <1>1. /\ pc[k] = "send" /\ pc' = [pc EXCEPT ![k] = "read"]
        /\ answered' = [answered EXCEPT ![c] = @ \o buffer[k]]
        /\ buffer' = [buffer EXCEPT ![k] = <<>>]
        /\ UNCHANGED <<parent, client_sock, sent, arrived, fin, conn, backlog>>
    BY DEF SendBack, SendOf
  <1>2. /\ sent \in [Clients -> Seq(Bytes)] /\ answered \in [Clients -> Seq(Bytes)]
        /\ arrived \in [Clients -> Seq(Bytes)] /\ buffer \in [Children -> Seq(Bytes)]
        /\ pc \in [Children -> {"unborn", "accept", "read", "send", "dead"}]
        /\ client_sock \in [Children -> Clients \cup {NULL}]
    BY DEF TypeOK, NetTypeOK
  <1>3. c # NULL /\ c \in Clients /\ buffer[k] # <<>>
    BY <1>1, <1>2 DEF OneServer, Buffers
  <1>4. Split(sent[c], answered[c], buffer[k], arrived[c])
    BY <1>3 DEF Buffers, Kept
  <1>5. \A j \in Children \ {k} : client_sock[j] # c
    BY <1>3 DEF OneServer
  <1> HIDE DEF c
  <1>6. /\ arrived[c] \in Seq(Bytes) /\ sent[c] \in Seq(Bytes) /\ answered[c] \in Seq(Bytes)
        /\ buffer[k] \in Seq(Bytes)
    BY <1>2, <1>3
  <1> DEFINE t == answered[c] \o buffer[k]
  <1>7. t \in Seq(Bytes) /\ Len(t) > Len(answered[c])
    BY <1>3, <1>6, Longer, Zenon
  <1>8. /\ Split(sent[c], t, <<>>, arrived[c])
        /\ Len(t) <= Len(sent[c]) /\ t = UpperOf(SubSeq(sent[c], 1, Len(t)))
    BY <1>4, <1>6, SendBackKept, Zenon
  <1>9. answered' = [answered EXCEPT ![c] = t]
    BY <1>1
  <1> HIDE DEF t
  <1>10. /\ answered'[c] = t /\ \A d \in Clients \ {c} : answered'[d] = answered[d]
         /\ answered' \in [Clients -> Seq(Bytes)]
    BY <1>2, <1>3, <1>7, <1>9
  <1>11. /\ buffer'[k] = <<>> /\ \A j \in Children \ {k} : buffer'[j] = buffer[j]
         /\ buffer' \in [Children -> Seq(Bytes)]
    BY <1>1, <1>2
  <1>12. /\ pc'[k] = "read" /\ \A j \in Children \ {k} : pc'[j] = pc[j]
         /\ pc' \in [Children -> {"unborn", "accept", "read", "send", "dead"}]
    BY <1>1, <1>2
  <1>13. TypeOK'
    BY <1>1, <1>10, <1>11, <1>12 DEF TypeOK, NetTypeOK
  <1>14. Backlog' /\ OneServer'
    BY <1>1, <1>12 DEF Backlog, OneServer
  <1>15. Prefix'
    <2>1. \A d \in Clients : /\ Len(answered'[d]) <= Len(sent[d])
                            /\ answered'[d] = UpperOf(SubSeq(sent[d], 1, Len(answered'[d])))
      BY <1>8, <1>10, Zenon DEF Prefix
    <2> QED BY <1>1, <2>1, Zenon DEF Prefix
  <1>16. ASSUME NEW j \in Children, client_sock[j] # NULL
         PROVE  Split(sent[client_sock[j]], answered'[client_sock[j]], buffer'[j], arrived[client_sock[j]])
    <2>1. CASE j = k
      BY <1>8, <1>10, <1>11, <2>1 DEF c
    <2>2. CASE j # k
      <3>1. client_sock[j] \in Clients \ {c}
        BY <1>2, <1>5, <1>16, <2>2
      <3>2. Kept(client_sock[j], buffer[j])
        BY <1>16 DEF Buffers
      <3> QED BY <1>10, <1>11, <2>2, <3>1, <3>2 DEF Kept
    <2> QED BY <2>1, <2>2
  <1>17. ASSUME NEW d \in Clients, conn[d] \in {"new", "queued"}
         PROVE  Split(sent[d], answered'[d], <<>>, arrived[d])
    <2>1. d # c
      BY <1>3, <1>17 DEF OneServer, c
    <2>2. Kept(d, <<>>)
      BY <1>17 DEF Buffers
    <2> QED BY <1>10, <2>1, <2>2 DEF Kept
  <1>18. Buffers'
    <2>1. \A j \in Children : buffer'[j] # <<>> <=> pc'[j] = "send"
      BY <1>11, <1>12 DEF Buffers
    <2> QED BY <1>1, <1>16, <1>17, <2>1 DEF Buffers, Kept
  <1>19. Abstract!Next
    <2>1. Len(t) \in Len(answered[c]) + 1 .. Len(sent[c])
      BY <1>6, <1>7, <1>8
    <2>2. Abstract!UpperOf(SubSeq(sent[c], 1, Len(t))) = t
      BY <1>8 DEF Abstract!UpperOf, UpperOf
    <2>3. Abstract!Answer(c, Len(t))
      BY <1>1, <1>9, <2>2, Zenon DEF Abstract!Answer
    <2> QED BY <1>3, <2>1, <2>3 DEF Abstract!Next
  <1> QED BY <1>13, <1>14, <1>15, <1>18, <1>19

----------------------------------------------------------------------------
(* Every step keeps the invariant, and is a step of UpcaseEcho or none. *)
LEMMA NextIInv ==
    ASSUME Parameters, IInv, [Next]_vars
    PROVE  IInv' /\ [Abstract!Next]_<<sent, answered>>
  <1>1. CASE UNCHANGED vars
    <2> USE <1>1 DEF vars, net, server
    <2>1. Prefix' /\ \A c, s : Kept(c, s)' <=> Kept(c, s)
      BY SameBytes
    <2>2. TypeOK' /\ Backlog' /\ OneServer'
      BY DEF IInv, TypeOK, NetTypeOK, Backlog, OneServer
    <2>3. Buffers'
      BY <2>1 DEF IInv, Buffers
    <2> QED BY <2>1, <2>2, <2>3 DEF IInv
  <1>2. ASSUME NEW c \in Clients, Client(c)
        PROVE  IInv' /\ [Abstract!Next]_<<sent, answered>>
    <2>1. CASE Connect(c)
      BY <1>2, <2>1, ConnectIInv, Zenon DEF Client, Connect
    <2>2. CASE Send(c, Text[Len(sent[c]) + 1])
      BY <1>2, <2>2, SendIInv DEF Client
    <2>3. CASE Close(c)
      <3> USE <1>2, <2>3 DEF Client, Close, server
      <3>1. Prefix' /\ \A d, s : Kept(d, s)' <=> Kept(d, s)
        BY SameBytes
      <3>2. TypeOK' /\ Backlog' /\ OneServer'
        BY DEF IInv, TypeOK, NetTypeOK, Backlog, OneServer
      <3>3. Buffers'
        BY <3>1 DEF IInv, Buffers
      <3> QED BY <3>1, <3>2, <3>3 DEF IInv
    <2> QED BY <1>2, <2>1, <2>2, <2>3 DEF Client
  <1>3. CASE Fork \/ WaitDone
    BY <1>3, ForkIInv DEF Fork, WaitDone, net
  <1>4. ASSUME NEW k \in Children, Child(k) \/ ChildFails(k)
        PROVE  IInv' /\ [Abstract!Next]_<<sent, answered>>
    <2>1. CASE Accept(k)
      BY <2>1, AcceptIInv, Zenon DEF Accept, AcceptOf
    <2>2. CASE Read(k)
      BY <2>2, ReadIInv, Zenon DEF Read, RecvOf
    <2>3. CASE SendBack(k)
      BY <2>3, SendBackIInv
    <2>4. CASE ReadEof(k)
      <3>1. buffer' = [buffer EXCEPT ![k] = <<>>]
        BY <2>4 DEF ReadEof, IInv, TypeOK, Buffers
      <3> QED BY <2>4, <3>1, LeaveIInv, Zenon DEF ReadEof, CloseOf
    <2>5. CASE Die(k)
      BY <2>5, LeaveIInv, Zenon DEF Die, CloseOf
    <2> QED BY <1>4, <2>1, <2>2, <2>3, <2>4, <2>5 DEF Child, ChildFails, AcceptFails, ReadFails, SendFails
  <1> QED BY <1>1, <1>2, <1>3, <1>4 DEF Next, Ended, Idle

(* PreforkServer: a connection that main.c has accepted and not closed is   *)
(* in the hands of exactly one child, for any numbers of clients and        *)
(* children, and whatever fails.                                            *)
THEOREM OneServerAlways ==
    ASSUME Parameters
    PROVE  Spec => []OneServer
  <1>1. Init => IInv
    BY InitIInv
  <1>2. IInv /\ [Next]_vars => IInv'
    BY NextIInv
  <1>3. IInv => OneServer
    BY DEF IInv
  <1> QED BY <1>1, <1>2, <1>3, PTL DEF Spec

(* PreforkServer: what a client has sent was answered, is in the buffer of  *)
(* its child, or has still to be read, however main.c's reads split it.     *)
THEOREM NothingLostAlways ==
    ASSUME Parameters
    PROVE  Spec => []NothingLost
  <1>1. Init => IInv
    BY InitIInv
  <1>2. IInv /\ [Next]_vars => IInv'
    BY NextIInv
  <1>3. IInv => NothingLost
    BY IInvNothingLost
  <1> QED BY <1>1, <1>2, <1>3, PTL DEF Spec

(* PreforkServer implements UpcaseEcho: clients get their own bytes back,   *)
(* in capitals and in order, whichever of main.c's children serves them.    *)
THEOREM Refinement ==
    ASSUME Parameters
    PROVE  Spec => Abstract!Spec
  <1>1. Init => IInv /\ Abstract!Init
    BY InitIInv DEF Init, NetInit, Abstract!Init
  <1>2. IInv /\ [Next]_vars => IInv' /\ [Abstract!Next]_<<sent, answered>>
    BY NextIInv
  <1> QED BY <1>1, <1>2, PTL DEF Spec, Abstract!Spec
=============================================================================
