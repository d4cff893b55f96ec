----------------------------- MODULE TeeProofs ------------------------------
(***************************************************************************)
(* Proofs about Tee, however much is written to the pipe, in whatever parts*)
(* it is copied and moved, and however often splice fails.                 *)
(***************************************************************************)
EXTENDS Tee, TLAPS

Types == /\ pipe \in Seq(Nat) /\ written \in Seq(Nat) /\ out \in Seq(Nat) /\ file \in Seq(Nat)
         /\ len \in Nat /\ again \in Nat /\ fails \in Nat

(* Outside of the inner loop there is nothing left to move. *)
IInv == Types /\ TeeCopies /\ (pc # "splice" => len = 0)

----------------------------------------------------------------------------
(* What is at the start and the rest make up a sequence. *)
LEMMA Cut ==
    ASSUME NEW s \in Seq(Nat), NEW n \in 1 .. Len(s)
    PROVE  /\ SubSeq(s, 1, n) \in Seq(Nat) /\ SubSeq(s, n + 1, Len(s)) \in Seq(Nat)
           /\ Len(SubSeq(s, 1, n)) = n /\ Len(SubSeq(s, n + 1, Len(s))) = Len(s) - n
           /\ SubSeq(s, 1, n) \o SubSeq(s, n + 1, Len(s)) = s
  <1>1. SubSeq(s, 1, n) \in Seq(Nat) /\ SubSeq(s, n + 1, Len(s)) \in Seq(Nat)
    OBVIOUS
  <1>2. Len(SubSeq(s, 1, n)) = n /\ Len(SubSeq(s, n + 1, Len(s))) = Len(s) - n
    OBVIOUS
  <1>3. SubSeq(s, 1, n) \o SubSeq(s, n + 1, Len(s)) = s
    BY SMTT(30)
  <1> QED BY <1>1, <1>2, <1>3

(* The first m of a sequence are its first n, and the first m - n of the rest. *)
LEMMA CutTwice ==
    ASSUME NEW s \in Seq(Nat), NEW m \in 0 .. Len(s), NEW n \in 0 .. m
    PROVE  SubSeq(s, 1, m) = SubSeq(s, 1, n) \o SubSeq(SubSeq(s, n + 1, Len(s)), 1, m - n)
  BY SMTT(30)

LEMMA Assoc ==
    ASSUME NEW s \in Seq(Nat), NEW t \in Seq(Nat), NEW u \in Seq(Nat)
    PROVE  (s \o t) \o u = s \o (t \o u)
  BY SMTT(30)

(* One more at the end. *)
LEMMA OneMore ==
    ASSUME NEW s \in Seq(Nat), NEW t \in Seq(Nat), NEW x \in Nat, NEW n \in 0 .. Len(t)
    PROVE  /\ Append(t, x) \in Seq(Nat) /\ Len(Append(t, x)) = Len(t) + 1
           /\ s \o Append(t, x) = Append(s \o t, x)
           /\ SubSeq(Append(t, x), 1, n) = SubSeq(t, 1, n)
  <1>1. Append(t, x) \in Seq(Nat) /\ Len(Append(t, x)) = Len(t) + 1
    OBVIOUS
  <1>2. s \o Append(t, x) = Append(s \o t, x)
    BY SMTT(30)
  <1>3. SubSeq(Append(t, x), 1, n) = SubSeq(t, 1, n)
    BY SMTT(30)
  <1> QED BY <1>1, <1>2, <1>3

----------------------------------------------------------------------------
(* What is used of the invariant wherever lengths are reckoned with. *)
LEMMA Facts ==
    ASSUME IInv
    PROVE  /\ len \in 0 .. Len(pipe) /\ len \in Nat /\ again \in Nat
           /\ pipe \in Seq(Nat) /\ file \in Seq(Nat) /\ out \in Seq(Nat) /\ written \in Seq(Nat)
           /\ Len(pipe) \in Nat /\ Len(file) \in Nat
           /\ Len(out) = Len(file) + len + again
  <1>1. len <= Len(pipe) /\ Len(out) = Len(file) + len + again
    BY Zenon DEF IInv, TeeCopies, NoEmptySplice
  <1>2. Types
    BY Zenon DEF IInv
  <1> QED BY <1>1, <1>2 DEF Types

LEMMA AddNothing == \A s \in Seq(Nat) : s \o <<>> = s
  OBVIOUS

LEMMA InitIInv == Init => IInv
  <1> SUFFICES ASSUME Init PROVE IInv
    OBVIOUS
  <1>1. <<>> \o <<>> = <<>> /\ <<>> \o SubSeq(<<>>, 1, 0) = <<>> /\ Len(<<>>) = 0
    OBVIOUS
  <1>2. Types
    BY DEF Init, At, Types
  <1> QED BY <1>1, <1>2 DEF Init, At, IInv, TeeCopies, NoEmptySplice

LEMMA WriteIInv == ASSUME IInv, Write PROVE IInv'
  <1> DEFINE x == Len(written) + 1
  <1>1. /\ pc \in {"tee", "splice"} /\ UNCHANGED <<closed, out, file, len, pc, again, fails>>
        /\ pipe' = Append(pipe, x) /\ written' = Append(written, x)
    BY DEF Write, history
  <1>2. x \in Nat
    BY Facts
  <1> HIDE DEF x
  <1>3. /\ Append(pipe, x) \in Seq(Nat) /\ Len(Append(pipe, x)) = Len(pipe) + 1
        /\ file \o Append(pipe, x) = Append(file \o pipe, x)
        /\ SubSeq(Append(pipe, x), 1, len) = SubSeq(pipe, 1, len)
    <2>1. len \in 0 .. Len(pipe) /\ file \in Seq(Nat) /\ pipe \in Seq(Nat)
      BY Facts
    <2> QED BY <1>2, <2>1, OneMore, Zenon
  <1>4. Append(written, x) \in Seq(Nat)
    BY <1>2, Facts
  <1>5. Types'
    BY <1>1, <1>3, <1>4, Zenon DEF IInv, Types
  <1>6. len <= Len(Append(pipe, x))
    BY <1>3, Facts
  <1>7. file \o Append(pipe, x) = Append(written, x)
    BY <1>3, Zenon DEF IInv, TeeCopies
  <1>8. fails = 0 => out = file \o SubSeq(Append(pipe, x), 1, len)
    BY <1>3, Zenon DEF IInv, TeeCopies
  <1>9. TeeCopies'
    BY <1>1, <1>6, <1>7, <1>8, Facts, ZenonT(30) DEF TeeCopies, NoEmptySplice
  <1> QED BY <1>1, <1>5, <1>9 DEF IInv

LEMMA TeeSomeIInv == ASSUME IInv, TeeSome PROVE IInv'
  <1>1. PICK n \in 1 .. Len(pipe) : len' = n /\ out' = out \o SubSeq(pipe, 1, n)
    BY DEF TeeSome
  <1>2. /\ pc = "tee" /\ pc' = "splice" /\ len = 0
        /\ UNCHANGED <<pipe, closed, written, file, again, fails>>
    BY DEF IInv, TeeSome, writer, history
  <1>3. pipe \in Seq(Nat) /\ n \in Nat /\ n <= Len(pipe)
    BY Facts
  <1>4. SubSeq(pipe, 1, n) \in Seq(Nat) /\ Len(SubSeq(pipe, 1, n)) = n
    BY <1>3, Cut, Zenon
  <1>5. out' \in Seq(Nat) /\ Len(out') = Len(out) + n
    BY <1>1, <1>4 DEF IInv, Types
  <1>6. Types'
    BY <1>1, <1>2, <1>3, <1>5 DEF IInv, Types
  <1>7. fails = 0 => out = file
    <2>1. SubSeq(pipe, 1, 0) = <<>>
      BY <1>3
    <2>2. file \o <<>> = file
      BY Facts, AddNothing
    <2> QED BY <1>2, <2>1, <2>2, Zenon DEF IInv, TeeCopies
  <1>8. Len(out') = Len(file) + n + again
    <2>1. Len(out) = Len(file) + len + again /\ Len(file) \in Nat /\ again \in Nat
      BY Facts, Zenon
    <2>2. Len(out') = Len(out) + n /\ len = 0 /\ n \in Nat
      BY <1>2, <1>3, <1>5, Zenon
    <2> QED BY <2>1, <2>2
  <1>9. TeeCopies'
    BY <1>1, <1>2, <1>3, <1>7, <1>8, Zenon DEF IInv, TeeCopies, NoEmptySplice
  <1> QED BY <1>2, <1>6, <1>9 DEF IInv

LEMMA SpliceIInv == ASSUME IInv, Splice PROVE IInv'
  <1>1. PICK n \in 1 .. len : /\ file' = file \o SubSeq(pipe, 1, n)
                              /\ pipe' = SubSeq(pipe, n + 1, Len(pipe))
                              /\ len' = len - n
    BY DEF Splice
  <1>2. pc = "splice" /\ UNCHANGED <<closed, written, out, pc, again, fails>>
    BY DEF Splice, writer, history
  <1>3. /\ pipe \in Seq(Nat) /\ file \in Seq(Nat) /\ len \in 0 .. Len(pipe)
        /\ n \in 1 .. Len(pipe) /\ n \in 0 .. len /\ len - n \in Nat
    <2>1. pipe \in Seq(Nat) /\ file \in Seq(Nat) /\ len \in 0 .. Len(pipe) /\ Len(pipe) \in Nat /\ len \in Nat
      BY Facts, Zenon
    <2>2. n \in 1 .. Len(pipe) /\ n \in 0 .. len /\ len - n \in Nat
      BY <2>1
    <2> QED BY <2>1, <2>2, Zenon
  <1> DEFINE p == SubSeq(pipe, 1, n)  q == SubSeq(pipe, n + 1, Len(pipe))
  <1>4. /\ p \in Seq(Nat) /\ q \in Seq(Nat) /\ p \o q = pipe
        /\ Len(p) = n /\ Len(q) = Len(pipe) - n
    BY <1>3, Cut
  <1>5. SubSeq(pipe, 1, len) = p \o SubSeq(q, 1, len - n)
    BY <1>3, CutTwice
  <1>6. file' = file \o p /\ pipe' = q /\ len' = len - n
    BY <1>1
  <1> HIDE DEF p, q
  <1>7. file \o p \in Seq(Nat) /\ Len(file \o p) = Len(file) + n
    <2>1. \A t \in Seq(Nat) : file \o t \in Seq(Nat) /\ Len(file \o t) = Len(file) + Len(t)
      BY <1>3
    <2> QED BY <1>4, <2>1, Zenon
  <1>8. Types'
    BY <1>2, <1>3, <1>4, <1>6, <1>7 DEF IInv, Types
  <1>9. (file \o p) \o q = written
    <2>1. (file \o p) \o q = file \o (p \o q)
      BY <1>3, <1>4, Assoc, Zenon
    <2> QED BY <1>4, <2>1, Zenon DEF IInv, TeeCopies
  <1>10. fails = 0 => out = (file \o p) \o SubSeq(q, 1, len - n)
    <2>1. len - n \in 0 .. Len(q)
      BY <1>3, <1>4
    <2>2. SubSeq(q, 1, len - n) \in Seq(Nat)
      BY <1>4, <2>1
    <2>3. (file \o p) \o SubSeq(q, 1, len - n) = file \o (p \o SubSeq(q, 1, len - n))
      BY <1>3, <1>4, <2>2, Assoc, ZenonT(60)
    <2> QED BY <1>5, <2>3, Zenon DEF IInv, TeeCopies
  <1>11. Len(out) = (Len(file) + n) + (len - n) + again
    BY <1>3, Facts
  <1>12. len - n <= Len(q)
    BY <1>3, <1>4
  <1>13. TeeCopies'
    BY <1>2, <1>6, <1>7, <1>9, <1>10, <1>11, <1>12, Zenon DEF IInv, TeeCopies, NoEmptySplice
  <1> QED BY <1>2, <1>8, <1>13 DEF IInv

(* The error of splice: what was copied counts as copied again. *)
LEMMA SpliceFailsIInv == ASSUME IInv, SpliceFails PROVE IInv'
  <1> USE DEF IInv
  <1>1. /\ pc = "splice" /\ pc' = "tee" /\ len' = 0 /\ again' = again + len /\ fails' = fails + 1
        /\ UNCHANGED <<pipe, closed, written, out, file>>
    BY DEF SpliceFails, writer
  <1>2. Types'
    BY <1>1 DEF Types
  <1>3. fails' # 0 /\ 0 <= Len(pipe)
    BY <1>1, Facts DEF Types
  <1>4. Len(out) = Len(file) + 0 + (again + len)
    BY Facts
  <1>5. TeeCopies'
    BY <1>1, <1>3, <1>4, Zenon DEF TeeCopies, NoEmptySplice
  <1> QED BY <1>1, <1>2, <1>5

(* Nothing moves, and what is left to move when the inner loop ends is 0. *)
LEMMA OtherIInv ==
    ASSUME IInv, UNCHANGED <<pipe, written, out, file, len, again, fails>>,
           pc' = "returned 0" => pc' = pc \/ pipe = <<>>,
           pc' # "splice" => len = 0
    PROVE  IInv'
  <1> USE DEF IInv
  <1>1. pipe = <<>> => file = written
    <2>1. file \o <<>> = file
      BY Facts, AddNothing, Zenon
    <2> QED BY <2>1, Zenon DEF TeeCopies
  <1>2. TeeCopies'
    BY <1>1, Zenon DEF TeeCopies, NoEmptySplice
  <1> QED BY <1>2, Zenon DEF Types

LEMMA NextIInv == IInv /\ [Next]_vars => IInv'
  <1> SUFFICES ASSUME IInv, [Next]_vars PROVE IInv'
    OBVIOUS
  <1>1. CASE Close \/ TeeAgain \/ TeeEnd \/ TeeFails \/ SpliceEnds \/ Ended \/ UNCHANGED vars
    <2>1. UNCHANGED <<pipe, written, out, file, len, again, fails>>
      BY <1>1, Zenon DEF Close, TeeAgain, TeeEnd, TeeFails, SpliceEnds, Ended, vars, writer, history
    <2>2. pc' = "returned 0" => pc' = pc \/ pipe = <<>>
      BY <1>1, Zenon DEF Close, TeeAgain, TeeEnd, TeeFails, SpliceEnds, Ended, vars
    <2>3. pc' # "splice" => len = 0
      BY <1>1, Zenon DEF Close, TeeAgain, TeeEnd, TeeFails, SpliceEnds, Ended, vars, IInv
    <2> QED BY <2>1, <2>2, <2>3, OtherIInv, ZenonT(30)
  <1> QED BY <1>1, WriteIInv, TeeSomeIInv, SpliceIInv, SpliceFailsIInv DEF Next, Program

(* Tee: main.c's file gets every byte once and in order, and all of them    *)
(* unless tee fails, however often splice fails; standard output is the     *)
(* same until then, and later has more by the bytes that were copied again. *)
THEOREM CopiesAlways == Spec => []TeeCopies
  <1>1. Init => IInv
    BY InitIInv
  <1>2. IInv /\ [Next]_vars => IInv'
    BY NextIInv
  <1>3. IInv => TeeCopies
    BY DEF IInv
  <1> QED BY <1>1, <1>2, <1>3, PTL DEF Spec
=============================================================================
