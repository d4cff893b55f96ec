--------------------------- MODULE JobQueueProofs ---------------------------
(***************************************************************************)
(* Proofs about JobQueue, for any number of jobs.                          *)
(***************************************************************************)
EXTENDS JobQueue, SequenceTheorems, TLAPS

(* No job is linked twice: JobQueuePull's hand-over of the first job leaves *)
(* the others queued.                                                       *)
Distinct == \A i, j \in 1 .. Len(order) : order[i] = order[j] => i = j

IInv == TypeOK /\ LinkedList /\ Distinct

(* Taking the oldest job off the list, by Worker or by JobQueueClear. *)
LEMMA UnlinkStep ==
    ASSUME IInv, length > 0, Unlink, order' = Tail(order), UNCHANGED next,
           NEW u \in {"free", "held"}, use' = [use EXCEPT ![front] = u],
           clearing' \in BOOLEAN
    PROVE  IInv' /\ job' = Head(order) /\ order # <<>>
  <1> USE DEF IInv
  <1>1. /\ Len(order) \in Nat /\ Len(order) = length /\ order \in Seq(Jobs) /\ order # <<>>
        /\ front = order[1] /\ front \in Jobs /\ Head(order) = order[1]
    BY DEF TypeOK, LinkedList
  <1>2. /\ order' \in Seq(Jobs)
        /\ Len(order') = length - 1
        /\ \A i \in 1 .. Len(order') : order'[i] = order[i + 1]
    BY <1>1
  <1>3. Distinct'
    BY <1>1, <1>2 DEF Distinct
  <1>4. \A i \in 1 .. Len(order') : use'[order'[i]] = "queued"
    <2>1. \A i \in 1 .. Len(order') : i + 1 \in 1 .. Len(order) /\ order[i + 1] # front
      BY <1>1, <1>2 DEF Distinct
    <2>2. \A i \in 1 .. Len(order') : order[i + 1] \in Jobs /\ use[order[i + 1]] = "queued"
      BY <1>1, <2>1 DEF LinkedList
    <2> QED  BY <1>1, <1>2, <2>1, <2>2 DEF TypeOK
  <1>5. \A i \in 1 .. Len(order') - 1 : next'[order'[i]] = order'[i + 1]
    <2> SUFFICES ASSUME NEW i \in 1 .. Len(order') - 1 PROVE next'[order'[i]] = order'[i + 1]
      OBVIOUS
    <2>1. i + 1 \in 1 .. Len(order) - 1 /\ i \in 1 .. Len(order') /\ i + 1 \in 1 .. Len(order')
      BY <1>1, <1>2
    <2> QED  BY <1>2, <2>1 DEF LinkedList
  <1>6. CASE length = 1
    <2>1. order' = <<>>
      BY <1>2, <1>6
    <2> QED  BY <1>1, <1>2, <1>3, <1>4, <1>5, <1>6, <2>1 DEF Unlink, LinkedList, TypeOK
  <1>7. CASE length # 1
    <2>1. length >= 2 /\ Len(order) = length /\ Len(order') = length - 1
      BY <1>1, <1>2, <1>7
    <2>2. next[order[1]] = order[2]
      BY <2>1 DEF LinkedList
    <2>3. order'[1] = order[2] /\ order'[Len(order')] = order[Len(order)] /\ order' # <<>>
      <3>1. 1 \in 1 .. Len(order') /\ Len(order') \in 1 .. Len(order')
        BY <2>1, <1>1
      <3>2. order'[1] = order[1 + 1] /\ order'[Len(order')] = order[Len(order') + 1]
        BY <1>2, <3>1
      <3>3. Len(order') + 1 = Len(order) /\ 1 + 1 = 2 /\ Len(order') # 0
        BY <1>1, <2>1
      <3> QED  BY <3>2, <3>3, Zenon
    <2>4. front' = order'[1] /\ last' = order'[Len(order')] /\ length' = Len(order')
      BY <1>1, <1>7, <2>1, <2>2, <2>3 DEF Unlink, LinkedList
    <2>5. front' \in Jobs /\ last' \in Jobs /\ length' \in Nat
      BY <1>2, <2>1, <2>4
    <2>6. TypeOK'
      BY <1>1, <1>2, <2>5 DEF TypeOK, Unlink
    <2> QED  BY <1>1, <1>3, <1>4, <1>5, <2>3, <2>4, <2>6 DEF Unlink, LinkedList
  <1> QED  BY <1>6, <1>7

(* Adding a job at the end of the list. *)
LEMMA PushStep == ASSUME IInv, NEW j \in Jobs, Push(j) PROVE IInv'
  <1> USE DEF IInv
  <1>1. /\ Len(order) \in Nat /\ Len(order) = length /\ order \in Seq(Jobs)
        /\ order' \in Seq(Jobs) /\ Len(order') = Len(order) + 1
        /\ \A i \in 1 .. Len(order) : order'[i] = order[i]
        /\ order'[Len(order) + 1] = j
    BY DEF TypeOK, LinkedList, Push
  <1>2. \A i \in 1 .. Len(order) : order[i] # j
    BY DEF LinkedList, Push
  <1>3. \A i \in 1 .. Len(order') : i \in 1 .. Len(order) \/ i = Len(order) + 1
    BY <1>1
  <1>4. Distinct'
    BY <1>1, <1>2, <1>3 DEF Distinct
  <1>5. \A i \in 1 .. Len(order') : use'[order'[i]] = "queued"
    BY <1>1, <1>3 DEF LinkedList, Push, TypeOK
  <1>6. CASE length = 0
    <2>1. Len(order) = 0 /\ order = <<>>
      BY <1>1, <1>6
    <2> QED  BY <1>1, <1>4, <1>5, <1>6, <2>1 DEF Push, LinkedList, TypeOK
  <1>7. CASE length # 0
    <2>1. last = order[Len(order)] /\ last \in Jobs /\ last # j /\ order # <<>> /\ Len(order) >= 1
      BY <1>1, <1>2, <1>7 DEF LinkedList
    <2>2. \A i \in 1 .. Len(order') - 1 : next'[order'[i]] = order'[i + 1]
      <3> SUFFICES ASSUME NEW i \in 1 .. Len(order') - 1 PROVE next'[order'[i]] = order'[i + 1]
        OBVIOUS
      <3>0. next' = [next EXCEPT ![j] = NULL, ![last] = j]
        BY <1>7 DEF Push
      <3>1. CASE i = Len(order)
        BY <1>1, <2>1, <3>0, <3>1 DEF TypeOK
      <3>2. CASE i # Len(order)
        <4>1. i \in 1 .. Len(order) - 1 /\ i + 1 \in 1 .. Len(order) /\ i \in 1 .. Len(order)
          BY <1>1, <3>2
        <4>2. order[i] # j /\ order[i] # last /\ order[i] \in Jobs
          BY <1>1, <1>2, <2>1, <4>1 DEF Distinct
        <4>3. next'[order[i]] = next[order[i]]
          BY <3>0, <4>2 DEF TypeOK
        <4> QED  BY <1>1, <4>1, <4>3 DEF LinkedList
      <3> QED  BY <3>1, <3>2
    <2>3. order' # <<>> /\ order'[1] = order[1] /\ front' = order'[1] /\ last' = order'[Len(order')]
      BY <1>1, <1>7, <2>1 DEF Push, LinkedList
    <2>4. LinkedList'
      BY <1>1, <1>5, <2>2, <2>3, SMTT(60) DEF LinkedList, Push
    <2>5. TypeOK'
      BY <1>1, <1>7, <2>1 DEF Push, TypeOK
    <2> QED  BY <1>4, <2>4, <2>5
  <1> QED  BY <1>6, <1>7

(* A queue of length 0 is empty. *)
LEMMA NoJobs == TypeOK /\ Len(order) = 0 => order = <<>>
  BY EmptySeq DEF TypeOK

LEMMA InitInv == Init => IInv
  <1> SUFFICES ASSUME Init PROVE IInv
    OBVIOUS
  <1>1. order = <<>> /\ order \in Seq(Jobs) /\ Len(order) = 0
    BY DEF Init
  <1>2. TypeOK
    BY <1>1, Zenon DEF Init, TypeOK
  <1>3. LinkedList /\ Distinct
    BY <1>1 DEF Init, LinkedList, Distinct
  <1> QED  BY <1>2, <1>3 DEF IInv

(* The inductive invariant: every operation keeps the list linked. *)
THEOREM Invariance == Spec => []IInv
  <1>1. IInv /\ [Next]_vars => IInv'
    <2> SUFFICES ASSUME IInv, [Next]_vars PROVE IInv'
      OBVIOUS
    <2>1. ASSUME NEW j \in Jobs, Push(j) PROVE IInv'
      BY <2>1, PushStep
    <2>2. ASSUME NEW j \in Jobs, Free(j) PROVE IInv'
      BY <2>2 DEF Free, IInv, TypeOK, LinkedList, Distinct
    <2>3. CASE Pull /\ length = 0
      BY <2>3, ZenonT(60) DEF Pull, IInv, TypeOK, LinkedList, Distinct
    <2>4. CASE Pull /\ length # 0
      <3>1. length > 0 /\ clearing' \in BOOLEAN
        BY <2>4 DEF IInv, TypeOK, Pull
      <3> QED  BY <2>4, <3>1, UnlinkStep DEF Pull
    <2>5. CASE ClearPull
      BY <2>5, UnlinkStep DEF ClearPull
    <2>6. CASE Cleared
      <3>1. order = <<>>
        BY <2>6, NoJobs DEF Cleared, IInv, LinkedList
      <3> QED  BY <2>6, <3>1 DEF Cleared, IInv, TypeOK, LinkedList, Distinct
    <2>7. CASE UNCHANGED vars
      BY <2>7 DEF vars, IInv, TypeOK, LinkedList, Distinct
    <2> QED  BY <2>1, <2>2, <2>3, <2>4, <2>5, <2>6, <2>7 DEF Next
  <1> QED  BY InitInv, <1>1, PTL DEF Spec

(* The pointers of JobQueuePush and JobQueuePull always describe the queue: *)
(* last->next is never written through a NULL or freed last.                *)
THEOREM ListIsQueue == Spec => []LinkedList
  BY Invariance, PTL DEF IInv

(* The linked list implements the FIFO queue. *)
THEOREM Refinement == Spec => Implements
  <1>1. Init => Abstract!Init
    BY DEF Init, Abstract!Init
  <1>2. IInv /\ [Next]_vars => [Abstract!Next]_<<order, job>>
    <2> SUFFICES ASSUME IInv, [Next]_vars PROVE [Abstract!Next]_<<order, job>>
      OBVIOUS
    <2>1. ASSUME NEW j \in Jobs, Push(j) PROVE Abstract!Push(j)
      BY <2>1 DEF Push, Abstract!Push
    <2>2. CASE Pull /\ length = 0
      <3>1. order = <<>>
        BY <2>2, NoJobs DEF IInv, LinkedList
      <3> QED  BY <2>2, <3>1 DEF Pull, Abstract!Pull, Abstract!Next
    <2>3. CASE Pull /\ length # 0
      <3>1. length > 0 /\ clearing' \in BOOLEAN
        BY <2>3 DEF IInv, TypeOK, Pull
      <3>2. job' = Head(order) /\ order # <<>>
        BY <2>3, <3>1, UnlinkStep DEF Pull
      <3> QED  BY <2>3, <3>2 DEF Pull, Abstract!Pull, Abstract!Next
    <2>4. CASE ClearPull
      <3>1. job' = Head(order) /\ order # <<>>
        BY <2>4, UnlinkStep DEF ClearPull
      <3> QED  BY <2>4, <3>1 DEF ClearPull, Abstract!Pull, Abstract!Next
    <2>5. CASE Cleared \/ UNCHANGED vars \/ \E j \in Jobs : Free(j)
      BY <2>5 DEF Cleared, vars, Free
    <2> QED  BY <2>1, <2>2, <2>3, <2>4, <2>5 DEF Next, Abstract!Next
  <1> QED  BY <1>1, <1>2, Invariance, PTL DEF Spec, Implements, Abstract!Spec
=============================================================================
