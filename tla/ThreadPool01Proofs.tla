------------------------- MODULE ThreadPool01Proofs -------------------------
(***************************************************************************)
(* Proofs about ThreadPool01, for any finite number of workers and tasks.  *)
(***************************************************************************)
EXTENDS ThreadPool01, FiniteSetTheorems, TLAPS

Busy == {w \in Workers : pc[w] \in {"run", "relock", "finish"}}

(* Where Main is, and whether the pool is running. *)
Phase == /\ pc[Main] \in {"create", "idle"} => running
         /\ pc[Main] \in {"stop", "free", "freed"} => ~running

(* working_count is exact.  thread_count may be too large, since decrements *)
(* can be lost, but it never misses a thread: nor does any copy of it that  *)
(* is about to be stored.                                                   *)
Counters == /\ working_count = Cardinality(Busy)
            /\ thread_count >= Cardinality(Counted)
            /\ \A w \in Workers : pc[w] = "store" => tmp[w] >= Cardinality(Counted)

(* Once Main has seen thread_count = 0 after the shutdown, all have left. *)
Left == ~running /\ pc[Main] \in {"wait_return", "free", "freed"} => Counted = {}

(* The mutex works as long as the pool is running. *)
Mutex == running =>
    /\ \A w \in Workers : pc[w] \notin {"dec", "store", "signal", "release", "gone"}
    /\ \A w \in Workers : pc[w] = "finish" =>
          /\ locked
          /\ pc[Main] \notin {"block", "wait_return"}
          /\ \A v \in Workers : pc[v] = "finish" => v = w
    /\ pc[Main] \in {"block", "wait_return"} => locked

(* What Main has read under the mutex still holds. *)
Seen == running => /\ pc[Main] = "block" => working_count > 0
                   /\ pc[Main] = "wait_return" => Busy = {}

(* A worker has a task exactly while it runs it. *)
Holding == \A w \in Workers : task[w] # NULL <=> pc[w] = "run"

IInv == TypeOK /\ Phase /\ Counters /\ Left /\ Mutex /\ Seen /\ Holding

----------------------------------------------------------------------------
(* Sets of workers are finite and have a size. *)
LEMMA WorkerSets ==
    ASSUME NEW S, S \subseteq Workers
    PROVE  IsFiniteSet(S) /\ Cardinality(S) \in Nat
  BY WorkersAssumption, FS_Subset, FS_CardinalityType

(* One worker more, one worker less. *)
LEMMA OneMore ==
    ASSUME NEW S, S \subseteq Workers, NEW w \in Workers, w \notin S
    PROVE  Cardinality(S \cup {w}) = Cardinality(S) + 1
  BY WorkerSets, FS_AddElement

LEMMA OneLess ==
    ASSUME NEW S, S \subseteq Workers, NEW w \in S
    PROVE  /\ Cardinality(S) >= 1
           /\ Cardinality(S \ {w}) = Cardinality(S) - 1
  <1>1. IsFiniteSet(S \ {w}) /\ Cardinality(S \ {w}) = Cardinality(S) - 1
    BY WorkerSets, FS_RemoveElement
  <1>2. Cardinality(S \ {w}) \in Nat /\ Cardinality(S) \in Nat
    BY <1>1, WorkerSets, FS_CardinalityType
  <1> QED  BY <1>1, <1>2

LEMMA Zero ==
    ASSUME NEW S, S \subseteq Workers
    PROVE  Cardinality(S) = 0 <=> S = {}
  BY WorkerSets, FS_EmptySet

----------------------------------------------------------------------------
LEMMA InitInv == Init => IInv
  <1> SUFFICES ASSUME Init PROVE IInv
    OBVIOUS
  <1> USE MainAssumption, NullAssumption DEF Init
  <1>1. Busy = {} /\ Counted = Workers
    BY DEF Busy, Counted, Threads
  <1>2. Cardinality(Workers) \in Nat /\ Cardinality({}) = 0
    BY WorkersAssumption, FS_CardinalityType, FS_EmptySet
  <1>3. TypeOK
    <2>1. pc \in [Threads -> WorkerPC \cup MainPC]
      BY DEF WorkerPC, MainPC
    <2>2. pc[Main] \in MainPC /\ \A w \in Workers : pc[w] \in WorkerPC
      BY DEF WorkerPC, MainPC, Threads
    <2>3. task_list \in Seq(Tasks)
      OBVIOUS
    <2> QED  BY <1>2, <2>1, <2>2, <2>3, Zenon DEF TypeOK
  <1>4. Phase /\ Left /\ Mutex /\ Seen /\ Holding
    BY DEF Phase, Left, Mutex, Seen, Holding, Threads
  <1>5. Counters
    BY <1>1, <1>2 DEF Counters, Threads
  <1> QED  BY <1>3, <1>4, <1>5 DEF IInv

(* pthread_cond_signal wakes threads, it never blocks one. *)
LEMMA SignalledSubset == \A ws : \A s \in Signalled(ws) : s \subseteq ws
  BY DEF Signalled

LEMMA TypeStep == IInv /\ [Next]_vars => TypeOK'
  <1> SUFFICES ASSUME IInv, [Next]_vars PROVE TypeOK'
    OBVIOUS
  <1> USE MainAssumption, NullAssumption DEF IInv, TypeOK, Threads, WorkerPC, MainPC, counts, conds
  <1>1. ASSUME NEW w \in Workers, Create(w) PROVE TypeOK'
    BY <1>1, SMTT(60) DEF Create, Goto
  <1>2. ASSUME NEW w \in Workers, Worker(w) PROVE TypeOK'
    <2>1. CASE WorkerHead(w)
      BY <2>1 DEF WorkerHead, Goto
    <2>2. CASE WorkerSleep(w)
      BY <2>2 DEF WorkerSleep, Entering
    <2>3. CASE WorkerBreak(w)
      BY <2>3 DEF WorkerBreak, Entering
    <2>4. CASE WorkerTake(w)
      BY <2>4 DEF WorkerTake, Entering
    <2>5. CASE WorkerRun(w)
      BY <2>5 DEF WorkerRun, Goto, Holding
    <2>6. CASE WorkerRelock(w)
      BY <2>6 DEF WorkerRelock, Goto
    <2>7. CASE WorkerFinish(w)
      <3>1. w \in Busy /\ Busy \subseteq Workers
        BY <2>7 DEF WorkerFinish, Goto, Busy
      <3>2. working_count >= 1
        BY <3>1, OneLess, Zenon DEF Counters
      <3>3. finish_cond' \subseteq finish_cond
        BY <2>7, SignalledSubset DEF WorkerFinish
      <3>4. working_count' \in Nat
        BY <2>7, <3>2 DEF WorkerFinish
      <3>5. /\ pc' = [pc EXCEPT ![w] = "head"]
            /\ UNCHANGED <<task_list, thread_count, running, task_list_cond, task, tmp, done, dropped>>
            /\ locked' = FALSE
        BY <2>7 DEF WorkerFinish, Goto
      <3> QED  BY <3>3, <3>4, <3>5, Zenon
    <2>8. CASE WorkerDecLoad(w)
      BY <2>8 DEF WorkerDecLoad, Goto
    <2>9. CASE WorkerDecStore(w)
      <3>1. w \in Counted /\ Counted \subseteq Workers
        BY <2>9 DEF WorkerDecStore, Goto, Counted
      <3>2. tmp[w] >= Cardinality(Counted)
        BY <2>9 DEF Counters, WorkerDecStore, Goto
      <3>3. Cardinality(Counted) \in Nat /\ Cardinality(Counted) >= 1
        BY <3>1, OneLess, WorkerSets, Zenon
      <3> QED  BY <2>9, <3>2, <3>3 DEF WorkerDecStore, Goto
    <2>10. CASE WorkerSignal(w)
      BY <2>10, SignalledSubset DEF WorkerSignal, Goto
    <2>11. CASE WorkerRelease(w)
      BY <2>11, Zenon DEF WorkerRelease, Goto
    <2> QED  BY <1>2, <2>1, <2>2, <2>3, <2>4, <2>5, <2>6, <2>7, <2>8, <2>9,
                <2>10, <2>11, SMTT(60) DEF Worker
  <1>3. ASSUME NEW t \in Tasks, AddTask(t) PROVE TypeOK'
    BY <1>3, SignalledSubset DEF AddTask
  <1>4. CASE Client
    <2>1. CASE DestoryStop
      <3>1. Range(task_list) \subseteq Tasks
        BY DEF Range
      <3> QED  BY <2>1, <3>1, Zenon DEF DestoryStop, Goto
    <2>2. CASE CreateReturn \/ WaitCall \/ WaitTest \/ WaitBlock
      BY <2>2, ZenonT(60) DEF CreateReturn, WaitCall, WaitTest, WaitBlock, Goto
    <2>3. CASE WaitReturn \/ DestoryUnlock \/ DestoryFree
      BY <2>3, ZenonT(60) DEF WaitReturn, DestoryUnlock, DestoryFree, Goto
    <2> QED  BY <1>4, <2>1, <2>2, <2>3 DEF Client
  <1>5. CASE Spurious
    BY <1>5 DEF Spurious
  <1>6. CASE Ended \/ UNCHANGED vars
    BY <1>6 DEF Ended, vars
  <1> QED  BY <1>1, <1>2, <1>3, <1>4, <1>5, <1>6, Zenon DEF Next

LEMMA PhaseHoldingStep == IInv /\ [Next]_vars => Phase' /\ Holding'
  <1> SUFFICES ASSUME IInv, [Next]_vars PROVE Phase' /\ Holding'
    OBVIOUS
  <1> USE MainAssumption, NullAssumption
          DEF IInv, TypeOK, Threads, WorkerPC, MainPC, counts, conds, Phase, Holding, Goto
  <1>1. ASSUME NEW w \in Workers, Create(w) PROVE Phase' /\ Holding'
    BY <1>1, SMTT(60) DEF Create
  <1>2. ASSUME NEW w \in Workers, Worker(w) PROVE Phase' /\ Holding'
    <2>1. CASE WorkerTake(w)
      <3>1. Head(task_list) \in Tasks
        BY <2>1 DEF WorkerTake
      <3> QED  BY <2>1, <3>1 DEF WorkerTake, Entering
    <2>2. CASE WorkerRun(w)
      BY <2>2 DEF WorkerRun
    <2>3. CASE WorkerHead(w) \/ WorkerSleep(w) \/ WorkerBreak(w) \/ WorkerRelock(w)
      BY <2>3 DEF WorkerHead, WorkerSleep, WorkerBreak, WorkerRelock, Entering
    <2>4. CASE WorkerFinish(w) \/ WorkerDecLoad(w) \/ WorkerDecStore(w)
                \/ WorkerSignal(w) \/ WorkerRelease(w)
      BY <2>4 DEF WorkerFinish, WorkerDecLoad, WorkerDecStore, WorkerSignal, WorkerRelease
    <2> QED  BY <1>2, <2>1, <2>2, <2>3, <2>4 DEF Worker
  <1>3. ASSUME NEW t \in Tasks, AddTask(t) PROVE Phase' /\ Holding'
    BY <1>3, SMTT(60) DEF AddTask
  <1>4. CASE Client
    BY <1>4 DEF Client, CreateReturn, WaitCall, WaitTest, WaitBlock, WaitReturn,
                DestoryStop, DestoryUnlock, DestoryFree
  <1>5. CASE Spurious \/ Ended \/ UNCHANGED vars
    BY <1>5, SMTT(60) DEF Spurious, Ended, vars
  <1> QED  BY <1>1, <1>2, <1>3, <1>4, <1>5 DEF Next

LEMMA MutexStep == IInv /\ [Next]_vars => Mutex'
  <1> SUFFICES ASSUME IInv, [Next]_vars PROVE Mutex'
    OBVIOUS
  <1> USE MainAssumption
          DEF IInv, TypeOK, Threads, WorkerPC, MainPC, counts, conds, Phase, Mutex, Goto
  <1>1. ASSUME NEW w \in Workers, Create(w) PROVE Mutex'
    BY <1>1, SMTT(60) DEF Create
  <1>2. ASSUME NEW w \in Workers, Worker(w) PROVE Mutex'
    <2>1. CASE WorkerHead(w) \/ WorkerSleep(w) \/ WorkerBreak(w)
      BY <2>1, ZenonT(60) DEF WorkerHead, WorkerSleep, WorkerBreak, Entering
    <2>2. CASE WorkerTake(w) \/ WorkerRun(w)
      BY <2>2, ZenonT(60) DEF WorkerTake, WorkerRun, Entering
    <2>3. CASE WorkerRelock(w)
      BY <2>3 DEF WorkerRelock
    <2>4. CASE WorkerFinish(w)
      BY <2>4 DEF WorkerFinish
    <2>5. CASE WorkerDecLoad(w) \/ WorkerDecStore(w) \/ WorkerSignal(w) \/ WorkerRelease(w)
      BY <2>5, Zenon DEF WorkerDecLoad, WorkerDecStore, WorkerSignal, WorkerRelease
    <2> QED  BY <1>2, <2>1, <2>2, <2>3, <2>4, <2>5, SMTT(60) DEF Worker
  <1>3. ASSUME NEW t \in Tasks, AddTask(t) PROVE Mutex'
    BY <1>3 DEF AddTask
  <1>4. CASE Client
    BY <1>4, ZenonT(60) DEF Client, CreateReturn, WaitCall, WaitTest, WaitBlock, WaitReturn,
                DestoryStop, DestoryUnlock, DestoryFree
  <1>5. CASE Spurious \/ Ended \/ UNCHANGED vars
    BY <1>5, Zenon DEF Spurious, Ended, vars
  <1> QED  BY <1>1, <1>2, <1>3, <1>4, <1>5 DEF Next

(* working_count follows the workers that are busy. *)
LEMMA BusyStep == IInv /\ [Next]_vars => working_count' = Cardinality(Busy')
  <1> SUFFICES ASSUME IInv, [Next]_vars PROVE working_count' = Cardinality(Busy')
    OBVIOUS
  <1> USE MainAssumption DEF IInv, TypeOK, Threads, counts, conds, Goto
  <1>0. Busy \subseteq Workers /\ Cardinality(Busy) \in Nat /\ working_count = Cardinality(Busy)
    BY WorkerSets DEF Busy, Counters
  <1>1. ASSUME NEW w \in Workers, WorkerTake(w) PROVE working_count' = Cardinality(Busy')
    <2>1. Busy' = Busy \cup {w} /\ w \notin Busy
      BY <1>1 DEF WorkerTake, Entering, Busy
    <2> QED  BY <1>0, <1>1, <2>1, OneMore DEF WorkerTake
  <1>2. ASSUME NEW w \in Workers, WorkerFinish(w) PROVE working_count' = Cardinality(Busy')
    <2>1. Busy' = Busy \ {w} /\ w \in Busy
      BY <1>2 DEF WorkerFinish, Busy
    <2> QED  BY <1>0, <1>2, <2>1, OneLess DEF WorkerFinish
  <1>3. CASE /\ UNCHANGED working_count
             /\ Busy' = Busy
    BY <1>0, <1>3, SMTT(60)
  <1>4. ASSUME NEW w \in Workers, Worker(w), ~WorkerTake(w), ~WorkerFinish(w)
        PROVE  UNCHANGED working_count /\ Busy' = Busy
    BY <1>4 DEF Worker, WorkerHead, WorkerSleep, WorkerBreak, WorkerRun, WorkerRelock,
                WorkerDecLoad, WorkerDecStore, WorkerSignal, WorkerRelease, Entering, Busy
  <1>5. ASSUME NEW w \in Workers, Create(w)
        PROVE  UNCHANGED working_count /\ Busy' = Busy
    BY <1>5, SMTT(60) DEF Create, Busy
  <1>6. CASE Client
    BY <1>6, <1>3, SMTT(60) DEF Client, CreateReturn, WaitCall, WaitTest, WaitBlock, WaitReturn,
                DestoryStop, DestoryUnlock, DestoryFree, Busy
  <1>7. CASE Spurious \/ Ended \/ UNCHANGED vars \/ \E t \in Tasks : AddTask(t)
    BY <1>7, <1>3, SMTT(60) DEF Spurious, Ended, vars, AddTask, Busy
  <1> QED  BY <1>1, <1>2, <1>3, <1>4, <1>5, <1>6, <1>7 DEF Next

(* A worker that stores its decrement leaves Counted; no worker enters it.  *)
(* So a copy of thread_count, however old, is still large enough.           *)
LEMMA CountedStep ==
    IInv /\ [Next]_vars =>
        /\ thread_count' >= Cardinality(Counted')
        /\ \A v \in Workers : pc'[v] = "store" => tmp'[v] >= Cardinality(Counted')
        /\ Counted' \subseteq Counted
  <1> DEFINE Goal == /\ thread_count' >= Cardinality(Counted')
                     /\ \A v \in Workers : pc'[v] = "store" => tmp'[v] >= Cardinality(Counted')
                     /\ Counted' \subseteq Counted
  <1> SUFFICES ASSUME IInv, [Next]_vars PROVE Goal
    OBVIOUS
  <1> USE MainAssumption DEF IInv, TypeOK, Threads, counts, conds, Goto
  <1>0. Counted \subseteq Workers /\ Cardinality(Counted) \in Nat
    BY WorkerSets DEF Counted
  <1>1. ASSUME NEW w \in Workers, WorkerDecStore(w) PROVE Goal
    <2>1. Counted' = Counted \ {w} /\ w \in Counted
      BY <1>1 DEF WorkerDecStore, Counted
    <2>2. Cardinality(Counted') = Cardinality(Counted) - 1
      BY <1>0, <2>1, OneLess
    <2>3. tmp[w] >= Cardinality(Counted) /\ tmp[w] \in Nat /\ tmp' = tmp
      BY <1>1 DEF WorkerDecStore, Counters
    <2>4. thread_count' >= Cardinality(Counted')
      BY <1>0, <1>1, <2>2, <2>3 DEF WorkerDecStore
    <2>5. ASSUME NEW v \in Workers, pc'[v] = "store" PROVE tmp'[v] >= Cardinality(Counted')
      <3>1. pc[v] = "store"
        BY <1>1, <2>5 DEF WorkerDecStore
      <3> QED  BY <1>0, <2>2, <2>3, <3>1, SMTT(60) DEF Counters
    <2> QED  BY <2>1, <2>4, <2>5, Zenon
  <1>2. ASSUME NEW w \in Workers, WorkerDecLoad(w) PROVE Goal
    <2>1. Counted' = Counted
      BY <1>2 DEF WorkerDecLoad, Counted
    <2>2. ASSUME NEW v \in Workers, pc'[v] = "store" PROVE tmp'[v] >= Cardinality(Counted')
      <3>1. CASE v = w
        BY <1>2, <2>1, <3>1 DEF WorkerDecLoad, Counters
      <3>2. CASE v # w
        BY <1>2, <2>1, <2>2, <3>2, SMTT(60) DEF WorkerDecLoad, Counters
      <3> QED  BY <3>1, <3>2
    <2> QED  BY <1>2, <2>1, <2>2 DEF WorkerDecLoad, Counters
  <1>3. CASE /\ UNCHANGED <<thread_count, tmp>>
             /\ Counted' = Counted
             /\ \A v \in Workers : pc'[v] = "store" => pc[v] = "store"
    BY <1>3, SMTT(60) DEF Counters
  <1>4. ASSUME NEW w \in Workers, Create(w) \/ Worker(w), ~WorkerDecStore(w), ~WorkerDecLoad(w)
        PROVE  Goal
    <2>1. CASE Create(w) \/ WorkerHead(w) \/ WorkerSleep(w) \/ WorkerBreak(w) \/ WorkerTake(w)
      BY <1>3, <2>1, SMTT(60) DEF Create, WorkerHead, WorkerSleep, WorkerBreak, WorkerTake, Entering, Counted
    <2>2. CASE WorkerRun(w) \/ WorkerRelock(w) \/ WorkerFinish(w)
      BY <1>3, <2>2, SMTT(60) DEF WorkerRun, WorkerRelock, WorkerFinish, Counted
    <2>3. CASE WorkerSignal(w) \/ WorkerRelease(w)
      BY <1>3, <2>3, SMTT(60) DEF WorkerSignal, WorkerRelease, Counted
    <2> QED  BY <1>4, <2>1, <2>2, <2>3, SMTT(60) DEF Worker
  <1>5. CASE Client
    BY <1>5, <1>3, SMTT(60) DEF Client, CreateReturn, WaitCall, WaitTest, WaitBlock, WaitReturn,
                DestoryStop, DestoryUnlock, DestoryFree, Counted
  <1>6. CASE Spurious \/ Ended \/ UNCHANGED vars \/ \E t \in Tasks : AddTask(t)
    BY <1>6, <1>3, SMTT(60) DEF Spurious, Ended, vars, AddTask, Counted
  <1> QED  BY <1>1, <1>2, <1>4, <1>5, <1>6 DEF Next

LEMMA LeftStep == IInv /\ [Next]_vars => Left'
  <1> SUFFICES ASSUME IInv, [Next]_vars PROVE Left'
    OBVIOUS
  <1>1. Counted' \subseteq Counted
    BY CountedStep
  <1> USE MainAssumption DEF IInv, TypeOK, Threads, counts, conds, Goto
  <1>2. CASE WaitTest
    <2>1. CASE ~running /\ thread_count <= 0
      <3>1. Cardinality(Counted) = 0
        BY <2>1, WorkerSets DEF Counters, Counted
      <3> QED  BY <1>1, <3>1, Zero, Zenon DEF Counted, Left
    <2>2. CASE running \/ thread_count > 0
      BY <1>2, <2>2 DEF WaitTest, MustWait, Left
    <2> QED  BY <2>1, <2>2
  <1>3. CASE Client /\ ~WaitTest
    BY <1>1, <1>3 DEF Client, CreateReturn, WaitCall, WaitBlock, WaitReturn, DestoryStop,
                      DestoryUnlock, DestoryFree, Left, Phase
  <1>4. CASE UNCHANGED <<running, pc[Main]>>
    BY <1>1, <1>4, SMTT(60) DEF Left
  <1>5. ASSUME NEW w \in Workers, Create(w) \/ Worker(w) PROVE UNCHANGED <<running, pc[Main]>>
    BY <1>5, SMTT(60) DEF Create, Worker, WorkerHead, WorkerSleep, WorkerBreak, WorkerTake, WorkerRun,
                WorkerRelock, WorkerFinish, WorkerDecLoad, WorkerDecStore, WorkerSignal,
                WorkerRelease, Entering
  <1>6. CASE Spurious \/ Ended \/ UNCHANGED vars \/ \E t \in Tasks : AddTask(t)
    BY <1>4, <1>6, SMTT(60) DEF Spurious, Ended, vars, AddTask
  <1> QED  BY <1>2, <1>3, <1>4, <1>5, <1>6 DEF Next

LEMMA SeenStep == IInv /\ [Next]_vars => Seen'
  <1> SUFFICES ASSUME IInv, [Next]_vars PROVE Seen'
    OBVIOUS
  <1> USE MainAssumption DEF IInv, TypeOK, Threads, counts, conds, Goto
  <1>1. CASE WaitTest
    <2>1. running' = running /\ working_count' = working_count /\ Busy' = Busy
      BY <1>1 DEF WaitTest, Busy
    <2>2. running /\ pc'[Main] = "block" => working_count > 0
      BY <1>1 DEF WaitTest, MustWait
    <2>3. ASSUME running, pc'[Main] = "wait_return" PROVE Busy = {}
      <3>1. working_count = 0
        BY <1>1, <2>3 DEF WaitTest, MustWait
      <3> QED  BY <3>1, Zero, Zenon DEF Counters, Busy
    <2> QED  BY <2>1, <2>2, <2>3 DEF Seen
  <1>2. CASE Client /\ ~WaitTest
    BY <1>2, Zenon DEF Client, CreateReturn, WaitCall, WaitBlock, WaitReturn, DestoryStop,
                DestoryUnlock, DestoryFree, Seen
  <1>3. CASE UNCHANGED <<running, pc[Main], working_count>> /\ Busy' \subseteq Busy
    BY <1>3 DEF Seen
  <1>4. ASSUME NEW w \in Workers, WorkerTake(w) \/ WorkerFinish(w) PROVE Seen'
    BY <1>4, Zenon DEF WorkerTake, WorkerFinish, Entering, Seen, Mutex
  <1>5. ASSUME NEW w \in Workers, Create(w) \/ Worker(w), ~WorkerTake(w), ~WorkerFinish(w)
        PROVE  UNCHANGED <<running, pc[Main], working_count>> /\ Busy' \subseteq Busy
    BY <1>5 DEF Create, Worker, WorkerHead, WorkerSleep, WorkerBreak, WorkerRun,
                WorkerRelock, WorkerDecLoad, WorkerDecStore, WorkerSignal,
                WorkerRelease, Entering, Busy
  <1>6. CASE Spurious \/ Ended \/ UNCHANGED vars \/ \E t \in Tasks : AddTask(t)
    BY <1>3, <1>6 DEF Spurious, Ended, vars, AddTask, Busy
  <1> QED  BY <1>1, <1>2, <1>3, <1>4, <1>5, <1>6, SMTT(60) DEF Next

(* IInv is an inductive invariant. *)
THEOREM Invariance == Spec => []IInv
  <1>1. IInv /\ [Next]_vars => IInv'
    <2> SUFFICES ASSUME IInv, [Next]_vars PROVE IInv'
      OBVIOUS
    <2>1. Counters'
      BY BusyStep, CountedStep DEF Counters
    <2> QED  BY <2>1, TypeStep, PhaseHoldingStep, LeftStep, MutexStep, SeenStep DEF IInv
  <1> QED  BY <1>1, InitInv, PTL DEF Spec

(* The variables have their types, and neither counter wraps around. *)
THEOREM TypeCorrect == Spec => []TypeOK
  <1>1. IInv => TypeOK
    BY DEF IInv
  <1> QED  BY <1>1, Invariance, PTL

(* ThreadPoolDestory frees the pool only when every worker is past its      *)
(* decrement of thread_count, in spite of the data race on it.              *)
THEOREM DestoryWaitsForWorkers == Spec => []FreedOnlyWhenLeaving
  <1>1. IInv => FreedOnlyWhenLeaving
    BY SMTT(60) DEF IInv, Left, Phase, FreedOnlyWhenLeaving
  <1> QED  BY <1>1, Invariance, PTL

(* When ThreadPoolWait returns to the client no worker has a task in hand. *)
THEOREM WaitWaitsForTasks == Spec => []WaitReturnsIdle
  <1>1. IInv => WaitReturnsIdle
    BY DEF IInv, Seen, Holding, Busy, WaitReturnsIdle
  <1> QED  BY <1>1, Invariance, PTL

(* The client blocked in ThreadPoolWait has a task to wait for, as long as  *)
(* the pool is running.                                                     *)
THEOREM NoLostFinish == Spec => []WaiterCovered
  <1>1. Init => WaiterCovered
    BY DEF Init, WaiterCovered
  <1>2. IInv /\ WaiterCovered /\ [Next]_vars => WaiterCovered'
    <2> SUFFICES ASSUME IInv, WaiterCovered, [Next]_vars PROVE WaiterCovered'
      OBVIOUS
    <2> USE MainAssumption DEF IInv, TypeOK, Threads, counts, conds, Goto, WaiterCovered
    <2>1. ASSUME NEW w \in Workers, WorkerFinish(w) PROVE WaiterCovered'
      <3>1. CASE running /\ working_count' = 0 /\ task_list = <<>>
        <4>1. finish_cond' = {}
          BY <2>1, <3>1 DEF WorkerFinish, Signalled
        <4> QED  BY <4>1
      <3>2. CASE ~running \/ working_count' # 0 \/ task_list # <<>>
        <4>1. UNCHANGED <<task_list, running>> /\ (running => finish_cond' = finish_cond)
          BY <2>1, <3>2, SMTT(60) DEF WorkerFinish
        <4>2. working_count' \in Nat
          BY TypeStep DEF IInv
        <4> QED  BY <3>2, <4>1, <4>2, SMTT(60)
      <3> QED  BY <3>1, <3>2
    <2>2. ASSUME NEW w \in Workers, WorkerTake(w) PROVE WaiterCovered'
      BY <2>2 DEF WorkerTake
    <2>3. ASSUME NEW w \in Workers, Create(w) \/ Worker(w), ~WorkerFinish(w), ~WorkerTake(w)
          PROVE  WaiterCovered'
      <3>1. UNCHANGED <<task_list, running, working_count>> /\ finish_cond' \subseteq finish_cond
        BY <2>3, SignalledSubset, SMTT(60)
           DEF Create, Worker, WorkerHead, WorkerSleep, WorkerBreak, WorkerRun, WorkerRelock,
               WorkerDecLoad, WorkerDecStore, WorkerSignal, WorkerRelease
      <3> QED  BY <3>1, SMTT(60)
    <2>4. ASSUME NEW t \in Tasks, AddTask(t) PROVE WaiterCovered'
      BY <2>4, SMTT(60) DEF AddTask
    <2>5. CASE Client
      BY <2>5, Zenon DEF Client, CreateReturn, WaitCall, WaitTest, WaitBlock, WaitReturn, DestoryStop,
                  DestoryUnlock, DestoryFree, Seen
    <2>6. CASE Spurious \/ Ended \/ UNCHANGED vars
      BY <2>6, Zenon DEF Spurious, Ended, vars
    <2> QED  BY <2>1, <2>2, <2>3, <2>4, <2>5, <2>6 DEF Next
  <1> QED  BY <1>1, <1>2, Invariance, PTL DEF Spec

----------------------------------------------------------------------------
(* Only workers inside pthread_cond_wait are blocked on task_list_cond. *)
Sleepers == \A w \in task_list_cond : pc[w] = "asleep"

(* A signal given to a non-empty set of workers wakes one of them. *)
LEMMA SignalledOne ==
    ASSUME NEW ws, ws # {}, NEW s \in Signalled(ws)
    PROVE  \E w \in ws : s = ws \ {w}
  BY DEF Signalled

LEMMA SleepersStep == IInv /\ Sleepers /\ [Next]_vars => Sleepers'
  <1> SUFFICES ASSUME IInv, Sleepers, [Next]_vars PROVE Sleepers'
    BY SMTT(60)
  <1> USE MainAssumption DEF IInv, TypeOK, Threads, counts, conds, Goto, Sleepers
  <1>1. ASSUME NEW w \in Workers, Create(w) \/ Worker(w) PROVE Sleepers'
    <2>1. CASE WorkerSleep(w)
      BY <2>1 DEF WorkerSleep
    <2>2. CASE WorkerTake(w) \/ WorkerBreak(w)
      BY <2>2, SMTT(60) DEF WorkerTake, WorkerBreak, Entering
    <2>3. CASE Create(w) \/ WorkerHead(w) \/ WorkerRun(w) \/ WorkerRelock(w) \/ WorkerFinish(w)
      BY <2>3, SMTT(60) DEF Create, WorkerHead, WorkerRun, WorkerRelock, WorkerFinish
    <2>4. CASE WorkerDecLoad(w) \/ WorkerDecStore(w) \/ WorkerSignal(w) \/ WorkerRelease(w)
      BY <2>4 DEF WorkerDecLoad, WorkerDecStore, WorkerSignal, WorkerRelease
    <2> QED  BY <1>1, <2>1, <2>2, <2>3, <2>4, SMTT(60) DEF Worker
  <1>2. ASSUME NEW t \in Tasks, AddTask(t) PROVE Sleepers'
    <2>1. task_list_cond' \subseteq task_list_cond /\ pc' = pc
      BY <1>2, SignalledSubset, SMTT(60) DEF AddTask
    <2> QED  BY <2>1
  <1>3. CASE Client
    BY <1>3, SMTT(60) DEF Client, CreateReturn, WaitCall, WaitTest, WaitBlock, WaitReturn,
                DestoryStop, DestoryUnlock, DestoryFree
  <1>4. CASE Spurious \/ Ended \/ UNCHANGED vars
    BY <1>4 DEF Spurious, Ended, vars
  <1> QED  BY <1>1, <1>2, <1>3, <1>4 DEF Next

LEMMA AwakeStep == IInv /\ Sleepers /\ EnoughAwake /\ [Next]_vars => EnoughAwake'
  <1> SUFFICES ASSUME IInv, Sleepers, EnoughAwake, [Next]_vars PROVE EnoughAwake'
    BY SMTT(60)
  <1> USE MainAssumption DEF IInv, TypeOK, Threads, counts, conds, Goto
  <1>0. /\ Available \subseteq Workers /\ Cardinality(Available) \in Nat
        /\ Available' \subseteq Workers /\ Cardinality(Available') \in Nat
        /\ Len(task_list) \in Nat
    BY WorkerSets DEF Available
  <1>1. ASSUME NEW w \in Workers, WorkerTake(w) PROVE EnoughAwake'
    <2>1. Available' = Available \ {w} /\ w \in Available
      BY <1>1 DEF WorkerTake, Entering, Available
    <2>2. Len(task_list') = Len(task_list) - 1 /\ UNCHANGED <<running, task_list_cond>>
      BY <1>1 DEF WorkerTake
    <2>3. Cardinality(Available') = Cardinality(Available) - 1
      BY <1>0, <2>1, OneLess, SMTT(60)
    <2> QED  BY <1>0, <2>2, <2>3, SMTT(60) DEF EnoughAwake
  <1>2. ASSUME NEW w \in Workers, WorkerSleep(w) PROVE EnoughAwake'
    BY <1>0, <1>2 DEF WorkerSleep, EnoughAwake
  <1>3. ASSUME NEW t \in Tasks, AddTask(t) PROVE EnoughAwake'
    <2>1. CASE task_list_cond = {}
      BY <1>3, <2>1, SignalledSubset, SMTT(60) DEF AddTask, EnoughAwake
    <2>2. CASE task_list_cond # {}
      <3>1. PICK w \in task_list_cond : task_list_cond' = task_list_cond \ {w}
        BY <1>3, <2>2, SignalledOne, SMTT(60) DEF AddTask
      <3>2. Available' = Available \cup {w} /\ w \notin Available
        BY <1>3, <3>1 DEF AddTask, Available, Sleepers
      <3>3. Cardinality(Available') = Cardinality(Available) + 1
        BY <1>0, <3>2, OneMore, SMTT(60)
      <3>4. Len(task_list') = Len(task_list) + 1 /\ running' = running
        BY <1>3 DEF AddTask
      <3> QED  BY <1>0, <2>2, <3>3, <3>4, SMTT(60) DEF EnoughAwake
    <2> QED  BY <2>1, <2>2, SMTT(60)
  <1>4. CASE /\ UNCHANGED <<task_list, running>>
             /\ task_list_cond' \subseteq task_list_cond
             /\ running => Available \subseteq Available'
    <2>1. running => Cardinality(Available) <= Cardinality(Available')
      BY <1>0, <1>4, WorkerSets, FS_Subset, SMTT(60)
    <2> QED  BY <1>0, <1>4, <2>1, SMTT(60) DEF EnoughAwake
  <1>5. ASSUME NEW w \in Workers, Create(w) \/ Worker(w), ~WorkerTake(w), ~WorkerSleep(w)
        PROVE  EnoughAwake'
    BY <1>4, <1>5, Zenon DEF Create, Worker, WorkerHead, WorkerBreak, WorkerRun, WorkerRelock,
                      WorkerFinish, WorkerDecLoad, WorkerDecStore, WorkerSignal,
                      WorkerRelease, Available, Mutex
  <1>6. CASE DestoryStop
    BY <1>6, SMTT(60) DEF DestoryStop, EnoughAwake
  <1>7. CASE Client /\ ~DestoryStop
    BY <1>4, <1>7, SMTT(60) DEF Client, CreateReturn, WaitCall, WaitTest, WaitBlock, WaitReturn,
                      DestoryUnlock, DestoryFree, Available
  <1>8. CASE Spurious \/ Ended \/ UNCHANGED vars
    BY <1>4, <1>8 DEF Spurious, Ended, vars, Available
  <1> QED  BY <1>1, <1>2, <1>3, <1>5, <1>6, <1>7, <1>8 DEF Next

(* No worker stays blocked while the queue holds more tasks than there are  *)
(* workers on their way to it.                                              *)
THEOREM SignalsSuffice == Spec => []EnoughAwake
  <1>1. Init => Sleepers /\ EnoughAwake
    BY DEF Init, Sleepers, EnoughAwake
  <1> QED  BY <1>1, Invariance, SleepersStep, AwakeStep, PTL DEF Spec

----------------------------------------------------------------------------
(* A task is in one place at a time: once in task_list, or in the hands of  *)
(* one worker.                                                              *)
Owned == /\ \A i, j \in 1 .. Len(task_list) : task_list[i] = task_list[j] => i = j
         /\ \A i \in 1 .. Len(task_list), w \in Workers : task[w] # task_list[i]
         /\ \A v, w \in Workers : task[v] = task[w] /\ task[v] # NULL => v = w
         /\ running => dropped = {}

(* All that a worker does but to take and run tasks leaves these alone. *)
LEMMA WorkerQuiet ==
    ASSUME NEW w \in Workers, Create(w) \/ Worker(w), ~WorkerTake(w), ~WorkerRun(w)
    PROVE  UNCHANGED <<task_list, running, task, done, dropped>>
  BY ZenonT(60) DEF Create, Worker, WorkerHead, WorkerSleep, WorkerBreak, WorkerRelock,
                    WorkerFinish, WorkerDecLoad, WorkerDecStore, WorkerSignal, WorkerRelease

LEMMA OwnedStep == IInv /\ Owned /\ [Next]_vars => Owned'
  <1> SUFFICES ASSUME IInv, Owned, [Next]_vars PROVE Owned'
    OBVIOUS
  <1> USE MainAssumption, NullAssumption DEF IInv, TypeOK, Threads, counts, conds, Goto
  <1>1. ASSUME NEW w \in Workers, WorkerTake(w) PROVE Owned'
    <2>1. /\ task_list \in Seq(Tasks) /\ Len(task_list) \in Nat /\ Len(task_list) >= 1
          /\ task' = [task EXCEPT ![w] = task_list[1]]
          /\ Len(task_list') = Len(task_list) - 1
          /\ \A i \in 1 .. Len(task_list') : task_list'[i] = task_list[i + 1]
          /\ UNCHANGED <<running, dropped>>
      BY <1>1, SMTT(60) DEF WorkerTake
    <2>2. \A i, j \in 1 .. Len(task_list') : task_list'[i] = task_list'[j] => i = j
      BY <2>1, SMTT(60) DEF Owned
    <2>3. \A i \in 1 .. Len(task_list'), v \in Workers : task'[v] # task_list'[i]
      BY <2>1, SMTT(60) DEF Owned
    <2>4. \A u, v \in Workers : task'[u] = task'[v] /\ task'[u] # NULL => u = v
      BY <2>1, SMTT(60) DEF Owned
    <2>5. running' => dropped' = {}
      BY <2>1 DEF Owned
    <2> QED  BY <2>2, <2>3, <2>4, <2>5, Zenon DEF Owned
  <1>2. ASSUME NEW w \in Workers, WorkerRun(w) PROVE Owned'
    BY <1>2, SMTT(60) DEF WorkerRun, Owned
  <1>3. ASSUME NEW t \in Tasks, AddTask(t) PROVE Owned'
    <2>1. /\ Len(task_list) \in Nat
          /\ Len(task_list') = Len(task_list) + 1
          /\ \A i \in 1 .. Len(task_list) : task_list'[i] = task_list[i] /\ task_list[i] # t
          /\ task_list'[Len(task_list) + 1] = t
          /\ \A w \in Workers : task[w] # t
          /\ UNCHANGED <<task, running, dropped>>
      BY <1>3 DEF AddTask, Range
    <2>2. \A i \in 1 .. Len(task_list') : i \in 1 .. Len(task_list) \/ i = Len(task_list) + 1
      BY <2>1, SMTT(60)
    <2> QED  BY <2>1, <2>2, SMTT(60) DEF Owned
  <1>4. CASE UNCHANGED <<task_list, task>> /\ (running' => running /\ UNCHANGED dropped)
    BY <1>4, SMTT(60) DEF Owned
  <1>5. ASSUME NEW w \in Workers, Create(w) \/ Worker(w), ~WorkerTake(w), ~WorkerRun(w)
        PROVE  Owned'
    BY <1>4, <1>5, WorkerQuiet
  <1>6. CASE Client
    BY <1>4, <1>6 DEF Client, CreateReturn, WaitCall, WaitTest, WaitBlock, WaitReturn,
                      DestoryStop, DestoryUnlock, DestoryFree
  <1>7. CASE Spurious \/ Ended \/ UNCHANGED vars
    BY <1>4, <1>7 DEF Spurious, Ended, vars
  <1> QED  BY <1>1, <1>2, <1>3, <1>5, <1>6, <1>7, SMTT(60) DEF Next

LEMMA StepSimulation == IInv /\ Owned /\ [Next]_vars => [Abstract!Next]_Abstract!vars
  <1> SUFFICES ASSUME IInv, Owned, [Next]_vars PROVE [Abstract!Next]_Abstract!vars
    BY SMTT(60)
  <1> USE MainAssumption, NullAssumption DEF IInv, TypeOK, Threads, counts, conds, Goto
  <1>1. ASSUME NEW w \in Workers, WorkerTake(w) PROVE Abstract!Start
    <2>1. task[w] = NULL
      BY <1>1 DEF WorkerTake, Entering, Holding
    <2>2. task' = [task EXCEPT ![w] = Head(task_list)] /\ Head(task_list) \in Tasks
      BY <1>1 DEF WorkerTake
    <2>3. Range(task') \ {NULL} = (Range(task) \ {NULL}) \cup {Head(task_list)}
      BY <2>1, <2>2 DEF Range
    <2> QED  BY <1>1, <2>3, Zenon DEF WorkerTake, Abstract!Start
  <1>2. ASSUME NEW w \in Workers, WorkerRun(w) PROVE \E t \in Tasks : Abstract!Finish(t)
    <2>1. task[w] \in Tasks /\ task[w] # NULL
      BY <1>2, SMTT(60) DEF WorkerRun, Holding
    <2>2. task' = [task EXCEPT ![w] = NULL]
      BY <1>2, SMTT(60) DEF WorkerRun
    <2>3. Range(task') \ {NULL} = (Range(task) \ {NULL}) \ {task[w]}
      BY <2>1, <2>2 DEF Range, Owned
    <2>4. task[w] \in Range(task) \ {NULL}
      BY <2>1, SMTT(60) DEF Range
    <2>5. Abstract!Finish(task[w])
      BY <1>2, <2>3, <2>4, Zenon DEF WorkerRun, Abstract!Finish
    <2> QED  BY <2>1, <2>5
  <1>3. ASSUME NEW t \in Tasks, AddTask(t) PROVE Abstract!Add(t)
    <2>1. running /\ dropped = {}
      BY <1>3 DEF AddTask, Phase, Owned
    <2>2. t \notin Range(task_list) \cup (Range(task) \ {NULL}) \cup done \cup dropped
      BY <1>3, <2>1 DEF AddTask
    <2>3. UNCHANGED <<running, task, done, dropped>> /\ task_list' = Append(task_list, t)
      BY <1>3 DEF AddTask
    <2>4. /\ (IF running THEN task_list ELSE <<>>) = task_list
          /\ (IF running' THEN task_list' ELSE <<>>) = Append(task_list, t)
      BY <2>1, <2>3, SMTT(60)
    <2>5. t \notin Abstract!Range(task_list) \cup (Range(task) \ {NULL}) \cup done \cup dropped
      BY <2>2 DEF Abstract!Range, Range
    <2> QED  BY <2>1, <2>3, <2>4, <2>5, Zenon DEF Abstract!Add
  <1>4. CASE DestoryStop
    <2>1. running /\ ~running' /\ dropped = {} /\ dropped' = Range(task_list)
      BY <1>4 DEF DestoryStop, Phase, Owned
    <2>2. /\ Len(task_list) \in 0 .. Len(task_list)
          /\ SubSeq(task_list, 1, Len(task_list)) = task_list
          /\ SubSeq(task_list, Len(task_list) + 1, Len(task_list)) = <<>>
      BY SMTT(60)
    <2>3. /\ (IF running THEN task_list ELSE <<>>) = task_list
          /\ (IF running' THEN task_list' ELSE <<>>) = <<>>
          /\ running' = FALSE
          /\ UNCHANGED <<task, done>>
      BY <1>4, <2>1 DEF DestoryStop
    <2>4. /\ dropped' = dropped \cup
                Abstract!Range(SubSeq(IF running THEN task_list ELSE <<>>, 1, Len(task_list)))
          /\ (IF running' THEN task_list' ELSE <<>>) =
                SubSeq(IF running THEN task_list ELSE <<>>, Len(task_list) + 1,
                       Len(IF running THEN task_list ELSE <<>>))
      <3>1. Abstract!Range(task_list) = Range(task_list)
        BY DEF Abstract!Range, Range
      <3> QED  BY <2>1, <2>2, <2>3, <3>1, Zenon
    <2>5. Abstract!Drop(Len(task_list))
      BY <2>3, <2>4, SMTT(60) DEF Abstract!Drop
    <2> QED  BY <2>2, <2>3, <2>5, SMTT(60) DEF Abstract!Next
  <1>5. CASE UNCHANGED <<task_list, running, task, done, dropped>>
    BY <1>5, SMTT(60) DEF Abstract!vars
  <1>6. ASSUME NEW w \in Workers, Create(w) \/ Worker(w), ~WorkerTake(w), ~WorkerRun(w)
        PROVE  UNCHANGED <<task_list, running, task, done, dropped>>
    BY <1>6, WorkerQuiet
  <1>7. CASE Client /\ ~DestoryStop
    BY <1>5, <1>7, SMTT(60) DEF Client, CreateReturn, WaitCall, WaitTest, WaitBlock, WaitReturn,
                      DestoryUnlock, DestoryFree
  <1>8. CASE Spurious \/ Ended \/ UNCHANGED vars
    BY <1>5, <1>8 DEF Spurious, Ended, vars
  <1> QED  BY <1>1, <1>2, <1>3, <1>4, <1>5, <1>6, <1>7, <1>8 DEF Next, Abstract!Next

(* thread_pool01 implements the abstract pool. *)
THEOREM Refinement == Spec => Implements
  <1>1. Init => Owned
    BY NullAssumption DEF Init, Owned
  <1>2. Init => Abstract!Init
    <2> SUFFICES ASSUME Init PROVE Abstract!Init
      OBVIOUS
    <2>1. Range(task) \ {NULL} = {}
      BY DEF Init, Range
    <2> QED  BY <2>1 DEF Init, Abstract!Init
  <1> QED  BY <1>1, <1>2, Invariance, OwnedStep, StepSimulation, PTL
           DEF Spec, Implements, Abstract!Spec
=============================================================================
