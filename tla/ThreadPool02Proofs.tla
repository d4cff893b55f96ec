------------------------- MODULE ThreadPool02Proofs -------------------------
(***************************************************************************)
(* Proofs about ThreadPool02, for any finite number of workers and tasks.  *)
(***************************************************************************)
EXTENDS ThreadPool02, FiniteSetTheorems, SequenceTheorems, TLAPS

(* The workers counted in working_threads and in alive_threads. *)
Working == {w \in Workers : pc[w] \in {"pull", "run", "finish"}}
Alive == {w \in Workers : pc[w] \in {"loop", "sem", "asleep", "check", "count",
                                     "pull", "run", "finish", "leave"}}

Counters == /\ working_threads = Cardinality(Working)
            /\ alive_threads = Cardinality(Alive)

(* Where Main is, and what that says about the pool. *)
Phase == /\ alive <=> pc[Main] \notin {"post", "clear", "freed"}
         /\ pc[Main] # "create" => \A w \in Workers : pc[w] \notin {"unborn", "failed", "enter"}
         /\ pc[Main] \in {"clear", "freed"} => Alive = {}
         /\ pc[Main] \notin {"clear", "freed"} => dropped = {}

(* The mutex of the pool. *)
Mutex == /\ pc[Main] \in {"wait_working", "block", "wait_return"} => locked
         /\ \A w \in Workers : pc[w] = "left" =>
               /\ locked
               /\ pc[Main] \notin {"wait_working", "block", "wait_return"}
               /\ \A v \in Workers : pc[v] = "left" => v = w

(* What Main has read under the mutex still holds: only Main adds jobs, and *)
(* a worker is counted while it can pull one.                               *)
Seen == /\ pc[Main] \in {"wait_working", "wait_return"} => queue = <<>>
        /\ pc[Main] = "wait_return" => Working = {}
        /\ Main \in cond => pc[Main] = "wait_asleep"
        /\ pc[Main] = "block" \/ Main \in cond => queue # <<>> \/ working_threads > 0

(* A worker has a task exactly while it runs it. *)
Holding == \A w \in Workers : task[w] # NULL <=> pc[w] = "run"

IInv == TypeOK /\ Counters /\ Phase /\ Mutex /\ Seen /\ Holding

----------------------------------------------------------------------------
(* Sets of workers are finite and have a size. *)
LEMMA WorkerSets ==
    ASSUME NEW S, S \subseteq Workers
    PROVE  IsFiniteSet(S) /\ Cardinality(S) \in Nat
  BY WorkersAssumption, FS_Subset, FS_CardinalityType

(* One worker more, one worker less. *)
LEMMA OneMore ==
    ASSUME NEW S, S \subseteq Workers, NEW w \in Workers, w \notin S
    PROVE  Cardinality(S \cup {w}) = Cardinality(S) + 1
  BY WorkerSets, FS_AddElement

LEMMA OneLess ==
    ASSUME NEW S, S \subseteq Workers, NEW w \in S
    PROVE  /\ Cardinality(S) >= 1
           /\ Cardinality(S \ {w}) = Cardinality(S) - 1
  <1>1. IsFiniteSet(S \ {w}) /\ Cardinality(S \ {w}) = Cardinality(S) - 1
    BY WorkerSets, FS_RemoveElement
  <1>2. Cardinality(S \ {w}) \in Nat /\ Cardinality(S) \in Nat
    BY <1>1, WorkerSets, FS_CardinalityType
  <1> QED  BY <1>1, <1>2

LEMMA Zero ==
    ASSUME NEW S, S \subseteq Workers
    PROVE  Cardinality(S) = 0 <=> S = {}
  BY WorkerSets, FS_EmptySet

(* pthread_cond_signal wakes threads, it never blocks one. *)
LEMMA SignalledSubset == \A ws : \A s \in Sem!Signalled(ws) : s \subseteq ws
  BY DEF Sem!Signalled

(* A post leaves has_job a Boolean and blocks no worker. *)
LEMMA PostType ==
    ASSUME TypeOK, Sem!Post \/ UNCHANGED sem
    PROVE  has_job' \in BOOLEAN /\ has_job_cond' \subseteq Workers
  BY SignalledSubset, Zenon DEF TypeOK, Sem!Post, sem

----------------------------------------------------------------------------
LEMMA InitInv == Init => IInv
  <1> SUFFICES ASSUME Init PROVE IInv
    OBVIOUS
  <1> USE MainAssumption, NullAssumption DEF Init, Sem!Init
  <1>1. Working = {} /\ Alive = {} /\ Cardinality({}) = 0
    BY FS_EmptySet DEF Working, Alive, Threads
  <1>2. TypeOK
    <2>1. pc \in [Threads -> WorkerPC \cup MainPC]
      BY DEF WorkerPC, MainPC
    <2>2. pc[Main] \in MainPC /\ \A w \in Workers : pc[w] \in WorkerPC
      BY DEF WorkerPC, MainPC, Threads
    <2>3. queue \in Seq(Tasks)
      OBVIOUS
    <2> QED  BY <2>1, <2>2, <2>3, Zenon DEF TypeOK
  <1>3. Phase /\ Mutex /\ Seen /\ Holding
    BY DEF Phase, Mutex, Seen, Holding, Threads
  <1>4. Counters
    BY <1>1 DEF Counters
  <1> QED  BY <1>2, <1>3, <1>4 DEF IInv

(* working_threads and alive_threads follow the workers. *)
LEMMA WorkingStep == IInv /\ [Next]_vars => working_threads' = Cardinality(Working')
  <1> SUFFICES ASSUME IInv, [Next]_vars PROVE working_threads' = Cardinality(Working')
    OBVIOUS
  <1> USE MainAssumption DEF IInv, TypeOK, Threads, threads, Goto
  <1>0. Working \subseteq Workers /\ Cardinality(Working) \in Nat /\ working_threads = Cardinality(Working)
    BY WorkerSets DEF Working, Counters
  <1>1. ASSUME NEW w \in Workers, WorkerCount(w) PROVE working_threads' = Cardinality(Working')
    <2>1. Working' = Working \cup {w} /\ w \notin Working
      BY <1>1 DEF WorkerCount, Working
    <2> QED  BY <1>0, <1>1, <2>1, OneMore DEF WorkerCount
  <1>2. ASSUME NEW w \in Workers, WorkerFinish(w) PROVE working_threads' = Cardinality(Working')
    <2>1. Working' = Working \ {w} /\ w \in Working
      BY <1>2 DEF WorkerFinish, Working
    <2> QED  BY <1>0, <1>2, <2>1, OneLess DEF WorkerFinish
  <1>3. CASE UNCHANGED working_threads /\ Working' = Working
    BY <1>0, <1>3, SMTT(60)
  <1>4. ASSUME NEW w \in Workers, Create(w) \/ Worker(w), ~WorkerCount(w), ~WorkerFinish(w)
        PROVE  UNCHANGED working_threads /\ Working' = Working
    BY <1>4, SMTT(60) DEF Create, Worker, WorkerEnter, WorkerLoop, WorkerSem, WorkerCheck, WorkerPull,
                WorkerRun, WorkerLeave, WorkerUnlock, Working
  <1>5. CASE Client
    BY <1>3, <1>5, SMTT(60) DEF Client, InCall, CreateSpin, CreateReturn, WaitCall, WaitLength, WaitWorking,
                      WaitBlock, WaitReturn, DestoryStop, DestoryPost, DestoryClear, ClearPull,
                      DestoryFree, vars, Working
  <1>6. CASE Spurious \/ Ended \/ UNCHANGED vars \/ \E t \in Tasks : AddTask(t)
    BY <1>3, <1>6 DEF Spurious, Ended, vars, AddTask, Working
  <1> QED  BY <1>1, <1>2, <1>3, <1>4, <1>5, <1>6, SMTT(60) DEF Next

LEMMA AliveStep == IInv /\ [Next]_vars => alive_threads' = Cardinality(Alive')
  <1> SUFFICES ASSUME IInv, [Next]_vars PROVE alive_threads' = Cardinality(Alive')
    OBVIOUS
  <1> USE MainAssumption DEF IInv, TypeOK, Threads, threads, Goto
  <1>0. Alive \subseteq Workers /\ Cardinality(Alive) \in Nat /\ alive_threads = Cardinality(Alive)
    BY WorkerSets DEF Alive, Counters
  <1>1. ASSUME NEW w \in Workers, WorkerEnter(w) PROVE alive_threads' = Cardinality(Alive')
    <2>1. Alive' = Alive \cup {w} /\ w \notin Alive
      BY <1>1 DEF WorkerEnter, Alive
    <2> QED  BY <1>0, <1>1, <2>1, OneMore DEF WorkerEnter
  <1>2. ASSUME NEW w \in Workers, WorkerLeave(w) PROVE alive_threads' = Cardinality(Alive')
    <2>1. Alive' = Alive \ {w} /\ w \in Alive
      BY <1>2 DEF WorkerLeave, Alive
    <2> QED  BY <1>0, <1>2, <2>1, OneLess DEF WorkerLeave
  <1>3. CASE UNCHANGED alive_threads /\ Alive' = Alive
    BY <1>0, <1>3, SMTT(60)
  <1>4. ASSUME NEW w \in Workers, Create(w) \/ Worker(w), ~WorkerEnter(w), ~WorkerLeave(w)
        PROVE  UNCHANGED alive_threads /\ Alive' = Alive
    BY <1>4, SMTT(60) DEF Create, Worker, WorkerFinish, WorkerLoop, WorkerSem, WorkerCheck, WorkerPull,
                WorkerRun, WorkerCount, WorkerUnlock, Alive
  <1>5. CASE Client
    BY <1>3, <1>5, SMTT(60) DEF Client, InCall, CreateSpin, CreateReturn, WaitCall, WaitLength, WaitWorking,
                      WaitBlock, WaitReturn, DestoryStop, DestoryPost, DestoryClear, ClearPull,
                      DestoryFree, vars, Alive
  <1>6. CASE Spurious \/ Ended \/ UNCHANGED vars \/ \E t \in Tasks : AddTask(t)
    BY <1>3, <1>6, SMTT(60) DEF Spurious, Ended, vars, AddTask, Alive
  <1> QED  BY <1>1, <1>2, <1>3, <1>4, <1>5, <1>6, SMTT(60) DEF Next

(* Every step keeps the types. *)
LEMMA TypeStep == IInv /\ [Next]_vars => TypeOK'
  <1> SUFFICES ASSUME IInv, [Next]_vars PROVE TypeOK'
    OBVIOUS
  <1> USE MainAssumption, NullAssumption DEF IInv, Threads, threads, Goto
  <1>1. ASSUME NEW w \in Workers, Create(w) PROVE TypeOK'
    BY <1>1 DEF Create, TypeOK, WorkerPC, sem
  <1>2. ASSUME NEW w \in Workers, WorkerEnter(w) \/ WorkerLoop(w) \/ WorkerCheck(w) \/ WorkerCount(w)
        PROVE  TypeOK'
    BY <1>2 DEF WorkerEnter, WorkerLoop, WorkerCheck, WorkerCount, TypeOK, WorkerPC, sem
  <1>3. ASSUME NEW w \in Workers, WorkerSem(w) PROVE TypeOK'
    BY <1>3 DEF WorkerSem, Sem!WaitPass, Sem!WaitBlock, TypeOK, WorkerPC
  <1>4. ASSUME NEW w \in Workers, WorkerPull(w) PROVE TypeOK'
    <2>1. has_job' \in BOOLEAN /\ has_job_cond' \subseteq Workers
      BY <1>4, PostType DEF WorkerPull
    <2>2. queue' \in Seq(Tasks) /\ task' \in [Workers -> Tasks \cup {NULL}]
      BY <1>4, SMTT(60) DEF WorkerPull, TypeOK
    <2>3. /\ pc' \in [Threads -> WorkerPC \cup MainPC]
          /\ pc'[Main] \in MainPC /\ \A v \in Workers : pc'[v] \in WorkerPC
      BY <1>4, SMTT(60) DEF WorkerPull, TypeOK, WorkerPC
    <2> QED  BY <1>4, <2>1, <2>2, <2>3, SMTT(60) DEF WorkerPull, TypeOK
  <1>5. ASSUME NEW w \in Workers, WorkerRun(w) PROVE TypeOK'
    BY <1>5 DEF WorkerRun, TypeOK, WorkerPC, sem, Holding
  <1>6. ASSUME NEW w \in Workers, WorkerFinish(w) PROVE TypeOK'
    <2>1. working_threads' \in Nat
      <3>1. w \in Working /\ Working \subseteq Workers
        BY <1>6 DEF WorkerFinish, Working
      <3>2. working_threads >= 1
        BY <3>1, OneLess, Zenon DEF Counters
      <3> QED  BY <1>6, <3>2 DEF WorkerFinish, TypeOK
    <2>2. cond' \subseteq {Main}
      BY <1>6, SignalledSubset DEF WorkerFinish, TypeOK
    <2> QED  BY <1>6, <2>1, <2>2 DEF WorkerFinish, TypeOK, WorkerPC, sem
  <1>7. ASSUME NEW w \in Workers, WorkerLeave(w) PROVE TypeOK'
    <2>1. w \in Alive /\ Alive \subseteq Workers
      BY <1>7 DEF WorkerLeave, Alive
    <2>2. alive_threads >= 1
      BY <2>1, OneLess, Zenon DEF Counters
    <2> QED  BY <1>7, <2>2 DEF WorkerLeave, TypeOK, WorkerPC, sem
  <1>8. ASSUME NEW w \in Workers, WorkerUnlock(w) PROVE TypeOK'
    BY <1>8, Zenon DEF WorkerUnlock, TypeOK, WorkerPC, sem
  <1>9. ASSUME NEW t \in Tasks, AddTask(t) PROVE TypeOK'
    <2>1. has_job' \in BOOLEAN /\ has_job_cond' \subseteq Workers
      BY <1>9, PostType DEF AddTask
    <2>2. queue' \in Seq(Tasks)
      BY <1>9 DEF AddTask, TypeOK
    <2> QED  BY <1>9, <2>1, <2>2 DEF AddTask, TypeOK
  <1>10. CASE CreateSpin \/ Ended \/ UNCHANGED vars
    BY <1>10, SMTT(60) DEF CreateSpin, Ended, vars, TypeOK, sem
  <1>11. CASE CreateReturn \/ WaitCall \/ WaitLength \/ WaitWorking \/ WaitBlock \/ WaitReturn
    BY <1>11, Zenon DEF CreateReturn, WaitCall, WaitLength, WaitWorking, WaitBlock, WaitReturn,
                 TypeOK, MainPC, sem
  <1>12. CASE DestoryStop \/ DestoryPost \/ DestoryClear \/ DestoryFree
    BY <1>12, Zenon DEF DestoryStop, DestoryPost, DestoryClear, DestoryFree, Sem!PostAll, Sem!Reset,
                 TypeOK, MainPC, sem
  <1>13. CASE ClearPull
    <2>1. has_job' \in BOOLEAN /\ has_job_cond' \subseteq Workers
      BY <1>13, PostType DEF ClearPull
    <2>2. queue' \in Seq(Tasks) /\ dropped' \subseteq Tasks
      BY <1>13 DEF ClearPull, TypeOK
    <2> QED  BY <1>13, <2>1, <2>2 DEF ClearPull, TypeOK
  <1>14. CASE Spurious
    BY <1>14, SMTT(60) DEF Spurious, TypeOK
  <1> QED  BY <1>1, <1>2, <1>3, <1>4, <1>5, <1>6, <1>7, <1>8, <1>9, <1>10, <1>11, <1>12, <1>13, <1>14, SMTT(60)
           DEF Next, Worker, Client, InCall

(* What holds of Main's phase, of the mutex and of the tasks held. *)
LEMMA PhaseStep == IInv /\ [Next]_vars => Phase'
  <1> SUFFICES ASSUME IInv, [Next]_vars PROVE Phase'
    OBVIOUS
  <1> USE MainAssumption DEF IInv, TypeOK, Threads, threads, Goto, Phase
  <1>1. ASSUME NEW w \in Workers, Create(w) PROVE Phase'
    BY <1>1, SMTT(60) DEF Create, Alive
  <1>2. ASSUME NEW w \in Workers, Worker(w) PROVE Phase'
    BY <1>2 DEF Worker, WorkerEnter, WorkerLoop, WorkerSem, WorkerCheck, WorkerCount, WorkerPull,
                WorkerRun, WorkerFinish, WorkerLeave, WorkerUnlock, Alive
  <1>3. CASE CreateReturn
    <2>1. Alive \subseteq Workers /\ Cardinality(Alive) = Cardinality(Workers)
      BY <1>3 DEF CreateReturn, Counters, Alive
    <2>2. Alive = Workers
      BY <2>1, WorkersAssumption, FS_Subset, SMTT(60)
    <2> QED  BY <1>3, <2>2 DEF CreateReturn, Alive
  <1>4. CASE DestoryClear
    <2>1. Alive = {}
      <3>1. Cardinality(Alive) \in Nat /\ Alive \subseteq Workers
        BY WorkerSets, SMTT(60) DEF Alive
      <3> QED  BY <1>4, <3>1, Zero DEF DestoryClear, Counters
    <2> QED  BY <1>4, <2>1 DEF DestoryClear, Alive
  <1>5. CASE CreateSpin \/ Spurious \/ Ended \/ UNCHANGED vars \/ \E t \in Tasks : AddTask(t)
    BY <1>5, SMTT(60) DEF CreateSpin, Spurious, Ended, vars, AddTask, Alive
  <1>6. CASE WaitCall \/ WaitLength \/ WaitWorking \/ WaitBlock \/ WaitReturn
    BY <1>6, SMTT(60) DEF WaitCall, WaitLength, WaitWorking, WaitBlock, WaitReturn, Alive
  <1>7. CASE DestoryStop \/ DestoryPost \/ ClearPull \/ DestoryFree
    BY <1>7 DEF DestoryStop, DestoryPost, ClearPull, DestoryFree, Alive
  <1> QED  BY <1>1, <1>2, <1>3, <1>4, <1>5, <1>6, <1>7, SMTT(60) DEF Next, Client, InCall

LEMMA MutexHoldingStep == IInv /\ [Next]_vars => Mutex' /\ Holding'
  <1> SUFFICES ASSUME IInv, [Next]_vars PROVE Mutex' /\ Holding'
    BY SMTT(60)
  <1> USE MainAssumption, NullAssumption DEF IInv, TypeOK, Threads, threads, Goto
  <1>1. ASSUME NEW w \in Workers, Create(w) \/ Worker(w) PROVE Mutex'
    BY <1>1, SMTT(60) DEF Create, Worker, WorkerEnter, WorkerLoop, WorkerSem, WorkerCheck, WorkerCount,
                WorkerPull, WorkerRun, WorkerFinish, WorkerLeave, WorkerUnlock, Mutex
  <1>2. ASSUME NEW w \in Workers, Create(w) \/ (Worker(w) /\ ~WorkerPull(w)) PROVE Holding'
    BY <1>2 DEF Create, Worker, WorkerEnter, WorkerLoop, WorkerSem, WorkerCheck, WorkerCount,
                WorkerRun, WorkerFinish, WorkerLeave, WorkerUnlock, Holding
  <1>3. ASSUME NEW w \in Workers, WorkerPull(w) PROVE Holding'
    <2>1. queue # <<>> => Head(queue) \in Tasks
      BY SMTT(60)
    <2> QED  BY <1>3, <2>1 DEF WorkerPull, Holding
  <1>4. CASE \/ CreateSpin \/ CreateReturn \/ Spurious \/ Ended \/ UNCHANGED vars
             \/ \E t \in Tasks : AddTask(t)
    BY <1>4, SMTT(60) DEF CreateSpin, CreateReturn, Spurious, Ended, vars, AddTask, Mutex, Holding
  <1>5. CASE WaitCall \/ WaitLength \/ WaitWorking \/ WaitBlock \/ WaitReturn
    BY <1>5, SMTT(60) DEF WaitCall, WaitLength, WaitWorking, WaitBlock, WaitReturn, Mutex, Holding
  <1>6. CASE DestoryStop \/ DestoryPost \/ DestoryClear \/ ClearPull \/ DestoryFree
    BY <1>6, SMTT(60) DEF DestoryStop, DestoryPost, DestoryClear, ClearPull, DestoryFree, Mutex, Holding
  <1> QED  BY <1>1, <1>2, <1>3, <1>4, <1>5, <1>6, SMTT(60) DEF Next, Client, InCall

(* What ThreadPoolWait has seen stays true until it gives up the mutex, and *)
(* a blocked ThreadPoolWait has something to wait for.                      *)
LEMMA SeenStep == IInv /\ [Next]_vars => Seen'
  <1> SUFFICES ASSUME IInv, [Next]_vars PROVE Seen'
    OBVIOUS
  <1> USE MainAssumption DEF IInv, TypeOK, Threads, threads, Goto, Seen
  <1>0. working_threads = 0 <=> Working = {}
    BY Zero DEF Counters, Working
  <1>1. ASSUME NEW w \in Workers, Create(w) PROVE Seen'
    BY <1>1, SMTT(60) DEF Create, Working
  <1>2. ASSUME NEW w \in Workers, WorkerEnter(w) \/ WorkerLoop(w) \/ WorkerSem(w) \/ WorkerCheck(w)
                                  \/ WorkerRun(w) \/ WorkerLeave(w) \/ WorkerUnlock(w)
        PROVE  Seen'
    BY <1>2 DEF WorkerEnter, WorkerLoop, WorkerSem, WorkerCheck, WorkerRun, WorkerLeave,
                WorkerUnlock, Working
  <1>3. ASSUME NEW w \in Workers, WorkerCount(w) PROVE Seen'
    BY <1>3, SMTT(60) DEF WorkerCount, Mutex
  <1>4. ASSUME NEW w \in Workers, WorkerPull(w) PROVE Seen'
    <2>1. w \in Working /\ working_threads > 0
      BY <1>0, <1>4, SMTT(60) DEF WorkerPull, Working
    <2> QED  BY <1>4, <2>1, SMTT(60) DEF WorkerPull, Working
  <1>5. ASSUME NEW w \in Workers, WorkerFinish(w) PROVE Seen'
    <2>1. working_threads' = 0 => cond' = {}
      BY <1>5 DEF WorkerFinish, Sem!Signalled
    <2>2. working_threads' \in Nat /\ cond' \subseteq cond
      <3>1. TypeOK'
        BY <1>5, TypeStep, SMTT(60) DEF Next, Worker
      <3>2. cond' \subseteq cond
        BY <1>5, SignalledSubset, SMTT(60) DEF WorkerFinish
      <3> QED  BY <3>1, <3>2, SMTT(60) DEF TypeOK
    <2> QED  BY <1>5, <2>1, <2>2, SMTT(60) DEF WorkerFinish, Mutex
  <1>6. CASE WaitCall \/ WaitLength \/ WaitWorking \/ WaitBlock \/ WaitReturn
    BY <1>0, <1>6, SMTT(60) DEF WaitCall, WaitLength, WaitWorking, WaitBlock, WaitReturn, Working
  <1>7. CASE DestoryStop \/ DestoryPost \/ DestoryClear \/ DestoryFree \/ CreateReturn \/ CreateSpin
    BY <1>7, SMTT(60) DEF DestoryStop, DestoryPost, DestoryClear, DestoryFree, CreateReturn, CreateSpin,
                Working, vars
  <1>8. CASE Spurious \/ Ended \/ UNCHANGED vars
    BY <1>8 DEF Spurious, Ended, vars, Working
  <1>9. ASSUME NEW t \in Tasks, AddTask(t) PROVE Seen'
    BY <1>9 DEF AddTask, Working
  <1>10. CASE ClearPull
    BY <1>10 DEF ClearPull, Working
  <1> QED  BY <1>1, <1>2, <1>3, <1>4, <1>5, <1>6, <1>7, <1>8, <1>9, <1>10, ZenonT(60)
           DEF Next, Worker, Client, InCall

(* The inductive invariant of the pool: the counters count the workers that *)
(* are where the code says they are counted, the mutex excludes what it     *)
(* must, and ThreadPoolWait's observations hold.                            *)
THEOREM Invariance == Spec => []IInv
  <1>1. IInv /\ [Next]_vars => IInv'
    BY WorkingStep, AliveStep, TypeStep, PhaseStep, MutexHoldingStep, SeenStep DEF IInv, Counters
  <1> QED  BY InitInv, <1>1, PTL DEF Spec

----------------------------------------------------------------------------
(* No counter goes below zero, no NULL task is called. *)
THEOREM TypeCorrect == Spec => []TypeOK
  BY Invariance, PTL DEF IInv

(* ThreadPoolWait returns only when all tasks have run: length is 0 and no  *)
(* worker is between its increment and its decrement of working_threads, so *)
(* none holds a task.                                                       *)
THEOREM WaitWaitsForTasks == Spec => []WaitMeansDone
  <1>1. IInv => WaitMeansDone
    <2> SUFFICES ASSUME IInv, pc[Main] = "wait_return" PROVE Added \subseteq done
      BY DEF WaitMeansDone
    <2>1. Range(queue) = {} /\ dropped = {}
      BY DEF IInv, Seen, Phase, Range
    <2>2. Range(task) \subseteq {NULL}
      BY SMTT(60) DEF IInv, Seen, Holding, Working, TypeOK, Range
    <2> QED  BY <2>1, <2>2 DEF Added
  <1> QED  BY Invariance, <1>1, PTL

(* ThreadPoolDestory frees nothing a worker still uses, but for the mutex   *)
(* of the last unlock.                                                      *)
THEOREM DestoryWaitsForWorkers == Spec => []FreedOnlyWhenLeft
  <1>1. IInv => FreedOnlyWhenLeft
    BY DEF IInv, Phase, Alive, TypeOK, WorkerPC, FreedOnlyWhenLeft
  <1> QED  BY Invariance, <1>1, PTL

(* A blocked ThreadPoolWait is always waiting for something. *)
THEOREM NoLostFinish == Spec => []WaiterCovered
  <1>1. IInv => WaiterCovered
    BY DEF IInv, Seen, WaiterCovered
  <1> QED  BY Invariance, <1>1, PTL

----------------------------------------------------------------------------
(* A task is queued once, or in the hands of one worker. *)
Owned == /\ \A i, j \in 1 .. Len(queue) : queue[i] = queue[j] => i = j
         /\ \A i \in 1 .. Len(queue), w \in Workers : task[w] # queue[i]
         /\ \A v, w \in Workers : task[v] = task[w] /\ task[v] # NULL => v = w

LEMMA OwnedStep == IInv /\ Owned /\ [Next]_vars => Owned'
  <1> SUFFICES ASSUME IInv, Owned, [Next]_vars PROVE Owned'
    BY SMTT(60)
  <1> USE MainAssumption, NullAssumption DEF IInv, TypeOK, Threads, threads, Goto
  <1>1. ASSUME NEW w \in Workers, WorkerPull(w), queue # <<>> PROVE Owned'
    <2>0. queue' = Tail(queue) /\ task' = [task EXCEPT ![w] = Head(queue)]
      BY <1>1 DEF WorkerPull
    <2>1. /\ queue \in Seq(Tasks) /\ Len(queue) \in Nat /\ Len(queue) >= 1
          /\ task' = [task EXCEPT ![w] = queue[1]]
          /\ Len(queue') = Len(queue) - 1
          /\ \A i \in 1 .. Len(queue') : queue'[i] = queue[i + 1]
      BY <1>1, <2>0, SMTT(60)
    <2>2. \A i, j \in 1 .. Len(queue') : queue'[i] = queue'[j] => i = j
      BY <2>1 DEF Owned
    <2>3. \A i \in 1 .. Len(queue'), v \in Workers : task'[v] # queue'[i]
      BY <2>1, SMTT(60) DEF Owned
    <2>4. \A u, v \in Workers : task'[u] = task'[v] /\ task'[u] # NULL => u = v
      BY <2>1, SMTT(60) DEF Owned
    <2> QED  BY <2>2, <2>3, <2>4, SMTT(60) DEF Owned
  <1>2. ASSUME NEW w \in Workers, WorkerRun(w) PROVE Owned'
    BY <1>2 DEF WorkerRun, Owned
  <1>3. ASSUME NEW t \in Tasks, AddTask(t) PROVE Owned'
    <2>1. /\ Len(queue) \in Nat
          /\ Len(queue') = Len(queue) + 1
          /\ \A i \in 1 .. Len(queue) : queue'[i] = queue[i] /\ queue[i] # t
          /\ queue'[Len(queue) + 1] = t
          /\ \A w \in Workers : task[w] # t
          /\ UNCHANGED task
      BY <1>3 DEF AddTask, Range
    <2>2. \A i \in 1 .. Len(queue') : i \in 1 .. Len(queue) \/ i = Len(queue) + 1
      BY <2>1, SMTT(60)
    <2> QED  BY <2>1, <2>2, SMTT(60) DEF Owned
  <1>4. CASE ClearPull
    <2>1. /\ Len(queue) \in Nat
          /\ Len(queue') = Len(queue) - 1
          /\ \A i \in 1 .. Len(queue') : queue'[i] = queue[i + 1] /\ i + 1 \in 1 .. Len(queue)
          /\ UNCHANGED task
      BY <1>4 DEF ClearPull
    <2> QED  BY <2>1, SMTT(60) DEF Owned
  <1>5. CASE UNCHANGED <<queue, task>>
    BY <1>5 DEF Owned
  <1>6. ASSUME NEW w \in Workers, Create(w) \/ Worker(w), ~WorkerRun(w), ~(WorkerPull(w) /\ queue # <<>>)
        PROVE  Owned'
    BY <1>5, <1>6, SMTT(60) DEF Create, Worker, WorkerEnter, WorkerLoop, WorkerSem, WorkerCheck, WorkerCount,
                      WorkerPull, WorkerFinish, WorkerLeave, WorkerUnlock
  <1>7. CASE Client /\ ~ClearPull
    BY <1>5, <1>7, SMTT(60) DEF Client, InCall, CreateSpin, CreateReturn, WaitCall, WaitLength, WaitWorking,
                      WaitBlock, WaitReturn, DestoryStop, DestoryPost, DestoryClear, DestoryFree, vars
  <1>8. CASE Spurious \/ Ended \/ UNCHANGED vars
    BY <1>5, <1>8, SMTT(60) DEF Spurious, Ended, vars
  <1> QED  BY <1>1, <1>2, <1>3, <1>4, <1>6, <1>7, <1>8, SMTT(60) DEF Next

LEMMA StepSimulation == IInv /\ Owned /\ [Next]_vars => [Abstract!Next]_Abstract!vars
  <1> SUFFICES ASSUME IInv, Owned, [Next]_vars PROVE [Abstract!Next]_Abstract!vars
    BY SMTT(60)
  <1> USE MainAssumption, NullAssumption DEF IInv, TypeOK, Threads, threads, Goto
  <1>1. ASSUME NEW w \in Workers, WorkerPull(w), queue # <<>> PROVE Abstract!Start
    <2>1. task[w] = NULL
      BY <1>1 DEF WorkerPull, Holding
    <2>2. task' = [task EXCEPT ![w] = Head(queue)] /\ Head(queue) \in Tasks
      BY <1>1 DEF WorkerPull
    <2>3. Range(task') \ {NULL} = (Range(task) \ {NULL}) \cup {Head(queue)}
      BY <2>1, <2>2 DEF Range
    <2> QED  BY <1>1, <2>3, SMTT(60) DEF WorkerPull, Abstract!Start
  <1>2. ASSUME NEW w \in Workers, WorkerRun(w) PROVE \E t \in Tasks : Abstract!Finish(t)
    <2>1. task[w] \in Tasks /\ task[w] # NULL
      BY <1>2 DEF WorkerRun, Holding
    <2>2. task' = [task EXCEPT ![w] = NULL]
      BY <1>2 DEF WorkerRun
    <2>3. Range(task') \ {NULL} = (Range(task) \ {NULL}) \ {task[w]}
      BY <2>1, <2>2 DEF Range, Owned
    <2>4. task[w] \in Range(task) \ {NULL}
      BY <2>1, SMTT(60) DEF Range
    <2>5. Abstract!Finish(task[w])
      BY <1>2, <2>3, <2>4, Zenon DEF WorkerRun, Abstract!Finish
    <2> QED  BY <2>1, <2>5, SMTT(60)
  <1>3. ASSUME NEW t \in Tasks, AddTask(t) PROVE Abstract!Add(t)
    <2>1. alive /\ dropped = {}
      BY <1>3 DEF AddTask, Phase
    <2>2. t \notin Abstract!Range(queue) \cup (Range(task) \ {NULL}) \cup done \cup dropped
      BY <1>3, <2>1 DEF AddTask, Abstract!Range, Range
    <2>3. UNCHANGED <<alive, task, done, dropped>> /\ queue' = Append(queue, t)
      BY <1>3 DEF AddTask
    <2> QED  BY <2>1, <2>2, <2>3, Zenon DEF Abstract!Add
  <1>4. CASE ClearPull
    <2>0. queue # <<>> /\ queue \in Seq(Tasks)
      BY <1>4 DEF ClearPull
    <2>1. /\ 1 \in 0 .. Len(queue)
          /\ SubSeq(queue, 1, 1) = <<Head(queue)>>
          /\ SubSeq(queue, 1 + 1, Len(queue)) = Tail(queue)
      <3>1. 1 \in 0 .. Len(queue)
        BY <2>0
      <3>2. SubSeq(queue, 1, 1) = <<Head(queue)>>
        <4>1. /\ SubSeq(queue, 1, 1) \in Seq(Tasks) /\ Len(SubSeq(queue, 1, 1)) = 1
              /\ SubSeq(queue, 1, 1)[1] = queue[1]
          BY <2>0, <3>1
        <4>2. /\ <<Head(queue)>> \in Seq(Tasks) /\ Len(<<Head(queue)>>) = 1
              /\ <<Head(queue)>>[1] = queue[1]
          BY <2>0
        <4> DEFINE s == SubSeq(queue, 1, 1)
                   t == <<Head(queue)>>
        <4>3. s \in Seq(Tasks) /\ t \in Seq(Tasks) /\ Len(s) = 1 /\ Len(t) = 1 /\ s[1] = t[1]
          BY <4>1, <4>2, SMTT(60)
        <4> HIDE DEF s, t
        <4>4. Len(s) = Len(t) /\ \A i \in 1 .. Len(s) : s[i] = t[i]
          BY <4>3
        <4>5. s = t
          BY <4>3, <4>4, SeqEqual, SMTT(60)
        <4> QED  BY <4>5 DEF s, t
      <3>3. SubSeq(queue, 2, Len(queue)) = Tail(queue)
        BY <2>0, TailIsSubSeq
      <3> QED  BY <3>1, <3>2, <3>3
    <2>2. Abstract!Range(<<Head(queue)>>) = {Head(queue)}
      BY DEF Abstract!Range
    <2>3. UNCHANGED <<task, done>> /\ alive' = FALSE
      BY <1>4 DEF ClearPull, Phase
    <2>4. /\ dropped' = dropped \cup Abstract!Range(SubSeq(queue, 1, 1))
          /\ queue' = SubSeq(queue, 1 + 1, Len(queue))
      BY <1>4, <2>1, <2>2, Zenon DEF ClearPull
    <2>5. Abstract!Drop(1)
      BY <2>3, <2>4, Zenon DEF Abstract!Drop
    <2> QED  BY <2>1, <2>5, SMTT(60) DEF Abstract!Next
  <1>5. CASE DestoryStop
    <2>1. /\ 0 \in 0 .. Len(queue)
          /\ SubSeq(queue, 1, 0) = <<>>
          /\ SubSeq(queue, 0 + 1, Len(queue)) = queue
      OBVIOUS
    <2>2. Abstract!Range(<<>>) = {}
      BY DEF Abstract!Range
    <2>3. UNCHANGED <<task, done>> /\ alive' = FALSE
      BY <1>5 DEF DestoryStop
    <2>4. /\ dropped' = dropped \cup Abstract!Range(SubSeq(queue, 1, 0))
          /\ queue' = SubSeq(queue, 0 + 1, Len(queue))
      BY <1>5, <2>1, <2>2, ZenonT(60) DEF DestoryStop
    <2>5. Abstract!Drop(0)
      BY <2>3, <2>4, Zenon DEF Abstract!Drop
    <2> QED  BY <2>1, <2>5 DEF Abstract!Next
  <1>6. CASE UNCHANGED <<queue, alive, task, done, dropped>>
    BY <1>6 DEF Abstract!vars
  <1>7. ASSUME NEW w \in Workers, Create(w) \/ Worker(w), ~WorkerRun(w), ~(WorkerPull(w) /\ queue # <<>>)
        PROVE  UNCHANGED <<queue, alive, task, done, dropped>>
    BY <1>7 DEF Create, Worker, WorkerEnter, WorkerLoop, WorkerSem, WorkerCheck, WorkerCount,
                WorkerPull, WorkerFinish, WorkerLeave, WorkerUnlock
  <1>8. CASE Client /\ ~ClearPull /\ ~DestoryStop
    BY <1>6, <1>8, SMTT(60) DEF Client, InCall, CreateSpin, CreateReturn, WaitCall, WaitLength, WaitWorking,
                      WaitBlock, WaitReturn, DestoryPost, DestoryClear, DestoryFree, vars
  <1>9. CASE Spurious \/ Ended \/ UNCHANGED vars
    BY <1>6, <1>9 DEF Spurious, Ended, vars
  <1> QED  BY <1>1, <1>2, <1>3, <1>4, <1>5, <1>6, <1>7, <1>8, <1>9, SMTT(60) DEF Next, Abstract!Next

(* thread_pool02 implements the abstract pool. *)
THEOREM Refinement == Spec => Implements
  <1>1. Init => Owned
    BY NullAssumption DEF Init, Owned
  <1>2. Init => Abstract!Init
    <2> SUFFICES ASSUME Init PROVE Abstract!Init
      OBVIOUS
    <2>1. Range(task) \ {NULL} = {}
      BY DEF Init, Range
    <2> QED  BY <2>1 DEF Init, Abstract!Init
  <1> QED  BY <1>1, <1>2, Invariance, OwnedStep, StepSimulation, PTL
           DEF Spec, Implements, Abstract!Spec
=============================================================================
