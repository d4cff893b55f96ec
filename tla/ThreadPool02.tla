---------------------------- MODULE ThreadPool02 ----------------------------
(***************************************************************************)
(* thread_pool02: the pool (thread_pool.c, thread.c) over its job queue    *)
(* (job_queue.c, here the sequence that module JobQueue implements) and the*)
(* queue's semaphore has_job (module BinarySemaphore).                     *)
(*                                                                         *)
(* Critical sections of the queue's mutex are single steps: the only access*)
(* outside it is ThreadPoolWait's read of length.  The pool's mutex is the *)
(* variable locked, because it is held while ThreadPoolWait reads two      *)
(* variables and while a worker's last decrement is already visible to     *)
(* ThreadPoolDestory, which reads alive_threads without it.  A condition   *)
(* variable is the set of threads blocked on it.                           *)
(*                                                                         *)
(* The client is one thread, Main: it adds tasks and waits in any order,   *)
(* and then destroys the pool.                                             *)
(***************************************************************************)
EXTENDS Integers, Sequences, FiniteSets, Functions

CONSTANTS Workers,        \* the threads ThreadPoolCreate asks for
          Tasks,          \* the tasks the client may add
          Main,           \* the client's thread
          NULL,
          CreateMayFail   \* may ThreadCreate or pthread_create fail?

ASSUME WorkersAssumption == IsFiniteSet(Workers)
ASSUME MainAssumption == Main \notin Workers
ASSUME NullAssumption == NULL \notin Tasks
ASSUME CreateMayFailAssumption == CreateMayFail \in BOOLEAN

VARIABLES alive, alive_threads, working_threads,   \* struct ThreadPool
          locked, cond,                            \* its mutex and cond
          queue,                                   \* the jobs from front to last
          has_job, has_job_cond,                   \* the semaphore
          pc,             \* where each thread is
          task,           \* Worker's local variable task
          done,           \* tasks whose function was called
          dropped         \* tasks JobQueueClear has freed

sem == <<has_job, has_job_cond>>
threads == <<alive_threads, working_threads>>
vars == <<alive, threads, locked, cond, queue, sem, pc, task, done, dropped>>

Sem == INSTANCE BinarySemaphore WITH value <- has_job, cond <- has_job_cond

Threads == Workers \cup {Main}
WorkerPC == {"unborn", "failed", "enter", "loop", "sem", "asleep", "check", "count",
             "pull", "run", "finish", "leave", "left", "gone"}
MainPC == {"create", "idle", "wait", "wait_working", "block", "wait_asleep",
           "wait_return", "post", "clear", "freed"}

(* The variables have their types. *)
TypeOK ==
    /\ alive \in BOOLEAN /\ locked \in BOOLEAN /\ has_job \in BOOLEAN
    /\ alive_threads \in Nat /\ working_threads \in Nat
    /\ cond \subseteq {Main} /\ has_job_cond \subseteq Workers
    /\ queue \in Seq(Tasks)
    /\ pc \in [Threads -> WorkerPC \cup MainPC]
    /\ pc[Main] \in MainPC /\ \A w \in Workers : pc[w] \in WorkerPC
    /\ task \in [Workers -> Tasks \cup {NULL}]
    /\ done \subseteq Tasks /\ dropped \subseteq Tasks

Goto(t, from, to) == pc[t] = from /\ pc' = [pc EXCEPT ![t] = to]

(* The pool as ThreadPoolCreate sets it up before it starts the threads. *)
Init == /\ alive = TRUE
        /\ alive_threads = 0 /\ working_threads = 0
        /\ locked = FALSE /\ cond = {}
        /\ queue = <<>>
        /\ Sem!Init
        /\ pc = [t \in Threads |-> IF t = Main THEN "create" ELSE "unborn"]
        /\ task = [w \in Workers |-> NULL]
        /\ done = {} /\ dropped = {}

----------------------------------------------------------------------------
(* ThreadCreate; a thread that cannot be created goes unnoticed. *)
Create(w) == /\ pc[Main] = "create"
             /\ \/ Goto(w, "unborn", "enter")
                \/ CreateMayFail /\ Goto(w, "unborn", "failed")
             /\ UNCHANGED <<alive, threads, locked, cond, queue, sem, task, done, dropped>>

(* The client spins until every thread has counted itself. *)
CreateReturn == /\ \A w \in Workers : pc[w] # "unborn"
                /\ alive_threads = Cardinality(Workers)
                /\ Goto(Main, "create", "idle")
                /\ UNCHANGED <<alive, threads, locked, cond, queue, sem, task, done, dropped>>

CreateSpin == /\ pc[Main] = "create" /\ alive_threads # Cardinality(Workers)
              /\ \A w \in Workers : pc[w] # "unborn"
              /\ UNCHANGED vars

----------------------------------------------------------------------------
(* Worker *)
WorkerEnter(w) == /\ ~locked
                  /\ Goto(w, "enter", "loop")
                  /\ alive_threads' = alive_threads + 1
                  /\ UNCHANGED <<alive, working_threads, locked, cond, queue, sem, task, done, dropped>>

(* while (pool->alive), read without the mutex. *)
WorkerLoop(w) == /\ Goto(w, "loop", IF alive THEN "sem" ELSE "leave")
                 /\ UNCHANGED <<alive, threads, locked, cond, queue, sem, task, done, dropped>>

(* BinarySemaphoreWait *)
WorkerSem(w) == /\ pc[w] \in {"sem", "asleep"}
                /\ \/ Sem!WaitPass(w) /\ pc' = [pc EXCEPT ![w] = "check"]
                   \/ Sem!WaitBlock(w) /\ pc' = [pc EXCEPT ![w] = "asleep"]
                /\ UNCHANGED <<alive, threads, locked, cond, queue, task, done, dropped>>

(* if (pool->alive), again without the mutex. *)
WorkerCheck(w) == /\ Goto(w, "check", IF alive THEN "count" ELSE "loop")
                  /\ UNCHANGED <<alive, threads, locked, cond, queue, sem, task, done, dropped>>

WorkerCount(w) == /\ ~locked
                  /\ Goto(w, "count", "pull")
                  /\ working_threads' = working_threads + 1
                  /\ UNCHANGED <<alive, alive_threads, locked, cond, queue, sem, task, done, dropped>>

(* Mutant: JobQueuePull leaves the last job in the queue. *)
WorkerPullKeepsLast(w) ==
    /\ pc[w] = "pull"
    /\ IF queue = <<>>
       THEN /\ pc' = [pc EXCEPT ![w] = "finish"]
            /\ UNCHANGED <<queue, task>>
       ELSE /\ pc' = [pc EXCEPT ![w] = "run"]
            /\ task' = [task EXCEPT ![w] = Head(queue)]
            /\ queue' = IF Len(queue) = 1 THEN queue ELSE Tail(queue)
    /\ IF Len(queue) > 1 THEN Sem!Post ELSE UNCHANGED sem
    /\ UNCHANGED <<alive, threads, locked, cond, done, dropped>>

(* JobQueuePull *)
WorkerPull(w) == /\ pc[w] = "pull"
                 /\ IF queue = <<>>
                    THEN /\ pc' = [pc EXCEPT ![w] = "finish"]
                         /\ UNCHANGED <<queue, task>>
                    ELSE /\ pc' = [pc EXCEPT ![w] = "run"]
                         /\ task' = [task EXCEPT ![w] = Head(queue)]
                         /\ queue' = Tail(queue)
                 /\ IF Len(queue) > 1 THEN Sem!Post ELSE UNCHANGED sem
                 /\ UNCHANGED <<alive, threads, locked, cond, done, dropped>>

WorkerRun(w) == /\ Goto(w, "run", "finish")
                /\ done' = done \cup {task[w]}
                /\ task' = [task EXCEPT ![w] = NULL]
                /\ UNCHANGED <<alive, threads, locked, cond, queue, sem, dropped>>

(* Mutant: the test for the last worker comes before the decrement. *)
WorkerFinishTestsFirst(w) ==
    /\ ~locked
    /\ Goto(w, "finish", "loop")
    /\ working_threads' = working_threads - 1
    /\ IF working_threads = 0 THEN cond' \in Sem!Signalled(cond) ELSE UNCHANGED cond
    /\ UNCHANGED <<alive, alive_threads, locked, queue, sem, task, done, dropped>>

WorkerFinish(w) == /\ ~locked
                   /\ Goto(w, "finish", "loop")
                   /\ working_threads' = working_threads - 1
                   /\ IF working_threads' = 0 THEN cond' \in Sem!Signalled(cond) ELSE UNCHANGED cond
                   /\ UNCHANGED <<alive, alive_threads, locked, queue, sem, task, done, dropped>>

(* The decrement is visible to ThreadPoolDestory before the unlock. *)
WorkerLeave(w) == /\ ~locked /\ locked' = TRUE
                  /\ Goto(w, "leave", "left")
                  /\ alive_threads' = alive_threads - 1
                  /\ UNCHANGED <<alive, working_threads, cond, queue, sem, task, done, dropped>>

WorkerUnlock(w) == /\ Goto(w, "left", "gone")
                   /\ locked' = FALSE
                   /\ UNCHANGED <<alive, threads, cond, queue, sem, task, done, dropped>>

Worker(w) == \/ WorkerEnter(w) \/ WorkerLoop(w) \/ WorkerSem(w) \/ WorkerCheck(w)
             \/ WorkerCount(w) \/ WorkerPull(w) \/ WorkerRun(w) \/ WorkerFinish(w)
             \/ WorkerLeave(w) \/ WorkerUnlock(w)

----------------------------------------------------------------------------
(* ThreadPoolAddTask and JobQueuePush. *)
AddTask(t) == /\ pc[Main] = "idle"
              /\ t \notin Range(queue) \cup Range(task) \cup done
              /\ queue' = Append(queue, t)
              /\ Sem!Post
              /\ UNCHANGED <<alive, threads, locked, cond, pc, task, done, dropped>>

(* ThreadPoolWait reads length and then working_threads, with the mutex of  *)
(* the pool but not that of the queue.                                      *)
WaitCall == /\ Goto(Main, "idle", "wait")
            /\ UNCHANGED <<alive, threads, locked, cond, queue, sem, task, done, dropped>>

WaitLength == /\ ~locked /\ locked' = TRUE
              /\ pc[Main] = "wait" \/ (pc[Main] = "wait_asleep" /\ Main \notin cond)
              /\ pc' = [pc EXCEPT ![Main] = IF queue # <<>> THEN "block" ELSE "wait_working"]
              /\ UNCHANGED <<alive, threads, cond, queue, sem, task, done, dropped>>

(* Mutant: ThreadPoolWait looks at the queue only. *)
WaitWorkingIgnored ==
    /\ Goto(Main, "wait_working", "wait_return")
    /\ UNCHANGED <<alive, threads, locked, cond, queue, sem, task, done, dropped>>

WaitWorking == /\ Goto(Main, "wait_working", IF working_threads > 0 THEN "block" ELSE "wait_return")
               /\ UNCHANGED <<alive, threads, locked, cond, queue, sem, task, done, dropped>>

WaitBlock == /\ Goto(Main, "block", "wait_asleep")
             /\ cond' = cond \cup {Main}
             /\ locked' = FALSE
             /\ UNCHANGED <<alive, threads, queue, sem, task, done, dropped>>

WaitReturn == /\ Goto(Main, "wait_return", "idle")
              /\ locked' = FALSE
              /\ UNCHANGED <<alive, threads, cond, queue, sem, task, done, dropped>>

(* ThreadPoolDestory *)
DestoryStop == /\ Goto(Main, "idle", "post")
               /\ alive' = FALSE
               /\ UNCHANGED <<threads, locked, cond, queue, sem, task, done, dropped>>

(* Mutant: ThreadPoolDestory waits without waking the workers. *)
DestoryPostSilent == /\ pc[Main] = "post" /\ alive_threads > 0
                     /\ UNCHANGED vars

DestoryPost == /\ pc[Main] = "post" /\ alive_threads > 0
               /\ Sem!PostAll
               /\ UNCHANGED <<alive, threads, locked, cond, queue, pc, task, done, dropped>>

(* Mutant: ThreadPoolDestory posts once and does not wait. *)
DestoryClearAtOnce ==
    /\ Goto(Main, "post", "clear")
    /\ UNCHANGED <<alive, threads, locked, cond, queue, sem, task, done, dropped>>

DestoryClear == /\ Goto(Main, "post", "clear")
                /\ alive_threads <= 0
                /\ UNCHANGED <<alive, threads, locked, cond, queue, sem, task, done, dropped>>

(* JobQueueClear pulls and frees what is left. *)
ClearPull == /\ pc[Main] = "clear" /\ queue # <<>>
             /\ dropped' = dropped \cup {Head(queue)}
             /\ queue' = Tail(queue)
             /\ IF Len(queue) > 1 THEN Sem!Post ELSE UNCHANGED sem
             /\ UNCHANGED <<alive, threads, locked, cond, pc, task, done>>

DestoryFree == /\ queue = <<>>
               /\ Goto(Main, "clear", "freed")
               /\ Sem!Reset
               /\ UNCHANGED <<alive, threads, locked, cond, queue, task, done, dropped>>

InCall == CreateReturn \/ WaitLength \/ WaitWorking \/ WaitBlock \/ WaitReturn
          \/ DestoryPost \/ DestoryClear \/ ClearPull \/ DestoryFree
Client == CreateSpin \/ InCall \/ WaitCall \/ DestoryStop

(* A thread blocked on a condition variable may wake up for no reason. *)
Spurious == /\ \/ \E w \in has_job_cond : has_job_cond' = has_job_cond \ {w} /\ UNCHANGED cond
               \/ Main \in cond /\ cond' = {} /\ UNCHANGED has_job_cond
            /\ UNCHANGED <<alive, threads, locked, queue, has_job, pc, task, done, dropped>>

(* The program has ended. *)
Ended == /\ pc[Main] = "freed" /\ \A w \in Workers : pc[w] = "gone"
         /\ UNCHANGED vars

Next == \/ \E w \in Workers : Create(w) \/ Worker(w)
        \/ \E t \in Tasks : AddTask(t)
        \/ Client
        \/ Spurious
        \/ Ended

Spec == Init /\ [][Next]_vars

(* A thread that has started is scheduled, and gets a mutex that is free    *)
(* again and again.  The client need not call anything, but goes on inside  *)
(* a call.  Nothing is assumed of spurious wakeups.                         *)
Fairness == /\ \A w \in Workers : WF_vars(Create(w)) /\ SF_vars(Worker(w))
            /\ SF_vars(InCall)
FairSpec == Spec /\ Fairness

----------------------------------------------------------------------------
Added == Range(queue) \cup (Range(task) \ {NULL}) \cup done \cup dropped

(* When ThreadPoolWait returns, every task the client had added has run,    *)
(* although length and working_threads are read one after the other: a      *)
(* worker counts itself before it pulls a job.                              *)
WaitMeansDone == pc[Main] = "wait_return" => Added \subseteq done

(* When ThreadPoolDestory clears and frees the pool, no worker will touch   *)
(* the queue, the semaphore or a counter again.  All that may still touch   *)
(* the freed pool is the unlock that ends Worker.                           *)
FreedOnlyWhenLeft == pc[Main] \in {"clear", "freed"} => \A w \in Workers : pc[w] \in {"left", "gone"}

(* No lost wakeup of ThreadPoolWait: while the client is blocked, a worker  *)
(* is counted as working or a job is queued, and the worker that brings     *)
(* working_threads to 0 signals.                                            *)
WaiterCovered == Main \in cond => queue # <<>> \/ working_threads > 0

(* The pool behaves as TaskPool says: FIFO, at most once, and only tasks no *)
(* worker has taken are freed, after ThreadPoolDestory was called.          *)
Abstract == INSTANCE TaskPool WITH
              started <- Range(task) \ {NULL},
              open <- alive
Implements == Abstract!Spec

(* ThreadPoolDestory returns. *)
DestoryReturns == (pc[Main] = "post") ~> (pc[Main] = "freed")

(* ThreadPoolWait returns. *)
WaitReturns == (pc[Main] = "wait") ~> (pc[Main] = "idle")
=============================================================================
