---------------------------- MODULE ThreadPool01 ----------------------------
(***************************************************************************)
(* thread_pool01/thread_pool.c: detached threads that take tasks from a    *)
(* linked list protected by one mutex and two condition variables.         *)
(*                                                                         *)
(* The mutex is a bit, not an owner: a thread that leaves Worker's loop    *)
(* through the loop condition reaches the last unlock without holding the  *)
(* mutex, and glibc's default mutex is then released whoever holds it.     *)
(* On that path the decrement of thread_count is a data race, hence a load *)
(* and a store.  Nothing of this can happen while running is TRUE, so the  *)
(* critical sections entered while it is TRUE are single steps; the ones   *)
(* that can overlap the shutdown are split.  working_count is not read any *)
(* more once running is FALSE and its updates stay whole.                  *)
(*                                                                         *)
(* A condition variable is the set of threads blocked on it.  A thread that*)
(* is asleep but no longer in the set was woken and wants the mutex back.  *)
(* The client is one thread, Main: it adds tasks and waits in any order,   *)
(* and then destroys the pool.                                             *)
(***************************************************************************)
EXTENDS Integers, Sequences, FiniteSets, Functions

CONSTANTS Workers,        \* the threads ThreadPoolCreate asks for
          Tasks,          \* the tasks the client may add
          Main,           \* the client's thread
          NULL,
          CreateMayFail   \* may pthread_create fail?  (its result is ignored)

ASSUME WorkersAssumption == IsFiniteSet(Workers) /\ Workers # {}
ASSUME MainAssumption == Main \notin Workers
ASSUME NullAssumption == NULL \notin Tasks
ASSUME CreateMayFailAssumption == CreateMayFail \in BOOLEAN

VARIABLES task_list, working_count, thread_count, running,  \* struct ThreadPool
          locked, task_list_cond, finish_cond,
          pc,             \* where each thread is
          task,           \* Worker's local variable task
          tmp,            \* the thread_count a worker has loaded
          done,           \* tasks whose function was called
          dropped         \* tasks ThreadPoolDestory has freed

counts == <<working_count, thread_count>>
conds == <<task_list_cond, finish_cond>>
vars == <<task_list, counts, running, locked, conds, pc, task, tmp, done, dropped>>

Threads == Workers \cup {Main}

WorkerPC == {"unborn", "failed", "head", "lock", "asleep", "run", "relock",
             "finish", "dec", "store", "signal", "release", "gone"}
MainPC == {"create", "idle", "stop", "wait", "block", "wait_asleep",
           "wait_return", "free", "freed"}

(* The variables have their types; in particular the two size_t counters    *)
(* never wrap below zero.                                                  *)
TypeOK ==
    /\ task_list \in Seq(Tasks)
    /\ working_count \in Nat /\ thread_count \in Nat
    /\ running \in BOOLEAN /\ locked \in BOOLEAN
    /\ task_list_cond \subseteq Workers /\ finish_cond \subseteq {Main}
    /\ pc \in [Threads -> WorkerPC \cup MainPC]
    /\ pc[Main] \in MainPC /\ \A w \in Workers : pc[w] \in WorkerPC
    /\ task \in [Workers -> Tasks \cup {NULL}]
    /\ tmp \in [Workers -> Nat]
    /\ done \subseteq Tasks /\ dropped \subseteq Tasks

Goto(t, from, to) == pc[t] = from /\ pc' = [pc EXCEPT ![t] = to]

(* The threads left blocked by pthread_cond_signal. *)
Signalled(waiters) == IF waiters = {} THEN {{}}
                      ELSE {waiters \ {t} : t \in waiters}

(* The pool as ThreadPoolCreate sets it up before it starts the threads.   *)
(* With num = 0, or no memory, there is no pool.                           *)
Init == /\ task_list = <<>>
        /\ working_count = 0
        /\ thread_count = Cardinality(Workers)
        /\ running = TRUE
        /\ locked = FALSE
        /\ task_list_cond = {} /\ finish_cond = {}
        /\ pc = [t \in Threads |-> IF t = Main THEN "create" ELSE "unborn"]
        /\ task = [w \in Workers |-> NULL]
        /\ tmp = [w \in Workers |-> 0]
        /\ done = {} /\ dropped = {}

----------------------------------------------------------------------------
(* ThreadPoolCreate starts the threads; one that could not be created is   *)
(* counted in thread_count all the same.                                   *)
Create(w) == /\ pc[Main] = "create"
             /\ \/ Goto(w, "unborn", "head")
                \/ CreateMayFail /\ Goto(w, "unborn", "failed")
             /\ UNCHANGED <<task_list, counts, running, locked, conds, task, tmp, done, dropped>>

CreateReturn == /\ \A w \in Workers : pc[w] # "unborn"
                /\ Goto(Main, "create", "idle")
                /\ UNCHANGED <<task_list, counts, running, locked, conds, task, tmp, done, dropped>>

----------------------------------------------------------------------------
(* Mutant: the loop condition is the wrong way round. *)
WorkerHeadInverted(w) ==
    /\ Goto(w, "head", IF running THEN "dec" ELSE "lock")
    /\ UNCHANGED <<task_list, counts, running, locked, conds, task, tmp, done, dropped>>

(* Worker.  The loop condition is read without the mutex. *)
WorkerHead(w) == /\ Goto(w, "head", IF running THEN "lock" ELSE "dec")
                 /\ UNCHANGED <<task_list, counts, running, locked, conds, task, tmp, done, dropped>>

(* w takes the mutex, on entry or when woken in pthread_cond_wait. *)
Entering(w) == /\ ~locked
               /\ pc[w] = "lock" \/ (pc[w] = "asleep" /\ w \notin task_list_cond)

WorkerSleep(w) == /\ Entering(w) /\ running /\ task_list = <<>>
                  /\ pc' = [pc EXCEPT ![w] = "asleep"]
                  /\ task_list_cond' = task_list_cond \cup {w}
                  /\ UNCHANGED <<task_list, counts, running, locked, finish_cond, task, tmp, done, dropped>>

(* The break leaves the loop with the mutex held. *)
WorkerBreak(w) == /\ Entering(w) /\ ~running
                  /\ pc' = [pc EXCEPT ![w] = "dec"]
                  /\ locked' = TRUE
                  /\ UNCHANGED <<task_list, counts, running, conds, task, tmp, done, dropped>>

(* Mutant: running is not tested again under the mutex. *)
WorkerTakeUnchecked(w) ==
    /\ Entering(w) /\ task_list # <<>>
    /\ pc' = [pc EXCEPT ![w] = "run"]
    /\ task' = [task EXCEPT ![w] = Head(task_list)]
    /\ task_list' = Tail(task_list)
    /\ working_count' = working_count + 1
    /\ UNCHANGED <<thread_count, running, locked, conds, tmp, done, dropped>>

(* GetWorkerTask, ++working_count and unlock. *)
WorkerTake(w) == /\ Entering(w) /\ running /\ task_list # <<>>
                 /\ pc' = [pc EXCEPT ![w] = "run"]
                 /\ task' = [task EXCEPT ![w] = Head(task_list)]
                 /\ task_list' = Tail(task_list)
                 /\ working_count' = working_count + 1
                 /\ UNCHANGED <<thread_count, running, locked, conds, tmp, done, dropped>>

(* The task's function returns and the task is freed. *)
WorkerRun(w) == /\ Goto(w, "run", "relock")
                /\ done' = done \cup {task[w]}
                /\ task' = [task EXCEPT ![w] = NULL]
                /\ UNCHANGED <<task_list, counts, running, locked, conds, tmp, dropped>>

WorkerRelock(w) == /\ ~locked /\ locked' = TRUE
                   /\ Goto(w, "relock", "finish")
                   /\ UNCHANGED <<task_list, counts, running, conds, task, tmp, done, dropped>>

(* Mutant: the test for the last task comes before the decrement. *)
WorkerFinishTestsFirst(w) ==
    /\ Goto(w, "finish", "head")
    /\ working_count' = working_count - 1
    /\ IF running /\ working_count = 0 /\ task_list = <<>>
       THEN finish_cond' \in Signalled(finish_cond)
       ELSE UNCHANGED finish_cond
    /\ locked' = FALSE
    /\ UNCHANGED <<task_list, thread_count, running, task_list_cond, task, tmp, done, dropped>>

WorkerFinish(w) ==
    /\ Goto(w, "finish", "head")
    /\ working_count' = working_count - 1
    /\ IF running /\ working_count' = 0 /\ task_list = <<>>
       THEN finish_cond' \in Signalled(finish_cond)
       ELSE UNCHANGED finish_cond
    /\ locked' = FALSE
    /\ UNCHANGED <<task_list, thread_count, running, task_list_cond, task, tmp, done, dropped>>

(* --thread_count, with the mutex after WorkerBreak, without it after       *)
(* WorkerHead.                                                             *)
WorkerDecLoad(w) == /\ Goto(w, "dec", "store")
                    /\ tmp' = [tmp EXCEPT ![w] = thread_count]
                    /\ UNCHANGED <<task_list, counts, running, locked, conds, task, done, dropped>>

(* Mutant: a thread counts itself out twice. *)
WorkerDecStoreTwice(w) ==
    /\ Goto(w, "store", "signal")
    /\ thread_count' = tmp[w] - 2
    /\ UNCHANGED <<task_list, working_count, running, locked, conds, task, tmp, done, dropped>>

WorkerDecStore(w) == /\ Goto(w, "store", "signal")
                     /\ thread_count' = tmp[w] - 1
                     /\ UNCHANGED <<task_list, working_count, running, locked, conds, task, tmp, done, dropped>>

WorkerSignal(w) == /\ Goto(w, "signal", "release")
                   /\ finish_cond' \in Signalled(finish_cond)
                   /\ UNCHANGED <<task_list, counts, running, locked, task_list_cond, task, tmp, done, dropped>>

(* The unlock releases the mutex whether or not w holds it. *)
WorkerRelease(w) == /\ Goto(w, "release", "gone")
                    /\ locked' = FALSE
                    /\ UNCHANGED <<task_list, counts, running, conds, task, tmp, done, dropped>>

Worker(w) == \/ WorkerHead(w) \/ WorkerSleep(w) \/ WorkerBreak(w)
             \/ WorkerTake(w) \/ WorkerRun(w) \/ WorkerRelock(w)
             \/ WorkerFinish(w) \/ WorkerDecLoad(w) \/ WorkerDecStore(w)
             \/ WorkerSignal(w) \/ WorkerRelease(w)

----------------------------------------------------------------------------
(* Mutant: only the first task of an empty list is signalled. *)
AddTaskSignalsFirst(t) ==
    /\ pc[Main] = "idle" /\ ~locked
    /\ t \notin Range(task_list) \cup Range(task) \cup done
    /\ task_list' = Append(task_list, t)
    /\ IF task_list = <<>> THEN task_list_cond' \in Signalled(task_list_cond)
       ELSE UNCHANGED task_list_cond
    /\ UNCHANGED <<counts, running, locked, finish_cond, pc, task, tmp, done, dropped>>

(* ThreadPoolAddTask; without memory it returns false and changes nothing. *)
AddTask(t) == /\ pc[Main] = "idle" /\ ~locked
              /\ t \notin Range(task_list) \cup Range(task) \cup done
              /\ task_list' = Append(task_list, t)
              /\ task_list_cond' \in Signalled(task_list_cond)
              /\ UNCHANGED <<counts, running, locked, finish_cond, pc, task, tmp, done, dropped>>

(* ThreadPoolWait, called by the client or by ThreadPoolDestory. *)
WaitCall == /\ Goto(Main, "idle", "wait")
            /\ UNCHANGED <<task_list, counts, running, locked, conds, task, tmp, done, dropped>>

(* Mutant: the shutdown waits for the tasks, not for the threads. *)
MustWaitTasksOnly == working_count > 0

(* Mutant: a wait for an empty list only. *)
MustWaitQueueOnly == \/ running /\ task_list # <<>>
                     \/ ~running /\ thread_count > 0

MustWait == \/ running /\ working_count > 0
            \/ ~running /\ thread_count > 0

WaitTest == /\ ~locked /\ locked' = TRUE
            /\ pc[Main] = "wait" \/ (pc[Main] = "wait_asleep" /\ Main \notin finish_cond)
            /\ pc' = [pc EXCEPT ![Main] = IF MustWait THEN "block" ELSE "wait_return"]
            /\ UNCHANGED <<task_list, counts, running, conds, task, tmp, done, dropped>>

(* pthread_cond_wait; a worker that is leaving may have signalled since     *)
(* WaitTest.                                                               *)
WaitBlock == /\ Goto(Main, "block", "wait_asleep")
             /\ finish_cond' = finish_cond \cup {Main}
             /\ locked' = FALSE
             /\ UNCHANGED <<task_list, counts, running, task_list_cond, task, tmp, done, dropped>>

WaitReturn == /\ Goto(Main, "wait_return", IF running THEN "idle" ELSE "free")
              /\ locked' = FALSE
              /\ UNCHANGED <<task_list, counts, running, conds, task, tmp, done, dropped>>

(* ThreadPoolDestory frees the queued tasks, but leaves task_list pointing  *)
(* at them.                                                                *)
DestoryStop == /\ ~locked /\ locked' = TRUE
               /\ Goto(Main, "idle", "stop")
               /\ dropped' = Range(task_list)
               /\ running' = FALSE
               /\ task_list_cond' = {}
               /\ UNCHANGED <<task_list, counts, finish_cond, task, tmp, done>>

DestoryUnlock == /\ Goto(Main, "stop", "wait")
                 /\ locked' = FALSE
                 /\ UNCHANGED <<task_list, counts, running, conds, task, tmp, done, dropped>>

DestoryFree == /\ Goto(Main, "free", "freed")
               /\ UNCHANGED <<task_list, counts, running, locked, conds, task, tmp, done, dropped>>

Client == \/ CreateReturn \/ WaitCall \/ WaitTest \/ WaitBlock \/ WaitReturn
          \/ DestoryStop \/ DestoryUnlock \/ DestoryFree

(* A thread blocked on a condition variable may wake up for no reason. *)
Spurious == /\ \/ \E w \in task_list_cond : task_list_cond' = task_list_cond \ {w}
                                            /\ UNCHANGED finish_cond
               \/ Main \in finish_cond /\ finish_cond' = {} /\ UNCHANGED task_list_cond
            /\ UNCHANGED <<task_list, counts, running, locked, pc, task, tmp, done, dropped>>

(* The program has ended. *)
Ended == /\ pc[Main] = "freed" /\ \A w \in Workers : pc[w] \in {"gone", "failed"}
         /\ UNCHANGED vars

Next == \/ \E w \in Workers : Create(w) \/ Worker(w)
        \/ \E t \in Tasks : AddTask(t)
        \/ Client
        \/ Spurious
        \/ Ended

Spec == Init /\ [][Next]_vars

(* A thread that has started is scheduled, and gets a mutex that is free    *)
(* again and again.  The client need not call anything, but goes on inside  *)
(* a call.  Nothing is assumed of spurious wakeups.                         *)
InCall == CreateReturn \/ WaitTest \/ WaitBlock \/ WaitReturn \/ DestoryUnlock \/ DestoryFree
Fairness == /\ \A w \in Workers : WF_vars(Create(w)) /\ SF_vars(Worker(w))
            /\ SF_vars(InCall)
FairSpec == Spec /\ Fairness

----------------------------------------------------------------------------
(* Threads that still count themselves in thread_count. *)
Counted == {w \in Workers : pc[w] \notin {"signal", "release", "gone"}}

(* When ThreadPoolDestory frees the pool, every worker has stored its       *)
(* decrement of thread_count: the race on it can only make thread_count too *)
(* large.  All that may still touch the freed pool is the signal and the    *)
(* unlock that end Worker.                                                  *)
FreedOnlyWhenLeaving == pc[Main] \in {"free", "freed"} => Counted = {}

(* Workers that will look at task_list without being signalled. *)
Available == {w \in Workers : \/ pc[w] \in {"head", "lock"}
                              \/ pc[w] = "asleep" /\ w \notin task_list_cond}

(* One signal per ThreadPoolAddTask is enough: no worker is left blocked    *)
(* while there are more queued tasks than workers about to look for one.    *)
EnoughAwake == running /\ task_list_cond # {} => Len(task_list) <= Cardinality(Available)

(* No lost wakeup of ThreadPoolWait before the shutdown: while the client   *)
(* is blocked on finish_cond, a task is running or queued, and the worker   *)
(* that finishes the last one will signal.                                  *)
WaiterCovered == running /\ Main \in finish_cond => working_count > 0 \/ task_list # <<>>

(* When ThreadPoolWait is about to return to the client, no worker is in    *)
(* the middle of a task.  (Tasks may still be queued.)                      *)
WaitReturnsIdle == running /\ pc[Main] = "wait_return" => \A w \in Workers : task[w] = NULL

(* The pool behaves as TaskPool says: FIFO, at most once, and a task freed  *)
(* by ThreadPoolDestory is never taken, though task_list still points to it.*)
Abstract == INSTANCE TaskPool WITH
              queue <- IF running THEN task_list ELSE <<>>,
              started <- Range(task) \ {NULL},
              open <- running
Implements == Abstract!Spec

(* A task that was added is run, unless ThreadPoolDestory frees it or not a *)
(* single thread could be created.                                          *)
TasksRun == \A t \in Tasks :
               (t \in Range(task_list) /\ \E w \in Workers : pc[w] # "failed")
               ~> (t \in done \cup dropped)
=============================================================================
