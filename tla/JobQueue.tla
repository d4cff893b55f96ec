------------------------------ MODULE JobQueue ------------------------------
(***************************************************************************)
(* thread_pool02/job_queue.c: the linked list behind the pool's queue.     *)
(*                                                                         *)
(* Push and Pull are critical sections of the queue's mutex, so each is a  *)
(* step.  A job is an address that ThreadPoolAddTask allocates and that    *)
(* Worker (or JobQueueClear) frees after the pull; a freed address may be  *)
(* handed out again, and its next field keeps what was last written there. *)
(* The semaphore has_job is left to ThreadPool02.                          *)
(***************************************************************************)
EXTENDS Integers, Sequences

CONSTANTS Jobs,   \* the addresses malloc hands out
          NULL

ASSUME NullAssumption == NULL \notin Jobs

VARIABLES front, last, length,   \* struct JobQueue
          next,                  \* job->next
          use,                   \* "free", "queued" or "held" by a puller
          job,                   \* what the last JobQueuePull returned
          clearing,              \* JobQueueClear runs
          order                  \* history: the jobs pushed and not pulled

vars == <<front, last, length, next, use, job, clearing, order>>

(* The variables have their types. *)
TypeOK == /\ front \in Jobs \cup {NULL} /\ last \in Jobs \cup {NULL} /\ job \in Jobs \cup {NULL}
          /\ length \in Nat
          /\ next \in [Jobs -> Jobs \cup {NULL}]
          /\ use \in [Jobs -> {"free", "queued", "held"}]
          /\ clearing \in BOOLEAN
          /\ order \in Seq(Jobs)

(* JobQueueCreate *)
Init == /\ front = NULL /\ last = NULL /\ length = 0
        /\ next \in [Jobs -> Jobs \cup {NULL}]
        /\ use = [j \in Jobs |-> "free"]
        /\ job = NULL /\ clearing = FALSE /\ order = <<>>

----------------------------------------------------------------------------
(* Mutant: last is set only when the queue was empty. *)
PushKeepsLast(j) ==
    /\ ~clearing /\ use[j] = "free"
    /\ IF length = 0
       THEN /\ next' = [next EXCEPT ![j] = NULL]
            /\ front' = j /\ last' = j
       ELSE /\ next' = [next EXCEPT ![j] = NULL, ![last] = j]
            /\ UNCHANGED <<front, last>>
    /\ length' = length + 1
    /\ use' = [use EXCEPT ![j] = "queued"]
    /\ order' = Append(order, j)
    /\ UNCHANGED <<job, clearing>>

(* ThreadPoolAddTask allocates j; JobQueuePush. *)
Push(j) ==
    /\ ~clearing /\ use[j] = "free"
    /\ IF length = 0
       THEN /\ next' = [next EXCEPT ![j] = NULL]
            /\ front' = j
       ELSE /\ next' = [next EXCEPT ![j] = NULL, ![last] = j]
            /\ UNCHANGED front
    /\ last' = j
    /\ length' = length + 1
    /\ use' = [use EXCEPT ![j] = "queued"]
    /\ order' = Append(order, j)
    /\ UNCHANGED <<job, clearing>>

(* Mutant: the two cases of JobQueuePull are told apart by 2. *)
UnlinkOffByOne ==
    /\ job' = front
    /\ IF length <= 2
       THEN front' = NULL /\ last' = NULL /\ length' = 0
       ELSE front' = next[front] /\ length' = length - 1 /\ UNCHANGED last

(* The part of JobQueuePull for a queue that is not empty. *)
Unlink ==
    /\ job' = front
    /\ IF length = 1
       THEN front' = NULL /\ last' = NULL /\ length' = 0
       ELSE front' = next[front] /\ length' = length - 1 /\ UNCHANGED last

(* JobQueuePull, called by Worker. *)
Pull ==
    /\ ~clearing
    /\ IF length = 0
       THEN job' = NULL /\ UNCHANGED <<front, last, length, use, order>>
       ELSE /\ Unlink
            /\ use' = [use EXCEPT ![front] = "held"]
            /\ order' = Tail(order)
    /\ UNCHANGED <<next, clearing>>

(* Worker frees the job it has run. *)
Free(j) ==
    /\ use[j] = "held"
    /\ use' = [use EXCEPT ![j] = "free"]
    /\ UNCHANGED <<front, last, length, next, job, clearing, order>>

(* JobQueueClear, from JobQueueDestory: one turn of its loop, and the end.  *)
(* ThreadPoolDestory calls it when every worker has freed its job.          *)
ClearPull ==
    /\ length > 0 /\ \A j \in Jobs : use[j] # "held"
    /\ clearing' = TRUE
    /\ Unlink
    /\ use' = [use EXCEPT ![front] = "free"]
    /\ order' = Tail(order)
    /\ UNCHANGED next

Cleared ==
    /\ length = 0 /\ \A j \in Jobs : use[j] # "held"
    /\ clearing' = TRUE
    /\ front' = NULL /\ last' = NULL
    /\ UNCHANGED <<length, next, use, job, order>>

Next == \/ \E j \in Jobs : Push(j) \/ Free(j)
        \/ Pull
        \/ ClearPull
        \/ Cleared

Spec == Init /\ [][Next]_vars

----------------------------------------------------------------------------
(* The list is the queue: following next from front gives the jobs in the   *)
(* order of the pushes, last is the newest of them, the length is right,    *)
(* and only jobs that are allocated and not handed out are linked.  The     *)
(* write to last->next in JobQueuePush rests on it.                         *)
LinkedList ==
    /\ length = Len(order)
    /\ front = IF order = <<>> THEN NULL ELSE order[1]
    /\ last = IF order = <<>> THEN NULL ELSE order[Len(order)]
    /\ \A i \in 1 .. Len(order) - 1 : next[order[i]] = order[i + 1]
    /\ \A i \in 1 .. Len(order) : use[order[i]] = "queued"

(* JobQueuePush and JobQueuePull behave as a FIFO queue. *)
Abstract == INSTANCE Fifo WITH items <- order, out <- job
Implements == Abstract!Spec
=============================================================================
