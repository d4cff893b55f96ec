------------------------------ MODULE TaskPool ------------------------------
(***************************************************************************)
(* What both thread pools of the repository (thread_pool01, thread_pool02) *)
(* promise to a client, without threads, locks or condition variables:     *)
(* tasks are started in the order they were added, each is run at most     *)
(* once, and a task is thrown away only once the client has called         *)
(* ThreadPoolDestory and only if no thread had taken it.                   *)
(***************************************************************************)
EXTENDS Naturals, Sequences, Functions

CONSTANT Tasks

VARIABLES queue,     \* tasks added and not yet taken, oldest first
          started,   \* tasks taken by a thread and not yet finished
          done,      \* tasks whose function has returned
          dropped,   \* tasks freed without being run
          open       \* FALSE once ThreadPoolDestory has taken effect

vars == <<queue, started, done, dropped, open>>

Init == /\ queue = <<>>
        /\ started = {} /\ done = {} /\ dropped = {}
        /\ open = TRUE

(* Every call adds a task of its own: the pool allocates it. *)
Add(t) == /\ open
          /\ t \notin Range(queue) \cup started \cup done \cup dropped
          /\ queue' = Append(queue, t)
          /\ UNCHANGED <<started, done, dropped, open>>

Start == /\ queue # <<>>
         /\ started' = started \cup {Head(queue)}
         /\ queue' = Tail(queue)
         /\ UNCHANGED <<done, dropped, open>>

Finish(t) == /\ t \in started
             /\ started' = started \ {t}
             /\ done' = done \cup {t}
             /\ UNCHANGED <<queue, dropped, open>>

(* The pool is being destroyed, and the n oldest queued tasks are freed. *)
Drop(n) == /\ open' = FALSE
           /\ dropped' = dropped \cup Range(SubSeq(queue, 1, n))
           /\ queue' = SubSeq(queue, n + 1, Len(queue))
           /\ UNCHANGED <<started, done>>

Next == \/ \E t \in Tasks : Add(t) \/ Finish(t)
        \/ Start
        \/ \E n \in 0 .. Len(queue) : Drop(n)

Spec == Init /\ [][Next]_vars
=============================================================================
