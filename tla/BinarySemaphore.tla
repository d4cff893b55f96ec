-------------------------- MODULE BinarySemaphore ---------------------------
(***************************************************************************)
(* thread_pool02/semaphore.c.  Every operation is one critical section of  *)
(* the semaphore's mutex, which is held across no other step, so the mutex *)
(* is not a variable.  BinarySemaphoreWait leaves value TRUE: once posted, *)
(* the semaphore lets everybody pass until it is reset.                    *)
(***************************************************************************)
VARIABLES value,   \* bs->value
          cond     \* the threads blocked on bs->cond

Init == value = FALSE /\ cond = {}

(* The threads left blocked by pthread_cond_signal. *)
Signalled(waiters) == IF waiters = {} THEN {{}}
                      ELSE {waiters \ {t} : t \in waiters}

Post == value' = TRUE /\ cond' \in Signalled(cond)

PostAll == value' = TRUE /\ cond' = {}

(* BinarySemaphoreWait returns, or blocks; t takes either step when it      *)
(* enters and whenever it is woken.                                         *)
WaitPass(t) == t \notin cond /\ value /\ UNCHANGED <<value, cond>>

WaitBlock(t) == t \notin cond /\ ~value /\ cond' = cond \cup {t} /\ UNCHANGED value

Reset == value' = FALSE /\ cond' = {}
=============================================================================
