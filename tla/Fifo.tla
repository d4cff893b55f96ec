-------------------------------- MODULE Fifo --------------------------------
(***************************************************************************)
(* What thread_pool02's job queue promises: a pull returns the oldest job  *)
(* that was pushed and not yet pulled, or NULL if there is none.           *)
(***************************************************************************)
EXTENDS Sequences

CONSTANTS Jobs, NULL

VARIABLES items,   \* the jobs in the queue, oldest first
          out      \* what the last pull returned

Init == items = <<>> /\ out = NULL

Push(j) == items' = Append(items, j) /\ UNCHANGED out

Pull == IF items = <<>> THEN out' = NULL /\ UNCHANGED items
        ELSE out' = Head(items) /\ items' = Tail(items)

Next == Pull \/ \E j \in Jobs : Push(j)

Spec == Init /\ [][Next]_<<items, out>>
=============================================================================
