------------------------------- MODULE EventFd ------------------------------
(***************************************************************************)
(* eventfd01/main.c: the child writes its arguments to an eventfd, which   *)
(* adds them up, and the parent reads it once, after three seconds in      *)
(* which the child may have come any distance.                             *)
(***************************************************************************)
EXTENDS Integers, SequencesExt

CONSTANTS Max64,        \* the largest value of an unsigned long long
          MaxArgs       \* bound on the number of arguments

VARIABLES args, i,      \* the numbers, and which one the child writes next
          counter,      \* of the eventfd
          child,        \* "writes", "returned 0", "returned 1"
          num,          \* what the parent has read
          parent        \* "sleeps", "reads", "returned 0", "off"

vars == <<args, i, counter, child, num, parent>>

At(a, c, p) == args = a /\ i = 1 /\ counter = 0 /\ child = c /\ num = 0 /\ parent = p

Init == \E a \in BoundedSeq(0 .. Max64, MaxArgs) : a # <<>> /\ At(a, "writes", "sleeps")
Off == At(<<>>, "returned 0", "off")

(* The kernel (external): write waits until the sum is below the largest    *)
(* value, which cannot be written at all; read waits for a sum that is not  *)
(* 0 and takes all of it.                                                   *)
Refused(n) == n = Max64
Room(n) == counter + n < Max64

(* Mutant: the eventfd keeps the last value only. *)
WriteReplaces == /\ child = "writes" /\ i <= Len(args) /\ ~Refused(args[i]) /\ Room(args[i])
                 /\ counter' = args[i] /\ i' = i + 1
                 /\ UNCHANGED <<args, child, num, parent>>

Write == /\ child = "writes" /\ i <= Len(args) /\ ~Refused(args[i]) /\ Room(args[i])
         /\ counter' = counter + args[i] /\ i' = i + 1
         /\ UNCHANGED <<args, child, num, parent>>

WriteFails == /\ child = "writes" /\ i <= Len(args) /\ Refused(args[i])
              /\ child' = "returned 1"
              /\ UNCHANGED <<args, i, counter, num, parent>>

Finish == /\ child = "writes" /\ i > Len(args)
          /\ child' = "returned 0"
          /\ UNCHANGED <<args, i, counter, num, parent>>

WakeUp == /\ parent = "sleeps"
          /\ parent' = "reads"
          /\ UNCHANGED <<args, i, counter, child, num>>

Read == /\ parent = "reads" /\ counter > 0
        /\ num' = counter /\ counter' = 0 /\ parent' = "returned 0"
        /\ UNCHANGED <<args, i, child>>

Child == Write \/ WriteFails \/ Finish
Parent == WakeUp \/ Read

(* Both have returned, or wait for each other to no end. *)
Stuck == /\ \/ child # "writes"
            \/ i <= Len(args) /\ ~Refused(args[i]) /\ ~Room(args[i])
         /\ \/ parent \in {"returned 0", "off"}
            \/ parent = "reads" /\ counter = 0
         /\ UNCHANGED vars

Next == Child \/ Parent \/ Stuck
Fairness == WF_vars(Child) /\ WF_vars(Parent)
Spec == Init /\ [][Next]_vars /\ Fairness

----------------------------------------------------------------------------
Sum(s) == FoldLeft(LAMBDA x, y : x + y, 0, s)

Readable == \E k \in DOMAIN args : args[k] # 0 /\ \A j \in 1 .. k : ~Refused(args[j])

(* What the parent has read and what is left for nobody to read are all     *)
(* that was written, and the first of it: if the parent reads before the    *)
(* child is through, the rest of the sum is never printed; and if there is  *)
(* nothing but zeros to read, the parent never returns.                     *)
EventSum == /\ num + counter = Sum(SubSeq(args, 1, i - 1))
            /\ parent = "returned 0" => \E k \in 1 .. i - 1 : num = Sum(SubSeq(args, 1, k))
            /\ parent = "returned 0" => Readable
            /\ parent = "returned 0" /\ child = "returned 0" /\ counter = 0 => num = Sum(args)

(* What they come to: the parent returns if there is something to read      *)
(* before a number that is refused, and the child unless it finds the       *)
(* eventfd full when the parent has read already.                           *)
Done == /\ Readable => parent = "returned 0"
        /\ child = "writes" => parent = "returned 0" /\ i <= Len(args) /\ ~Room(args[i])
=============================================================================
