------------------------------ MODULE SignalFd ------------------------------
(***************************************************************************)
(* signalfd01/main.c: three blocked signals are read from a signalfd.      *)
(***************************************************************************)
EXTENDS Integers, FiniteSetsExt

CONSTANT MaxSignals     \* bound on how often each signal is sent

SIGINT == 2
SIGQUIT == 3
SIGTERM == 15
mask == {SIGINT, SIGQUIT, SIGTERM}

VARIABLES sent,         \* how often each signal was sent
          pending,      \* the signals that wait to be read
          got,          \* how often each one was printed
          pc            \* "read", "returned 0", "returned 1", "off"

vars == <<sent, pending, got, pc>>

At(p) == sent = [s \in mask |-> 0] /\ pending = {} /\ got = [s \in mask |-> 0] /\ pc = p
Init == At("read")
Off == At("off")

(* The kernel (external): a signal that is pending already is not kept a    *)
(* second time, and the one with the lowest number is delivered first.      *)
Signal(s) == /\ pc = "read" /\ sent[s] < MaxSignals
             /\ sent' = [sent EXCEPT ![s] = @ + 1]
             /\ pending' = pending \cup {s}
             /\ UNCHANGED <<got, pc>>
Delivered == Min(pending)

(* Mutant: the program ends on SIGTERM too. *)
ReadEndsOnTerm == /\ pc = "read" /\ pending # {}
                  /\ got' = [got EXCEPT ![Delivered] = @ + 1]
                  /\ pending' = pending \ {Delivered}
                  /\ pc' = IF Delivered # SIGINT THEN "returned 0" ELSE "read"
                  /\ UNCHANGED sent

(* One turn of the loop. *)
Read == /\ pc = "read" /\ pending # {}
        /\ got' = [got EXCEPT ![Delivered] = @ + 1]
        /\ pending' = pending \ {Delivered}
        /\ pc' = IF Delivered = SIGQUIT THEN "returned 0" ELSE "read"
        /\ UNCHANGED sent

ReadFails == pc = "read" /\ pc' = "returned 1" /\ UNCHANGED <<sent, pending, got>>

Step == Read \/ ReadFails
Idle == (pc # "read" \/ pending = {}) /\ UNCHANGED vars
Next == Step \/ Idle \/ \E s \in mask : Signal(s)
Fairness == WF_vars(Read)
Spec == Init /\ [][Next]_vars /\ Fairness

----------------------------------------------------------------------------
(* Every signal is printed or waits, but not as often as it was sent; the   *)
(* program returns on SIGQUIT and nothing else, when every SIGINT before    *)
(* has been printed, and with it a SIGTERM that waits is lost.              *)
SignalsSeen == /\ \A s \in mask : /\ got[s] + (IF s \in pending THEN 1 ELSE 0) <= sent[s]
                                  /\ sent[s] > 0 => got[s] > 0 \/ s \in pending
               /\ pc = "returned 0" <=> got[SIGQUIT] > 0
               /\ pc = "returned 0" => pending \subseteq {SIGQUIT, SIGTERM}

(* What it comes to: SIGQUIT ends the program, whatever else is sent.       *)
Done == sent[SIGQUIT] > 0 => pc \in {"returned 0", "returned 1"}
=============================================================================
