----------------------------- MODULE RunCommand -----------------------------
(***************************************************************************)
(* apue/section01/run_command.c and run_command_with_signal.c: read a line *)
(* with fgets, run it in a child, wait, and so on.  The second one has a   *)
(* handler for SIGINT; read and waitpid are restarted after it.  SIGINT    *)
(* comes from the terminal and goes to the program and its child.          *)
(***************************************************************************)
EXTENDS Integers, SequencesExt

CONSTANTS Size,         \* of buffer
          MaxInput,     \* bound on the length of the input
          MaxSigint     \* bound on the number of signals

Chars == {"x", "y", "\n"}

VARIABLES handles,      \* which program: is there a handler?
          stdin, next,  \* the input, and the position of fgets in it
          pc, buffer,
          child,
          ran,          \* history: the commands that children were to run
          sigints       \* how many signals have come

input == <<handles, stdin, next>>
vars == <<input, pc, buffer, child, ran, sigints>>

(* The variables have their types. *)
TypeOK == /\ handles \in BOOLEAN
          /\ stdin \in Seq(Chars) /\ next \in 1 .. Len(stdin) + 1
          /\ pc \in {"read", "fork", "wait", "exited"}
          /\ buffer \in Seq(Chars) /\ Len(buffer) < Size - 1
          /\ child \in {"none", "forked", "returns", "running", "zombie"}
          /\ ran \in Seq(Seq(Chars))
          /\ sigints \in 0 .. MaxSigint

Init == /\ handles \in BOOLEAN
        /\ stdin \in BoundedSeq(Chars, MaxInput) /\ next = 1
        /\ pc = "read" /\ buffer = <<>>
        /\ child = "none" /\ ran = <<>> /\ sigints = 0

(* The program has ended, or was never started. *)
Off == /\ handles = FALSE
       /\ stdin = <<>> /\ next = 1
       /\ pc = "exited" /\ buffer = <<>>
       /\ child = "none" /\ ran = <<>> /\ sigints = 0

----------------------------------------------------------------------------
(* Mutant: fgets fills the buffer to its end. *)
ReadableFull == {n \in 1 .. Size : next + n - 1 <= Len(stdin)}

(* How much fgets may read: it leaves a place for the terminating zero. *)
Readable == {n \in 1 .. Size - 1 : next + n - 1 <= Len(stdin)}

(* fgets stops after the first newline, or at the end of buffer or input.   *)
fgets == LET ends == {n \in Readable : stdin[next + n - 1] = "\n"} IN
         SubSeq(stdin, next, next - 1 + IF ends # {} THEN Min(ends) ELSE Max(Readable))

(* The last character is overwritten: a newline, but for a line that was    *)
(* cut off or not ended.                                                    *)
ReadLine == /\ pc = "read" /\ Readable # {}
            /\ buffer' = Front(fgets)
            /\ next' = next + Len(fgets)
            /\ pc' = "fork"
            /\ UNCHANGED <<handles, stdin, child, ran, sigints>>

ReadEof == /\ pc = "read" /\ Readable = {}
           /\ pc' = "exited"
           /\ UNCHANGED <<input, buffer, child, ran, sigints>>

Fork == /\ pc = "fork"
        /\ child' = "forked" /\ ran' = Append(ran, buffer)
        /\ pc' = "wait"
        /\ UNCHANGED <<input, buffer, sigints>>

ForkFails == /\ pc = "fork"
             /\ pc' = "exited"
             /\ UNCHANGED <<input, buffer, child, ran, sigints>>

Wait == /\ pc = "wait" /\ child = "zombie"
        /\ child' = "none"
        /\ buffer' = <<>> /\ pc' = "read"
        /\ UNCHANGED <<input, ran, sigints>>

----------------------------------------------------------------------------
(* execlp in the child: it fails if there is no such program. *)
Exec == /\ child = "forked" /\ child' \in {"running", "returns"}
        /\ UNCHANGED <<input, pc, buffer, ran, sigints>>

(* The statement after execlp. *)
ReturnAfterExec == /\ child = "returns" /\ child' = "zombie"
                   /\ UNCHANGED <<input, pc, buffer, ran, sigints>>

ChildEnds == /\ child = "running" /\ child' = "zombie"
             /\ UNCHANGED <<input, pc, buffer, ran, sigints>>

(* A program that was executed has no handler. *)
Sigint == /\ pc # "exited" /\ sigints < MaxSigint
          /\ sigints' = sigints + 1
          /\ pc' = IF handles THEN pc ELSE "exited"
          /\ child' = CASE child = "none" -> "none"
                        [] child # "none" /\ handles /\ child # "running" -> child
                        [] OTHER -> "zombie"
          /\ UNCHANGED <<input, buffer, ran>>

Parent == ReadLine \/ ReadEof \/ Fork \/ Wait
Child == Exec \/ ReturnAfterExec \/ ChildEnds
Ended == pc = "exited" /\ child \in {"none", "zombie"} /\ UNCHANGED vars

Next == Parent \/ ForkFails \/ Child \/ Sigint \/ Ended

Spec == Init /\ [][Next]_vars

(* The program is scheduled, and every child ends. *)
Fairness == WF_vars(Parent) /\ WF_vars(Child)
FairSpec == Spec /\ Fairness

----------------------------------------------------------------------------
(* Every child is waited for before the next line is read, whatever signals *)
(* come in between.                                                         *)
NoChildAtPrompt == pc \in {"read", "fork"} => child = "none"

Ends == SetToSortSeq({i \in DOMAIN stdin : stdin[i] = "\n"}, <)
Line(k) == SubSeq(stdin, IF k = 1 THEN 1 ELSE Ends[k - 1] + 1, Ends[k] - 1)

(* An input that consists of lines, all of which fit into the buffer.       *)
Proper == /\ stdin # <<>> => Last(stdin) = "\n"
          /\ \A k \in DOMAIN Ends : Len(Line(k)) < Size - 1

(* The commands that are run are the lines of the input, in order. *)
RunsLines == Proper => /\ Len(ran) <= Len(Ends)
                       /\ \A k \in DOMAIN ran : ran[k] = Line(k)

(* What it comes to: a child whose exec fails is no trouble, nor is a       *)
(* signal; the whole input is read, or the program has ended.               *)
Done == pc = "exited"
=============================================================================
