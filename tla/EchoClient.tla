----------------------------- MODULE EchoClient -----------------------------
(***************************************************************************)
(* multi_thread_server01/client.c: one line is sent, from the arguments or *)
(* from the standard input, and one recv takes the answer.  The server is  *)
(* what UpcaseEcho promises: it answers in capitals, in pieces, and may    *)
(* close the connection.                                                   *)
(***************************************************************************)
EXTENDS Integers, SequencesExt, FiniteSetsExt

CONSTANTS LineSize,     \* size of buffer and recv_buffer
          Lines,        \* what may be typed or given as an argument
          Upper         \* toupper

VARIABLES input, typed,     \* the text, and whether it is on the standard input
          buffer,           \* what is in buffer
          to_server, answers, read,     \* sent; sent back; how much of that was received
          up,               \* the server has not closed the connection
          pc

vars == <<input, typed, buffer, to_server, answers, read, up, pc>>

At(s, t, p) == /\ input = s /\ typed = t /\ buffer = <<>> /\ to_server = <<>>
               /\ answers = <<>> /\ read = 0 /\ up = TRUE /\ pc = p
Init == \E s \in Lines, t \in BOOLEAN : At(s, t, "connect")
Off == At(<<>>, TRUE, "off")

Connect == pc = "connect" /\ pc' \in {"line", "returned 1"}
           /\ UNCHANGED <<input, typed, buffer, to_server, answers, read, up>>

(* strcpy does not look at the length. *)
TakeArgument == /\ pc = "line" /\ ~typed
                /\ buffer' = input
                /\ pc' = IF Len(input) < LineSize THEN "write" ELSE "undefined"
                /\ UNCHANGED <<input, typed, to_server, answers, read, up>>

(* What fgets returns: a line with its newline, as far as it fits. *)
Fgets == LET ends == {k \in DOMAIN input : input[k] = "\n"} IN
         SubSeq(input, 1, Min(ends \cup {Len(input), LineSize - 1}))


(* The last character is taken for the newline.  At the end of the input    *)
(* buffer was never set.                                                    *)
TakeLine == /\ pc = "line" /\ typed
            /\ buffer' = IF input = <<>> THEN <<>> ELSE Front(Fgets)
            /\ pc' = IF input = <<>> THEN "undefined" ELSE "write"
            /\ UNCHANGED <<input, typed, to_server, answers, read, up>>

Write == /\ pc = "write"
         /\ to_server' = buffer /\ pc' = "recv"
         /\ UNCHANGED <<input, typed, buffer, answers, read, up>>

(* write fails, or recv does, on a connection that the server has closed.   *)
Fail == /\ pc \in {"write", "recv"} /\ ~up
        /\ pc' = "returned 1"
        /\ UNCHANGED <<input, typed, buffer, to_server, answers, read, up>>

(* One recv, of what is there by now; after a close it may be nothing, and  *)
(* what was never set is printed.                                           *)
Recv == /\ pc = "recv"
        /\ \/ answers # <<>> /\ read' \in 1 .. Len(answers)
           \/ answers = <<>> /\ ~up /\ UNCHANGED read
        /\ pc' = "returned 0"
        /\ UNCHANGED <<input, typed, buffer, to_server, answers, up>>

(* The server (external). *)
Answer == /\ up /\ \E n \in Len(answers) + 1 .. Len(to_server) :
                      answers' = [k \in 1 .. n |-> Upper[to_server[k]]]
          /\ UNCHANGED <<input, typed, buffer, to_server, read, up, pc>>
ServerCloses == /\ pc \in {"connect", "line", "write", "recv"} /\ up /\ up' = FALSE
                /\ UNCHANGED <<input, typed, buffer, to_server, answers, read, pc>>

Step == Connect \/ TakeArgument \/ TakeLine \/ Write \/ Recv

(* An empty line has no answer to wait for. *)
Waits == pc = "recv" /\ up /\ to_server = <<>>
Over == pc \in {"returned 0", "returned 1", "undefined", "off"}
Idle == (Over \/ Waits) /\ UNCHANGED vars

Next == Step \/ Fail \/ Answer \/ ServerCloses \/ Idle
Spec == Init /\ [][Next]_vars

(* The client is scheduled, and the server answers. *)
Fairness == WF_vars(Step) /\ WF_vars(Answer)

----------------------------------------------------------------------------
(* What was typed before the first newline, or given as the argument. *)
Wanted == IF typed THEN SubSeq(input, 1, Min({k - 1 : k \in {j \in DOMAIN input : input[j] = "\n"}} \cup {Len(input)}))
          ELSE input
Complete == typed => Len(Wanted) < Min({Len(input), LineSize - 1})

(* The line is sent without its newline, and whole if it has one and fits;  *)
(* without a newline a character is lost.  What is printed is the start of  *)
(* the answer: all of it only if it came in one piece, none of it only if   *)
(* the server has closed the connection.                                    *)
EchoPrinted == /\ pc = "recv" /\ Complete => to_server = Wanted
               /\ pc = "recv" /\ ~Complete => to_server = SubSeq(input, 1, Min({Len(input), LineSize - 1}) - 1)
               /\ pc = "returned 0" => read <= Len(to_server) /\ (read = 0 => ~up)

(* What the client comes to. *)
Done == Over \/ Waits
=============================================================================
