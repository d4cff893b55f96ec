------------------------------ MODULE ReadLine ------------------------------
(***************************************************************************)
(* read_line/main.c: read_line, which reads a line character by character  *)
(* and keeps as much of it as fits, and main, which calls it three times   *)
(* and asserts what it gets.  A read that is interrupted is tried again;   *)
(* read_line's test of its own parameters never fails here.                *)
(***************************************************************************)
EXTENDS Integers, SequencesExt

CONSTANTS N,            \* size of the buffer
          Expected,     \* the lines that main asserts
          Chars,        \* what is in a line
          MaxInput      \* bound on the length of the input

VARIABLES stdin, next,  \* the input, and the position of read in it
          buf,          \* what was stored by this call: total is its length
          buffer,       \* the string in main's buffer, or Unset
          returned,     \* what the calls have returned
          pc

vars == <<stdin, next, buf, buffer, returned, pc>>

Unset == <<"unset">>

At(s, p) == stdin = s /\ next = 1 /\ buf = <<>> /\ buffer = Unset /\ returned = <<>> /\ pc = p

Init == \E s \in BoundedSeq(Chars \cup {"\n"}, MaxInput) : At(s, "read")
Off == At(<<>>, "off")

(* Mutant: no place is kept for the zero. *)
StoreFull(c) == IF Len(buf) < N /\ c # "\n" THEN Append(buf, c) ELSE buf

Store(c) == IF Len(buf) < N - 1 /\ c # "\n" THEN Append(buf, c) ELSE buf

(* A character of the line, which is dropped if there is no room. *)
ReadChar == /\ pc = "read" /\ next <= Len(stdin) /\ stdin[next] # "\n"
            /\ buf' = Store(stdin[next]) /\ next' = next + 1
            /\ UNCHANGED <<stdin, buffer, returned, pc>>

(* The line ends, with a newline or with the input: total is returned. *)
ReadEnd == /\ pc = "read"
           /\ \/ next <= Len(stdin) /\ stdin[next] = "\n" /\ next' = next + 1
              \/ next > Len(stdin) /\ buf # <<>> /\ next' = next
           /\ buffer' = buf /\ buf' = <<>>
           /\ returned' = Append(returned, Len(buf))
           /\ pc' = "assert"
           /\ UNCHANGED stdin

(* There is no line any more: 0 is returned, and buffer is left as it is.   *)
ReadEof == /\ pc = "read" /\ next > Len(stdin) /\ buf = <<>>
           /\ returned' = Append(returned, 0)
           /\ pc' = "assert"
           /\ UNCHANGED <<stdin, next, buf, buffer>>

(* read fails, and main's assertion on the result with it. *)
ReadFails == /\ pc = "read"
             /\ pc' = "aborted"
             /\ UNCHANGED <<stdin, next, buf, buffer, returned>>

(* The two assertions after each call. *)
MainAsserts == /\ pc = "assert"
               /\ pc' = LET want == Expected[Len(returned)] IN
                        CASE buffer # want \/ Last(returned) # Len(want) -> "aborted"
                          [] Len(returned) < Len(Expected) -> "read"
                          [] OTHER -> "OK"
               /\ UNCHANGED <<stdin, next, buf, buffer, returned>>

Step == ReadChar \/ ReadEnd \/ ReadEof \/ MainAsserts
Ended == pc \in {"aborted", "OK", "off"} /\ UNCHANGED vars
Next == Step \/ ReadFails \/ Ended

Spec == Init /\ [][Next]_vars

----------------------------------------------------------------------------
Ends == {0} \cup {k \in DOMAIN stdin : stdin[k] = "\n"}

(* Line k of the input, and nothing if there are fewer lines. *)
Nth(k) == CHOOSE e \in Ends : Cardinality({d \in Ends : d < e}) = k - 1
Line(k) == IF k > Cardinality(Ends) THEN <<>>
           ELSE SubSeq(stdin, Nth(k) + 1, IF k < Cardinality(Ends) THEN Nth(k + 1) - 1 ELSE Len(stdin))
Cut(s) == SubSeq(s, 1, Min({N - 1, Len(s)}))

(* The zero always has a place in the buffer. *)
BufferFits == Len(buf) < N

(* Call k returns the length of line k, as far as it fits, and leaves it in *)
(* the buffer; 0 is returned both for an empty line and after the last one, *)
(* when the buffer still has the line before.  main is not misled by that:  *)
(* it is content just with an input that starts with the lines it expects.  *)
LinesRead == LET k == Len(returned) IN
             /\ \A j \in 1 .. k : returned[j] = Len(Cut(Line(j)))
             /\ pc = "assert" /\ Line(k) # <<>> => buffer = Cut(Line(k))
             /\ pc = "OK" => \A j \in DOMAIN Expected : Cut(Line(j)) = Expected[j]
=============================================================================
