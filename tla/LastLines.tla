----------------------------- MODULE LastLines ------------------------------
(***************************************************************************)
(* futuu_no_linux_programming/section07/tail1.c: a ring of ten lines, each *)
(* with room for 4096 characters, into which the whole file is read.       *)
(***************************************************************************)
EXTENDS Integers, SequencesExt

CONSTANTS Count,        \* lines in the ring
          Width,        \* room for each of them
          MaxInput      \* bound on the length of the file

Chars == {"x", "\n"}
Unset == <<"unset">>        \* memory that was never written

VARIABLES file, next,   \* what is in the file, and the position of fgetc
          lines, index, \* the ring, and the line that is being filled ...
          cur,          \* ... with these characters: pos is their number
          line,         \* how many lines have ended
          shown,        \* what is printed
          pc

vars == <<file, next, lines, index, cur, line, shown, pc>>

At(f, p) == /\ file = f /\ next = 1
            /\ lines = [k \in 0 .. Count - 1 |-> Unset] /\ index = 0 /\ cur = <<>>
            /\ line = 0 /\ shown = <<>> /\ pc = p

Init == \E f \in BoundedSeq(Chars, MaxInput) : At(f, "open")
Off == At(<<>>, "exited")

(* The result of fopen is not looked at. *)
Open == pc = "open" /\ pc' \in {"read", "crashed"} /\ UNCHANGED <<file, next, lines, index, cur, line, shown>>

(* lines[index] is ended with a zero, if there is room for it. *)
EndLine(s) == lines' = [lines EXCEPT ![index] = s]
Fits(s) == IF Len(s) < Width THEN "read" ELSE "undefined"

ReadChar == /\ pc = "read" /\ next <= Len(file) /\ file[next] # "\n"
            /\ cur' = Append(cur, file[next]) /\ next' = next + 1
            /\ pc' = IF Len(cur) < Width THEN "read" ELSE "undefined"
            /\ UNCHANGED <<file, lines, index, line, shown>>

(* Mutant: the index runs through one line more than there are. *)
ReadNewlineSkips == /\ pc = "read" /\ next <= Len(file) /\ file[next] = "\n"
                    /\ EndLine(Append(cur, "\n"))
                    /\ index' = (index + 1) % (Count - 1) /\ cur' = <<>> /\ line' = line + 1
                    /\ next' = next + 1 /\ pc' = Fits(Append(cur, "\n"))
                    /\ UNCHANGED <<file, shown>>

ReadNewline == /\ pc = "read" /\ next <= Len(file) /\ file[next] = "\n"
               /\ EndLine(Append(cur, "\n"))
               /\ index' = (index + 1) % Count /\ cur' = <<>> /\ line' = line + 1
               /\ next' = next + 1 /\ pc' = Fits(Append(cur, "\n"))
               /\ UNCHANGED <<file, shown>>

ReadEof == /\ pc = "read" /\ next > Len(file)
           /\ EndLine(cur)
           /\ pc' = IF Len(cur) < Width THEN "print" ELSE "undefined"
           /\ UNCHANGED <<file, next, index, cur, line, shown>>

(* All the lines of the ring are printed, from the oldest one on. *)
ShowLines == /\ pc = "print"
             /\ LET start == IF line < Count THEN 0 ELSE index + 1 IN
                shown' = [k \in 1 .. Count |-> lines[(start + k - 1) % Count]]
             /\ pc' = "exited"
             /\ UNCHANGED <<file, next, lines, index, cur, line>>

Step == Open \/ ReadChar \/ ReadNewline \/ ReadEof \/ ShowLines
Ended == pc \in {"exited", "crashed", "undefined"} /\ UNCHANGED vars
Next == Step \/ Ended

Spec == Init /\ [][Next]_vars

----------------------------------------------------------------------------
(* The lines of the file, each with its newline, and what comes after the   *)
(* last newline, which may be nothing.                                      *)
Ends == {0} \cup {k \in DOMAIN file : file[k] = "\n"}
LineFrom(k) == SubSeq(file, k + 1, IF k < Max(Ends) THEN Min({e \in Ends : e > k}) ELSE Len(file))
Nth(k) == CHOOSE e \in Ends : Cardinality({d \in Ends : d < e}) = k - 1
AllLines == [k \in 1 .. Cardinality(Ends) |-> LineFrom(Nth(k))]

(* What is printed are the last lines of the file, where what comes after   *)
(* the last newline takes the place of a line even if it is empty: of ten   *)
(* lines or more only the last nine.  Of fewer than nine lines all are      *)
(* printed, and then the memory of the lines there are not.                 *)
TailPrints == pc = "exited" /\ shown # <<>> =>
                 shown = SubSeq(AllLines, Max({1, Len(AllLines) - Count + 1}), Len(AllLines))
                         \o [k \in 1 .. Max({0, Count - Len(AllLines)}) |-> Unset]

(* Writes stay within a line of the ring as long as the lines of the file,  *)
(* with their newline and the zero, are no longer than it; and only so far. *)
TailFits == /\ pc = "undefined" => \E k \in DOMAIN AllLines : Len(AllLines[k]) >= Width
            /\ pc \in {"print", "exited"} => \A k \in DOMAIN AllLines : Len(AllLines[k]) < Width
=============================================================================
