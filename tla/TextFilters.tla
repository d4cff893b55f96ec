---------------------------- MODULE TextFilters -----------------------------
(***************************************************************************)
(* futuu_no_linux_programming, sections 05 to 07: cat.c, cat2.c, cat3.c,   *)
(* cat4.c, wc.c, wc2.c and the three heads.  They open their arguments one *)
(* after the other, read each to its end and close it, and give up at the  *)
(* first that cannot be opened; tool says which of them it is.  Without    *)
(* arguments (piped) most read their standard input, which is then the only*)
(* member of files.  apue/section01/echo_print.c always does.              *)
(***************************************************************************)
EXTENDS Integers, SequencesExt, FiniteSetsExt

CONSTANTS Size,       \* of the buffers of cat, echo_print, wc and cat4
          Arguments,  \* what the arguments may contain, or that they are ...
          Missing,    \* ... files that cannot be opened
          Limits,     \* how many lines head may be told to print
          MaxErrors   \* bound on the number of read errors

Tools == {"cat", "echo_print", "cat2", "cat3", "cat4", "wc", "wc2", "head"}

VARIABLES tool, files, piped, limit,
          i, rest,          \* the argument it is at, and what is left of it
          out,              \* what was written to the standard output
          lines, total,     \* the counters of wc, or the lines left for head
          pc,
          short, errors     \* history: was a write short?  read errors

args == <<tool, files, piped, limit>>
place == <<i, rest>>
count == <<lines, total>>
history == <<short, errors>>
vars == <<args, place, out, count, pc, history>>

At(t, f, b, n, p) == /\ tool = t /\ files = f /\ piped = b /\ limit = n
                     /\ i = 1 /\ rest = <<>> /\ out = <<>>
                     /\ lines = 0 /\ total = 0
                     /\ pc = p /\ short = FALSE /\ errors = 0

(* With no file cat4 does nothing, nor does head2 if it has the number of   *)
(* lines; wc2 prints how it is used.                                        *)
Init == \E t \in Tools, f \in Arguments, b \in BOOLEAN, n \in Limits \cup {0} :
           /\ b => Len(f) = 1 /\ f[1] # Missing /\ t \notin {"cat4", "wc2"}
           /\ f = <<>> => t \in {"cat4", "head"}
           /\ t = "echo_print" => b
           /\ t # "head" => n = 0
           /\ At(t, f, b, n, "open")
Off == At("cat", <<>>, FALSE, 0, "exit 0")

----------------------------------------------------------------------------
(* do_head returns at once when it is to print nothing. *)
Open == /\ pc = "open" /\ i <= Len(files) /\ files[i] # Missing
        /\ rest' = files[i] /\ lines' = limit
        /\ pc' = IF tool = "head" /\ limit <= 0 THEN "close" ELSE "read"
        /\ UNCHANGED <<args, i, out, total, history>>

OpenFails == /\ pc = "open" /\ i <= Len(files) /\ files[i] = Missing
             /\ pc' = "exit 1"
             /\ UNCHANGED <<args, place, out, count, history>>

(* wc prints the lines of each file, and wc.c their total if it has arguments. *)
Close == /\ pc = "close"
         /\ i' = i + 1 /\ pc' = "open"
         /\ out' = IF tool \in {"wc", "wc2"} THEN Append(out, lines) ELSE out
         /\ total' = total + lines
         /\ UNCHANGED <<args, rest, lines, history>>

Return == /\ pc = "open" /\ i > Len(files)
          /\ pc' = "exit 0"
          /\ out' = IF tool = "wc" /\ ~piped THEN Append(out, total) ELSE out
          /\ UNCHANGED <<args, place, count, history>>

----------------------------------------------------------------------------
Newlines(s) == Cardinality({k \in DOMAIN s : s[k] = "\n"})
First(n) == SubSeq(rest, 1, n)
Skip(n) == rest' = SubSeq(rest, n + 1, Len(rest)) /\ UNCHANGED <<args, i, total, errors>>
Reads(t) == pc = "read" /\ tool = t

(* read returns some of the bytes.  Nobody looks at how many of them write  *)
(* has written ...                                                          *)
Copy == /\ \E n \in 1 .. Min({Size, Len(rest)}) : \E k \in 1 .. n :
              Skip(n) /\ out' = out \o First(k) /\ short' = (short \/ k < n)
        /\ UNCHANGED <<lines, pc>>

ReadCat == Reads("cat") /\ Copy
ReadEcho == Reads("echo_print") /\ Copy

(* ... but they give up when it has failed, and cat when close has. *)
CatFails == /\ tool \in {"cat", "echo_print"}
            /\ \/ pc = "read" /\ rest # <<>>
               \/ pc = "close" /\ ~piped
            /\ pc' = "exit 1"
            /\ UNCHANGED <<args, place, out, count, history>>

ReadWc == /\ Reads("wc")
          /\ \E n \in 1 .. Min({Size, Len(rest)}) : Skip(n) /\ lines' = lines + Newlines(First(n))
          /\ UNCHANGED <<out, pc, short>>

(* Mutant: feof is tested in the loop condition, before the write. *)
ReadCat4Eof == /\ Reads("cat4")
               /\ LET n == Min({Size, Len(rest)}) IN
                     /\ Skip(n)
                     /\ out' = IF n < Size THEN out ELSE out \o First(n)
                     /\ pc' = IF n < Size THEN "close" ELSE "read"
               /\ UNCHANGED <<lines, short>>

(* fread fills the buffer but at the end of the file, and fwrite returns 0  *)
(* if there is nothing to write, which is taken for an error.               *)
ReadCat4 == /\ Reads("cat4")
            /\ LET n == Min({Size, Len(rest)}) IN
                  /\ Skip(n) /\ out' = out \o First(n)
                  /\ pc' = IF n = 0 THEN "exit 1" ELSE IF n < Size THEN "close" ELSE "read"
            /\ UNCHANGED <<lines, short>>

(* What cat3 shows of a character. *)
Shown(c) == CASE c = "\t" -> <<"\\", "t">> [] c = "\n" -> <<"$", "\n">> [] OTHER -> <<c>>

(* fgetc gives a character. *)
Char(t) == Reads(t) /\ rest # <<>> /\ Skip(1)

ReadCat2 == Char("cat2") /\ out' = Append(out, rest[1]) /\ UNCHANGED <<lines, pc, short>>
ReadCat3 == Char("cat3") /\ out' = out \o Shown(rest[1]) /\ UNCHANGED <<lines, pc, short>>
ReadWc2 == Char("wc2") /\ lines' = lines + Newlines(First(1)) /\ UNCHANGED <<out, pc, short>>

ReadHead == /\ Char("head") /\ out' = Append(out, rest[1])
            /\ lines' = lines - Newlines(First(1))
            /\ pc' = IF lines' = 0 THEN "close" ELSE "read"
            /\ UNCHANGED short

ReadEof == /\ pc = "read" /\ tool # "cat4" /\ rest = <<>>
           /\ pc' = "close"
           /\ UNCHANGED <<args, place, out, count, history>>

(* A read fails, or the fwrite of cat4: those that copy blocks give up, wc  *)
(* tries again, and the loops over characters take it for the end.          *)
ReadFails == /\ pc = "read" /\ errors < MaxErrors
             /\ errors' = errors + 1
             /\ pc' = CASE tool \in {"cat", "echo_print", "cat4"} -> "exit 1" [] tool = "wc" -> "read" [] OTHER -> "close"
             /\ UNCHANGED <<args, place, out, count, short>>

Step == \/ Open \/ Close \/ Return \/ ReadCat \/ ReadEcho \/ ReadWc \/ ReadCat4 \/ ReadCat2 \/ ReadCat3 \/ ReadWc2
        \/ ReadHead \/ ReadEof \/ OpenFails
Ended == pc \in {"exit 0", "exit 1"} /\ UNCHANGED vars
Next == Step \/ CatFails \/ ReadFails \/ Ended

Spec == Init /\ [][Next]_vars

(* The program is scheduled. *)
Fairness == WF_vars(Step)

----------------------------------------------------------------------------
(* The first n lines of s, and all of s if there are fewer. *)
FirstLines(s, n) == LET ends == {k \in DOMAIN s : Newlines(SubSeq(s, 1, k)) = n} IN
                    SubSeq(s, 1, IF n = 0 THEN 0 ELSE Min(ends \cup {Len(s)}))

(* What each tool is to write for a file with the contents s. *)
Wanted(s) == CASE tool \in {"wc", "wc2"} -> <<Newlines(s)>>
               [] tool = "cat3" -> FlattenSeq([k \in DOMAIN s |-> Shown(s[k])])
               [] tool = "head" -> FirstLines(s, limit)
               [] OTHER -> s

AllWanted == FlattenSeq([k \in DOMAIN files |-> Wanted(files[k])])
             \o IF tool = "wc" /\ ~piped THEN <<FoldSeq(LAMBDA f, sum : Newlines(f) + sum, 0, files)>> ELSE <<>>

(* A tool that ends well has written what it is to write, of every file and *)
(* in order, in whatever pieces the files were read: unless a write was     *)
(* short, or a read has failed and the tool does not see the difference.    *)
(* cat4 ends well only if no file is empty or a multiple of its buffer.     *)
Filters == /\ pc = "exit 0" /\ ~short /\ (errors = 0 \/ tool \in {"cat", "echo_print", "cat4", "wc"}) => out = AllWanted
           /\ tool = "cat4" /\ pc = "exit 0" => \A k \in DOMAIN files : Len(files[k]) % Size # 0
           /\ tool = "cat4" /\ pc = "exit 1" /\ errors = 0 => files[i] = Missing \/ Len(files[i]) % Size = 0

(* What every tool comes to, if reads do not fail for ever. *)
Done == pc \in {"exit 0", "exit 1"}
=============================================================================
