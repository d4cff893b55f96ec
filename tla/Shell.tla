------------------------------- MODULE Shell --------------------------------
(***************************************************************************)
(* simple_shell01/shell.c: the loop of main, lsh_read_line and             *)
(* lsh_split_line with their growing buffers, the builtin functions, and   *)
(* lsh_launch with the process it starts and waits for.                    *)
(*                                                                         *)
(* The standard input is a sequence of characters.  The name of a builtin  *)
(* function is one letter: "d" stands for cd, and "e" for exit.            *)
(***************************************************************************)
EXTENDS Integers, SequencesExt

CONSTANTS LINE_BUF_SIZE, TOKEN_BUF_SIZE,
          MaxInput,     \* bound on the length of the input
          MaxStops      \* bound on how often a child is stopped

Chars == {"c", "d", "e", " ", "\n"}
Blanks == {" ", "\n"}     \* TOKEN_DELIMITER

VARIABLES stdin,               \* all of the input
          next,                \* position of getchar in it
          pc,
          line, buf_size,      \* lsh_read_line: buffer[0 .. pos - 1], its size
          rest,                \* where strtok goes on in line
          args, tok_size,      \* lsh_split_line: tokens[0 .. pos - 1], its size
          child, told, stops,  \* the child; is its stop reported?  how many?
          cwd,                 \* working directory: the argument of the last cd
          launched, lines      \* history: what was launched; lines executed

reader == <<stdin, next, line, buf_size>>
splitter == <<rest, args, tok_size>>
process == <<child, told, stops>>
history == <<launched, lines>>
vars == <<reader, pc, splitter, process, cwd, history>>

(* The variables have their types. *)
TypeOK == /\ stdin \in Seq(Chars) /\ next \in 1 .. Len(stdin) + 1
          /\ pc \in {"read", "split", "execute", "wait", "exited"}
          /\ line \in Seq(Chars \ {"\n"}) /\ args \in Seq(Seq(Chars \ Blanks))
          /\ buf_size \in Nat /\ tok_size \in Nat /\ rest \in Nat
          /\ child \in {"none", "forked", "running", "stopped", "zombie"}
          /\ told \in BOOLEAN /\ stops \in 0 .. MaxStops
          /\ cwd \in Seq(Chars) /\ launched \in Seq(Seq(Seq(Chars))) /\ lines \in Nat

Init == /\ stdin \in BoundedSeq(Chars, MaxInput) /\ next = 1
        /\ pc = "read"
        /\ line = <<>> /\ buf_size = LINE_BUF_SIZE
        /\ rest = 1 /\ args = <<>> /\ tok_size = TOKEN_BUF_SIZE
        /\ child = "none" /\ told = FALSE /\ stops = 0
        /\ cwd = <<>> /\ launched = <<>> /\ lines = 0

(* The program has ended, or was never started. *)
Off == /\ stdin = <<>> /\ next = 1
       /\ pc = "exited"
       /\ line = <<>> /\ buf_size = LINE_BUF_SIZE
       /\ rest = 1 /\ args = <<>> /\ tok_size = TOKEN_BUF_SIZE
       /\ child = "none" /\ told = FALSE /\ stops = 0
       /\ cwd = <<>> /\ launched = <<>> /\ lines = 0

EOF == "EOF"
getchar == IF next > Len(stdin) THEN EOF ELSE stdin[next]
Consumed == IF getchar = EOF THEN next ELSE next + 1

----------------------------------------------------------------------------
(* Mutant: the buffer grows too late. *)
GrowLate(pos, size, by) == IF pos > size THEN size + by ELSE size

(* realloc when pos has come to the end of the buffer. *)
Grow(pos, size, by) == IF pos >= size THEN size + by ELSE size

(* Mutant: end of file is not the end of a line. *)
ReadEndNewline == /\ pc = "read" /\ getchar \in {EOF, "\n"}
                  /\ next' = Consumed
                  /\ pc' = IF getchar = EOF THEN "read" ELSE "split"
                  /\ UNCHANGED <<stdin, line, buf_size, splitter, process, cwd, history>>

(* One turn of the loop of lsh_read_line ... *)
ReadChar == /\ pc = "read" /\ getchar \notin {EOF, "\n"}
            /\ line' = Append(line, getchar)
            /\ buf_size' = Grow(Len(line'), buf_size, LINE_BUF_SIZE)
            /\ next' = Consumed
            /\ UNCHANGED <<stdin, pc, splitter, process, cwd, history>>

(* ... and its end, at the end of the line or of the input. *)
ReadEnd == /\ pc = "read" /\ getchar \in {EOF, "\n"}
           /\ next' = Consumed
           /\ pc' = "split"
           /\ UNCHANGED <<stdin, line, buf_size, splitter, process, cwd, history>>

----------------------------------------------------------------------------
IsBlank(i) == i \in DOMAIN line /\ line[i] \in Blanks

(* strtok: the next token starts at the first character from rest on that   *)
(* is not blank, and ends before the next blank.                            *)
Starts == {i \in DOMAIN line : i >= rest /\ ~IsBlank(i)}
TokenStart == Min(Starts)

TokenEnd == Max({j \in TokenStart .. Len(line) : \A i \in TokenStart .. j : ~IsBlank(i)})

SplitToken == /\ pc = "split" /\ Starts # {}
              /\ args' = Append(args, SubSeq(line, TokenStart, TokenEnd))
              /\ tok_size' = Grow(Len(args'), tok_size, TOKEN_BUF_SIZE)
              /\ rest' = TokenEnd + 2
              /\ UNCHANGED <<reader, pc, process, cwd, history>>

SplitEnd == /\ pc = "split" /\ Starts = {}
            /\ pc' = "execute"
            /\ UNCHANGED <<reader, splitter, process, cwd, history>>

(* malloc, or realloc, fails: exit(1). *)
OutOfMemory == /\ pc \in {"read", "split"}
               /\ pc' = "exited"
               /\ UNCHANGED <<reader, splitter, process, cwd, history>>

----------------------------------------------------------------------------
(* main frees line and args; a status that is not 0 ends it. *)
Return(status) == /\ pc' = IF status = 0 THEN "read" ELSE "exited"
                  /\ line' = <<>> /\ buf_size' = LINE_BUF_SIZE
                  /\ rest' = 1 /\ args' = <<>> /\ tok_size' = TOKEN_BUF_SIZE
                  /\ lines' = lines + 1
                  /\ UNCHANGED <<stdin, next>>

Name == args[1]

(* Mutant: an empty line is ignored. *)
ExecuteNothingGoesOn == /\ pc = "execute" /\ args = <<>>
                        /\ Return(0)
                        /\ UNCHANGED <<process, cwd, launched>>

(* lsh_execute, for a line without words. *)
ExecuteNothing == /\ pc = "execute" /\ args = <<>>
                  /\ Return(1)
                  /\ UNCHANGED <<process, cwd, launched>>

(* builtin_cd: to the first argument, or to HOME (here the empty sequence). *)
builtin_cd == /\ pc = "execute" /\ args # <<>> /\ Name = <<"d">>
              /\ \/ cwd' = IF Len(args) > 1 THEN args[2] ELSE <<>>
                 \/ UNCHANGED cwd           \* chdir fails
              /\ Return(0)
              /\ UNCHANGED <<process, launched>>

builtin_exit == /\ pc = "execute" /\ args # <<>> /\ Name = <<"e">>
                /\ Return(1)
                /\ UNCHANGED <<process, cwd, launched>>

Launches == pc = "execute" /\ args # <<>> /\ Name \notin {<<"d">>, <<"e">>}

(* lsh_launch *)
Fork == /\ Launches
        /\ child' = "forked" /\ told' = FALSE /\ stops' = 0
        /\ launched' = Append(launched, args)
        /\ pc' = "wait"
        /\ UNCHANGED <<reader, splitter, cwd, lines>>

ForkFails == /\ Launches
             /\ Return(-1)
             /\ UNCHANGED <<process, cwd, launched>>

(* Mutant: the shell waits for the first change only. *)
WaitStoppedReturns == /\ pc = "wait" /\ child = "stopped" /\ ~told
                      /\ told' = TRUE
                      /\ Return(0)
                      /\ UNCHANGED <<child, stops, cwd, launched>>

(* waitpid returns once for a child that has stopped, and the loop goes on. *)
WaitStopped == /\ pc = "wait" /\ child = "stopped" /\ ~told
               /\ told' = TRUE
               /\ UNCHANGED <<reader, pc, splitter, child, stops, cwd, history>>

(* waitpid returns for a child that has ended. *)
WaitEnded == /\ pc = "wait" /\ child = "zombie"
             /\ child' = "none"
             /\ Return(0)
             /\ UNCHANGED <<told, stops, cwd, launched>>

----------------------------------------------------------------------------
(* The child: execvp, or exit(1) after it has failed. *)
Exec == /\ child = "forked" /\ child' \in {"running", "zombie"}
        /\ UNCHANGED <<reader, pc, splitter, told, stops, cwd, history>>

(* It exits or is killed. *)
ChildEnds == /\ child \in {"forked", "running", "stopped"} /\ child' = "zombie"
             /\ UNCHANGED <<reader, pc, splitter, told, stops, cwd, history>>

ChildStops == /\ child = "running" /\ stops < MaxStops
              /\ child' = "stopped" /\ told' = FALSE /\ stops' = stops + 1
              /\ UNCHANGED <<reader, pc, splitter, cwd, history>>

ChildContinues == /\ child = "stopped" /\ child' = "running"
                  /\ UNCHANGED <<reader, pc, splitter, told, stops, cwd, history>>

Shell == \/ ReadChar \/ ReadEnd \/ SplitToken \/ SplitEnd
         \/ ExecuteNothing \/ builtin_cd \/ builtin_exit \/ Fork
         \/ WaitStopped \/ WaitEnded
ShellFails == OutOfMemory \/ ForkFails
Child == Exec \/ ChildEnds \/ ChildStops \/ ChildContinues

Ended == pc = "exited" /\ child \in {"none", "zombie"} /\ UNCHANGED vars

Next == Shell \/ ShellFails \/ Child \/ Ended

Spec == Init /\ [][Next]_vars

(* The shell runs, and every child ends, also one that was stopped, since   *)
(* somebody continues or kills it: the shell does not.                      *)
Fairness == WF_vars(Shell) /\ WF_vars(Exec) /\ WF_vars(ChildEnds)
FairSpec == Spec /\ Fairness

----------------------------------------------------------------------------
(* The terminating zero of a line and the NULL after the tokens always have *)
(* a place, wherever the buffers happen to grow.                            *)
TerminatorFits == Len(line) < buf_size /\ Len(args) < tok_size

(* The words of a line, by what they are: the longest runs without blanks.  *)
Runs(l) == {r \in (DOMAIN l) \X (DOMAIN l) :
               /\ r[1] <= r[2] /\ \A i \in r[1] .. r[2] : l[i] \notin Blanks
               /\ r[1] > 1 => l[r[1] - 1] \in Blanks
               /\ r[2] < Len(l) => l[r[2] + 1] \in Blanks}
Words(l) == LET runs == SetToSortSeq(Runs(l), LAMBDA r, s : r[1] < s[1]) IN
            [k \in DOMAIN runs |-> SubSeq(l, runs[k][1], runs[k][2])]

(* lsh_split_line finds all the words of the line, and only these. *)
SplitsWords == pc = "execute" => args = Words(line)

(* The shell has no child, not even one that has ended, when it reads the   *)
(* next line: it waits for every process it starts, through stops.          *)
NoChildAtPrompt == pc \in {"read", "split", "execute"} => child = "none"

(* The lines of the input, the last one also if nothing ends it. *)
Ends == {i \in DOMAIN stdin : stdin[i] = "\n"} \cup {Len(stdin) + 1}
Line(k) == LET e == SetToSortSeq(Ends, <) IN
           SubSeq(stdin, IF k = 1 THEN 1 ELSE e[k - 1] + 1, e[k] - 1)

IsLaunch(ws) == ws # <<>> /\ ws[1] \notin {<<"d">>, <<"e">>}

(* What was launched is what the lines ask for, one command for each line   *)
(* in order, and no line after one that is empty or says exit is executed.  *)
RunsInput == pc = "read" =>
    LET ws == [k \in 1 .. lines |-> Words(Line(k))] IN
    /\ launched = SelectSeq(ws, IsLaunch)
    /\ \A k \in 1 .. lines : ws[k] # <<>> /\ ws[k][1] # <<"e">>

(* What it comes to, at the end of its input at the latest. *)
Done == pc = "exited"
=============================================================================
