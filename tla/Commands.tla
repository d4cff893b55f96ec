------------------------------ MODULE Commands ------------------------------
(***************************************************************************)
(* The programs of the repository that work on their standard input, their *)
(* arguments and files, side by side: one of them is started, the others   *)
(* are off.                                                                *)
(***************************************************************************)
EXTENDS Integers, Sequences

CONSTANTS Programs,                                                 \* which of them may be started
          LINE_BUF_SIZE, TOKEN_BUF_SIZE, ShellMaxInput, MaxStops,   \* Shell
          Size, RunMaxInput, MaxSigint,                             \* RunCommand
          MaxBytes, MaxFails,                                       \* Tee
          PATH_MAX, Args, Trees, Types,                             \* DirWalk
          FilterSize, Arguments, Missing, Limits, MaxErrors,        \* TextFilters
          TailCount, Width, TailMaxInput,                           \* LastLines
          N, Expected, LineChars, LineMaxInput,                     \* ReadLine
          Max64, MaxArgs,                                           \* EventFd
          MaxSignals                                                \* SignalFd

ASSUME ProgramsAssumption == Programs \subseteq {"shell", "run_command", "tee", "walk", "filter", "tail",
                                                 "read_line", "eventfd", "signalfd"}
ASSUME BufSizeAssumption == LINE_BUF_SIZE \in Nat \ {0} /\ TOKEN_BUF_SIZE \in Nat \ {0}
ASSUME SizeAssumption == Size \in Nat /\ Size > 1
ASSUME PathMaxAssumption == PATH_MAX \in Nat /\ PATH_MAX > 3
ASSUME RingAssumption == TailCount \in Nat \ {0} /\ Width \in Nat \ {0}
ASSUME LineAssumption == N \in Nat \ {0} /\ \A k \in DOMAIN Expected : Len(Expected[k]) < N

VARIABLES program,    \* the one that was started
          stdin, next, pc, line, buf_size, rest, args, tok_size,
          child, told, stops, cwd, launched, lines,
          handles, run_stdin, run_next, run_pc, buffer, run_child, ran, sigints,
          pipe, closed, written, out, file, len, tee_pc, again, fails,
          arg, tree, addr, size, text, stack, ret, statistic, walk_pc, moved, failed,
          tool, files, piped, limit, i, file_rest, printed, newlines, total, filter_pc, short, errors,
          tail_file, tail_next, ring, index, cur, ended, shown, tail_pc,
          line_stdin, line_next, buf, line_buffer, returned, line_pc,
          event_args, event_i, counter, event_child, num, event_parent,
          sent, pending, got, signal_pc

Sh == INSTANCE Shell WITH MaxInput <- ShellMaxInput
Run == INSTANCE RunCommand WITH MaxInput <- RunMaxInput,
          stdin <- run_stdin, next <- run_next, pc <- run_pc, child <- run_child
TeeProgram == INSTANCE Tee WITH pc <- tee_pc
Walk == INSTANCE DirWalk WITH pc <- walk_pc
Filter == INSTANCE TextFilters WITH Size <- FilterSize, rest <- file_rest, out <- printed,
          lines <- newlines, pc <- filter_pc
Tail1 == INSTANCE LastLines WITH Count <- TailCount, MaxInput <- TailMaxInput, file <- tail_file, next <- tail_next,
          lines <- ring, line <- ended, pc <- tail_pc
Line == INSTANCE ReadLine WITH Chars <- LineChars, MaxInput <- LineMaxInput, stdin <- line_stdin, next <- line_next,
          buffer <- line_buffer, pc <- line_pc
Event == INSTANCE EventFd WITH args <- event_args, i <- event_i, child <- event_child, parent <- event_parent
Signals == INSTANCE SignalFd WITH pc <- signal_pc

shell == <<stdin, next, pc, line, buf_size, rest, args, tok_size,
           child, told, stops, cwd, launched, lines>>
run == <<handles, run_stdin, run_next, run_pc, buffer, run_child, ran, sigints>>
tee == <<pipe, closed, written, out, file, len, tee_pc, again, fails>>
walk == <<arg, tree, addr, size, text, stack, ret, statistic, walk_pc, moved, failed>>
filter == <<tool, files, piped, limit, i, file_rest, printed, newlines, total, filter_pc, short, errors>>
tail == <<tail_file, tail_next, ring, index, cur, ended, shown, tail_pc>>
read_line == <<line_stdin, line_next, buf, line_buffer, returned, line_pc>>
event == <<event_args, event_i, counter, event_child, num, event_parent>>
signals == <<sent, pending, got, signal_pc>>
vars == <<program, shell, run, tee, walk, filter, tail, read_line, event, signals>>

Init == /\ program \in Programs
        /\ IF program = "shell" THEN Sh!Init ELSE Sh!Off
        /\ IF program = "run_command" THEN Run!Init ELSE Run!Off
        /\ IF program = "tee" THEN TeeProgram!Init ELSE TeeProgram!Off
        /\ IF program = "walk" THEN Walk!Init ELSE Walk!Off
        /\ IF program = "filter" THEN Filter!Init ELSE Filter!Off
        /\ IF program = "tail" THEN Tail1!Init ELSE Tail1!Off
        /\ IF program = "read_line" THEN Line!Init ELSE Line!Off
        /\ IF program = "eventfd" THEN Event!Init ELSE Event!Off
        /\ IF program = "signalfd" THEN Signals!Init ELSE Signals!Off

Next == /\ \/ program = "shell" /\ Sh!Next /\ UNCHANGED <<run, tee, walk, filter, tail, read_line, event, signals>>
           \/ program = "run_command" /\ Run!Next
                 /\ UNCHANGED <<shell, tee, walk, filter, tail, read_line, event, signals>>
           \/ program = "tee" /\ TeeProgram!Next
                 /\ UNCHANGED <<shell, run, walk, filter, tail, read_line, event, signals>>
           \/ program = "walk" /\ Walk!Next
                 /\ UNCHANGED <<shell, run, tee, filter, tail, read_line, event, signals>>
           \/ program = "filter" /\ Filter!Next
                 /\ UNCHANGED <<shell, run, tee, walk, tail, read_line, event, signals>>
           \/ program = "tail" /\ Tail1!Next
                 /\ UNCHANGED <<shell, run, tee, walk, filter, read_line, event, signals>>
           \/ program = "read_line" /\ Line!Next
                 /\ UNCHANGED <<shell, run, tee, walk, filter, tail, event, signals>>
           \/ program = "eventfd" /\ Event!Next
                 /\ UNCHANGED <<shell, run, tee, walk, filter, tail, read_line, signals>>
           \/ program = "signalfd" /\ Signals!Next
                 /\ UNCHANGED <<shell, run, tee, walk, filter, tail, read_line, event>>
        /\ UNCHANGED program

Spec == Init /\ [][Next]_vars

(* What is off has no step to take, and is not concerned. *)
FairSpec == /\ Spec /\ Sh!Fairness /\ Run!Fairness /\ TeeProgram!Fairness /\ Walk!Fairness
            /\ Filter!Fairness /\ Event!Fairness /\ Signals!Fairness

----------------------------------------------------------------------------
(* Shell: the terminating zero of a line and the NULL after the tokens      *)
(* always have a place, wherever the buffers happen to grow.  RunCommand,   *)
(* ReadLine: no line outgrows the buffer.  DirWalk: no path does, and freed *)
(* memory is used just if realloc has moved the buffer.  LastLines: writes  *)
(* leave the buffer just if a line is too long for it.                      *)
InBounds == Sh!TerminatorFits /\ Run!TypeOK /\ Line!BufferFits /\ Walk!PathFits /\ Walk!FreedUsed /\ Tail1!TailFits

(* Shell: lsh_split_line finds all the words of a line and only these, and  *)
(* one command is launched for each line, in order, and none after a line   *)
(* that is empty or says exit.  RunCommand: the commands that are run are   *)
(* the lines of an input whose lines fit into the buffer, in order.         *)
RunsInput == Sh!SplitsWords /\ Sh!RunsInput /\ Run!RunsLines

(* Shell and RunCommand: every child is waited for, through stops and       *)
(* signals, before the next line is read.                                   *)
NoChildAtPrompt == Sh!NoChildAtPrompt /\ Run!NoChildAtPrompt

(* DirWalk: a walk without errors counts every file once.                   *)
WalkCounts == Walk!WalkCounts

(* Tee: the file gets every byte once and in order; the standard output has *)
(* the same, and once more what was copied before a splice failed.          *)
TeeCopies == TeeProgram!TeeCopies

(* TextFilters, LastLines, ReadLine: what is written, or returned, is what  *)
(* is to be taken from the files, in whatever pieces they are read.         *)
Filters == Filter!Filters /\ Tail1!TailPrints /\ Line!LinesRead

(* EventFd: the parent reads the sum of the first numbers.  SignalFd: no    *)
(* kind of signal is lost but a SIGTERM that waits behind the SIGQUIT.      *)
EventSum == Event!EventSum /\ Signals!SignalsSeen

(* The program comes to its end on every input: Shell and RunCommand if     *)
(* children end, Tee if its pipe is closed and splice works at last,        *)
(* TextFilters if reads do, EventFd's parent if there is something to read, *)
(* SignalFd on SIGQUIT.                                                     *)
Exits == <>[](Sh!Done /\ Run!Done /\ TeeProgram!Done /\ Walk!Done /\ Filter!Done /\ Event!Done /\ Signals!Done)
=============================================================================
