------------------------------ MODULE DirWalk -------------------------------
(***************************************************************************)
(* apue/section04/count_file_types.c: dir_walk calls itself for each entry *)
(* of a directory.  All calls share one buffer, which holds the path; each *)
(* has its own pointer to it and its own idea of the size.  realloc grows  *)
(* the buffer where it is or moves it, and a call higher up does not learn *)
(* of that.                                                                *)
(*                                                                         *)
(* The name of a file is one character, so that a path is a sequence of    *)
(* names and slashes and its length is strlen.  A program that uses memory *)
(* that was freed stops being modelled there (pc = "undefined").           *)
(***************************************************************************)
EXTENDS Integers, SequencesExt, FiniteSets

CONSTANTS PATH_MAX,   \* lstat fails on a path of this length
          Args,       \* what argv[1] may be
          Trees,      \* what may be under it: the rest of the path -> its type
          Types

VARIABLES arg, tree,    \* argv[1], and the files
          addr, size,   \* where the buffer is, and how large
          text,         \* the string in it
          stack,        \* the calls of dir_walk, innermost last
          ret,          \* what the last one has returned
          statistic,    \* type -> how many files were counted
          pc,
          moved, failed \* history: has realloc moved it?  has a call failed?

files == <<arg, tree>>
buffer == <<addr, size>>
history == <<moved, failed>>
vars == <<files, buffer, text, stack, ret, statistic, pc, history>>

(* main allocates a buffer that argv[1] fits into. *)
BufLen(len) == IF len >= PATH_MAX + 1 THEN len * 2 ELSE PATH_MAX + 1
file_path == 1

(* A call: its parameters, its path_end, and what readdir has still to say. *)
Call(path, buf_len) == [path |-> path, buf_len |-> buf_len, path_end |-> 0, todo |-> {}]
Top == Last(stack)
SetTop(call) == stack' = [stack EXCEPT ![Len(stack)] = call]

At(a, t, p) == /\ arg = a /\ tree = t
               /\ addr = file_path /\ size = BufLen(Len(a)) /\ text = a
               /\ stack = <<Call(file_path, BufLen(Len(a)))>>
               /\ ret = 0 /\ statistic = [y \in Types |-> 0] /\ pc = p
               /\ moved = FALSE /\ failed = FALSE

Init == \E a \in Args, t \in Trees : At(a, t, "lstat")
Off == At(<<>>, <<>>, "off")

(* What the path in the buffer leads to. *)
Below == SubSeq(text, Len(arg) + 1, Len(text))
TypeOf == tree[Below]
Entries == {Last(p) : p \in {q \in DOMAIN tree : q # <<>> /\ Front(q) = Append(Below, "/")}}
TooLong == Len(text) >= PATH_MAX

----------------------------------------------------------------------------
(* dir_walk returns r, to its caller or to main. *)
Return(r) == /\ ret' = r
             /\ stack' = Front(stack)
             /\ pc' = IF Len(stack) = 1 THEN "print" ELSE "returned"

(* file_callback *)
Count == statistic' = [statistic EXCEPT ![TypeOf] = @ + 1]

(* lstat fails: the file has gone by now, or the path is too long. *)
LstatFails == /\ pc = "lstat"
              /\ Return(-1) /\ failed' = TRUE
              /\ UNCHANGED <<files, buffer, text, statistic, moved>>

WalkFile == /\ pc = "lstat" /\ ~TooLong /\ TypeOf # "dir"
            /\ Count /\ Return(0)
            /\ UNCHANGED <<files, buffer, text, history>>

WalkDir == /\ pc = "lstat" /\ ~TooLong /\ TypeOf = "dir"
           /\ Count
           /\ pc' = IF Len(text) > Top.buf_len \div 2 THEN "realloc" ELSE "opendir"
           /\ UNCHANGED <<files, buffer, text, stack, ret, history>>

(* The buffer stays where it is or moves; only this call gets to know. *)
Realloc == /\ pc = "realloc"
           /\ addr' \in {addr, addr + 1} /\ moved' = (moved \/ addr' # addr)
           /\ size' = 2 * Top.buf_len
           /\ SetTop([Top EXCEPT !.path = addr', !.buf_len = size'])
           /\ pc' = "opendir"
           /\ UNCHANGED <<files, text, ret, statistic, failed>>

ReallocFails == /\ pc = "realloc"
                /\ Return(-1) /\ failed' = TRUE
                /\ UNCHANGED <<files, buffer, text, statistic, moved>>

OpenDir == /\ pc = "opendir"
           /\ text' = Append(text, "/")
           /\ SetTop([Top EXCEPT !.path_end = Len(text'), !.todo = Entries])
           /\ pc' = "readdir"
           /\ UNCHANGED <<files, buffer, ret, statistic, history>>

(* opendir fails, and leaves the slash that was written for it. *)
OpenDirFails == /\ pc = "opendir"
                /\ text' = Append(text, "/")
                /\ Return(-1) /\ failed' = TRUE
                /\ UNCHANGED <<files, buffer, statistic, moved>>

----------------------------------------------------------------------------
(* The pointer of the call is to memory that was freed. *)
Dangling == Top.path # addr
Upto(n) == SubSeq(text, 1, n)

(* readdir gives an entry, and dir_walk is called for it. *)
ReadDir == /\ pc = "readdir" /\ ~Dangling
           /\ \E name \in Top.todo :
                 /\ text' = Append(Upto(Top.path_end), name)
                 /\ stack' = Append([stack EXCEPT ![Len(stack)].todo = @ \ {name}],
                                    Call(Top.path, Top.buf_len))
           /\ pc' = "lstat"
           /\ UNCHANGED <<files, buffer, ret, statistic, history>>

(* Mutant: the result is not looked at. *)
CallReturnedIgnored == /\ pc = "returned"
                       /\ pc' = "readdir"
                       /\ UNCHANGED <<files, buffer, text, stack, ret, statistic, history>>

(* A call for an entry has returned: an error breaks the loop. *)
CallReturned == /\ pc = "returned"
                /\ pc' = IF ret # 0 THEN "closedir" ELSE "readdir"
                /\ UNCHANGED <<files, buffer, text, stack, ret, statistic, history>>

ReadDirEnd == /\ pc = "readdir" /\ Top.todo = {}
              /\ pc' = "closedir" /\ ret' = 0
              /\ UNCHANGED <<files, buffer, text, stack, statistic, history>>

(* Mutant: the slash is left. *)
CloseDirLeaves == /\ pc = "closedir" /\ ~Dangling
                  /\ Return(ret)
                  /\ UNCHANGED <<files, buffer, text, statistic, history>>

(* The slash is taken away again. *)
CloseDir == /\ pc = "closedir" /\ ~Dangling
            /\ text' = Upto(Top.path_end - 1)
            /\ Return(ret)
            /\ UNCHANGED <<files, buffer, statistic, history>>

(* strcpy, or the write of the zero, through a pointer that dangles. *)
UseFreed == /\ pc \in {"readdir", "closedir"} /\ Dangling
            /\ pc = "readdir" => Top.todo # {}
            /\ pc' = "undefined"
            /\ UNCHANGED <<files, buffer, text, stack, ret, statistic, history>>

(* main prints and frees file_path, whatever dir_walk has returned. *)
MainPrints == /\ pc = "print"
              /\ pc' = IF file_path = addr THEN "exited" ELSE "undefined"
              /\ UNCHANGED <<files, buffer, text, stack, ret, statistic, history>>

Step == \/ WalkFile \/ WalkDir \/ Realloc \/ OpenDir
        \/ ReadDir \/ CallReturned \/ ReadDirEnd \/ CloseDir \/ UseFreed \/ MainPrints
Fails == LstatFails \/ ReallocFails \/ OpenDirFails
Ended == pc \in {"off", "exited", "undefined"} /\ UNCHANGED vars
Next == Step \/ Fails \/ Ended

Spec == Init /\ [][Next]_vars

(* The program is scheduled. *)
Fairness == WF_vars(Step \/ Fails)

----------------------------------------------------------------------------
(* The path and its terminating zero fit into the buffer, although the      *)
(* calls do not agree on its size.                                          *)
PathFits == Len(text) < size

(* Memory is used after it was freed just when realloc has moved the buffer *)
(* under the feet of the callers: without a move never, with a move always. *)
FreedUsed == /\ pc = "undefined" => moved
             /\ pc = "exited" => ~moved

(* A walk without errors counts every file once, and leaves the path as it  *)
(* was; no file is counted twice.  The first error ends the whole walk, and *)
(* what was counted by then is printed as if it were all.                   *)
WalkCounts == LET Total(y) == Cardinality({p \in DOMAIN tree : tree[p] = y}) IN
              /\ \A y \in Types : statistic[y] <= Total(y)
              /\ pc \in {"print", "exited"} /\ ~failed =>
                    text = arg /\ \A y \in Types : statistic[y] = Total(y)
              /\ failed => ret = -1 /\ pc \notin {"lstat", "readdir"}

(* What the walk comes to. *)
Done == pc \in {"off", "exited", "undefined"}
=============================================================================
