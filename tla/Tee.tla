-------------------------------- MODULE Tee ---------------------------------
(***************************************************************************)
(* linux/tee01/main.c: tee copies what is in the pipe of the standard input*)
(* to the standard output and leaves it there, splice then moves it to the *)
(* file.  Both calls may do less than they were asked for.  The writer of  *)
(* the pipe is outside of the program; its bytes are numbered.             *)
(***************************************************************************)
EXTENDS Integers, SequencesExt

CONSTANTS MaxBytes,     \* bound on what the writer writes
          MaxFails      \* bound on the number of times that splice fails

VARIABLES pipe, closed,     \* what is in the pipe; has its writer closed it?
          written,          \* history: all that was ever written to it
          out, file,        \* standard output, and the file of argv[1]
          len, pc,
          again, fails      \* history: copied, but not moved; failed splices

writer == <<closed, written>>
history == <<again, fails>>
vars == <<pipe, writer, out, file, len, pc, history>>

At(p) == /\ pipe = <<>> /\ closed = FALSE /\ written = <<>>
         /\ out = <<>> /\ file = <<>> /\ len = 0 /\ pc = p
         /\ again = 0 /\ fails = 0

Init == At("tee")
Off == At("off")

Write == /\ pc \in {"tee", "splice"} /\ ~closed /\ Len(written) < MaxBytes
         /\ written' = Append(written, Len(written) + 1)
         /\ pipe' = Append(pipe, Len(written) + 1)
         /\ UNCHANGED <<closed, out, file, len, pc, history>>

Close == /\ pc \in {"tee", "splice"} /\ ~closed
         /\ closed' = TRUE
         /\ UNCHANGED <<pipe, written, out, file, len, pc, history>>

----------------------------------------------------------------------------
(* len bytes have been copied, as many as there was room for. *)
TeeSome == /\ pc = "tee"
           /\ \E n \in 1 .. Len(pipe) : len' = n /\ out' = out \o SubSeq(pipe, 1, n)
           /\ pc' = "splice"
           /\ UNCHANGED <<pipe, writer, file, history>>

(* EAGAIN: there is nothing to copy, or no room for it; continue. *)
TeeAgain == pc = "tee" /\ ~(closed /\ pipe = <<>>) /\ UNCHANGED vars

(* The pipe is empty and has no writer any more. *)
TeeEnd == /\ pc = "tee" /\ closed /\ pipe = <<>>
          /\ pc' = "returned 0"
          /\ UNCHANGED <<pipe, writer, out, file, len, history>>

TeeFails == /\ pc = "tee"
            /\ pc' = "returned 1"
            /\ UNCHANGED <<pipe, writer, out, file, len, history>>

(* Mutant: one splice is taken to be enough. *)
SpliceOnce == /\ pc = "splice" /\ len > 0
              /\ \E n \in 1 .. len : /\ file' = file \o SubSeq(pipe, 1, n)
                                     /\ pipe' = SubSeq(pipe, n + 1, Len(pipe))
              /\ len' = 0
              /\ UNCHANGED <<writer, out, pc, history>>

Splice == /\ pc = "splice" /\ len > 0
          /\ \E n \in 1 .. len : /\ file' = file \o SubSeq(pipe, 1, n)
                                 /\ pipe' = SubSeq(pipe, n + 1, Len(pipe))
                                 /\ len' = len - n
          /\ UNCHANGED <<writer, out, pc, history>>

SpliceEnds == /\ pc = "splice" /\ len = 0
              /\ pc' = "tee"
              /\ UNCHANGED <<pipe, writer, out, file, len, history>>

(* The error only breaks the inner loop: what was copied stays in the pipe. *)
SpliceFails == /\ pc = "splice" /\ len > 0 /\ fails < MaxFails
               /\ pc' = "tee" /\ len' = 0
               /\ again' = again + len /\ fails' = fails + 1
               /\ UNCHANGED <<pipe, writer, out, file>>

Program == TeeSome \/ TeeEnd \/ Splice \/ SpliceEnds
Ended == pc \in {"off", "returned 0", "returned 1"} /\ UNCHANGED vars
Next == Write \/ Close \/ Program \/ TeeAgain \/ TeeFails \/ SpliceFails \/ Ended

Spec == Init /\ [][Next]_vars

(* The program is scheduled; the writer closes the pipe in the end, and     *)
(* what is on the standard output is read, so that there is room again.     *)
Fairness == WF_vars(Program) /\ WF_vars(Close)

----------------------------------------------------------------------------
(* What splice is still to move is in the pipe, so that it never returns 0  *)
(* and turns the inner loop into an endless one.                            *)
NoEmptySplice == len <= Len(pipe)

(* The file gets every byte once and in order, and all of them unless tee   *)
(* fails, however often splice fails.  The standard output is never behind  *)
(* the file; it is the same while splice has not failed, and later has more *)
(* by just the bytes that were copied again.                                *)
TeeCopies == /\ file \o pipe = written
             /\ pc = "returned 0" => file = written
             /\ fails = 0 => out = file \o SubSeq(pipe, 1, len)
             /\ Len(out) = Len(file) + len + again
             /\ NoEmptySplice

(* What it comes to when the pipe ends, if splice does not fail for ever.   *)
Done == pc \notin {"tee", "splice"}
=============================================================================
