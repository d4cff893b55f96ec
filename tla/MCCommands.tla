----------------------------- MODULE MCCommands -----------------------------
(* Commands with buffers that inputs of a few characters overflow.          *)
EXTENDS Commands, TLC, SequencesExt

MCArgs == {<<"r">>, <<"r", "r", "r", "r", "r">>, [k \in 1 .. 9 |-> "r"]}

(* A file, a directory of three levels, and one whose names outgrow PATH_MAX. *)
Flat == <<>> :> "reg"
High == (<<>> :> "dir") @@ (<<"/", "a">> :> "dir") @@ (<<"/", "a", "/", "b">> :> "dir")
        @@ (<<"/", "a", "/", "b", "/", "c">> :> "dir") @@ (<<"/", "a", "/", "d">> :> "lnk")
        @@ (<<"/", "e">> :> "reg")
Higher == High @@ (<<"/", "a", "/", "b", "/", "c", "/", "f">> :> "reg")
          @@ (<<"/", "a", "/", "g">> :> "dir") @@ (<<"/", "a", "/", "g", "/", "h">> :> "reg")
MCTrees == {Flat, High, Higher}

MCArguments == BoundedSeq(BoundedSeq({"x", "\n"}, 2) \cup {Missing}, 2)
               \cup {<<f>> : f \in BoundedSeq({"x", "\t", "\n"}, 4)}

MCExpected == << <<"f">>, <<"b", "f">>, <<"b">> >>
=============================================================================
