------------------------------ MODULE PoolTest ------------------------------
(***************************************************************************)
(* thread_pool01/pool_test.c: the client that adds all its tasks, waits,   *)
(* destroys the pool and prints how many tasks have run.                   *)
(***************************************************************************)
EXTENDS ThreadPool01

VARIABLE waited   \* has the call of ThreadPoolWait on line 36 returned?

testVars == <<vars, waited>>

TestInit == Init /\ waited = FALSE

Added == Range(task_list) \cup Range(task) \cup done

(* The program of main: the calls that leave "idle" come in this order. *)
TestNext == /\ Next
            /\ WaitCall => Tasks \subseteq Added /\ ~waited
            /\ DestoryStop => waited
            /\ waited' = (waited \/ WaitReturn)

TestSpec == /\ TestInit /\ [][TestNext]_testVars
            /\ Fairness
            /\ WF_testVars(TestNext /\ (WaitCall \/ DestoryStop \/ \E t \in Tasks : AddTask(t)))

(* The count printed by pool_test is the number of tasks it has added: each *)
(* of them has run when ThreadPoolWait and ThreadPoolDestory have returned. *)
CountIsTasks == pc[Main] = "freed" => done = Tasks

(* pool_test reaches its last line: ThreadPoolDestory returns. *)
TestEnds == (pc[Main] = "stop") ~> (pc[Main] = "freed")
=============================================================================
