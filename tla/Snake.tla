------------------------------- MODULE Snake --------------------------------
(***************************************************************************)
(* snake01/main.cpp: the game loop of main with class Board and class      *)
(* Snake.  One turn reads a key and moves; a Board that has to place food  *)
(* (in its constructor, or after the snake has eaten) does so before       *)
(* anything else happens.  GenerateNewFood draws until a place is free:    *)
(* here it draws a free place at once, and cannot step if there is none.   *)
(* The foods are a set, since the order of foods_ is never looked at.      *)
(***************************************************************************)
EXTENDS Integers, Sequences, FiniteSets, Functions

CONSTANTS Rows, Columns,   \* getmaxyx: rows_ and columns_
          FoodCount        \* FOOD_COUNT

(* The first position of the snake is on the screen, and not more foods     *)
(* than places just outside of it are asked for (main asks for 6).          *)
ASSUME RowsAssumption == Rows \in Nat /\ Rows >= 4
ASSUME ColumnsAssumption == Columns \in Nat /\ Columns >= 3
ASSUME FoodAssumption == FoodCount \in Nat /\ FoodCount <= Rows + Columns

VARIABLES points,    \* snake_.points_, head first
          foods,     \* foods_
          pending,   \* calls of GenerateNewFood still to be made
          action,    \* the direction of the last turn
          over,      \* has main left its loop?
          turns      \* has the snake moved at all?

vars == <<points, foods, pending, action, over, turns>>

Actions == {"kLeft", "kRight", "kUp", "kDown"}
Board == (0 .. Columns - 1) \X (0 .. Rows - 1)

IsValidPoint(p) == p \in Board

(* Mutant: food is drawn on the board only. *)
DrawExact == (0 .. Columns - 1) \X (0 .. Rows - 1)

(* The places GenerateNewFood draws from: row_dist_ and col_dist_ include   *)
(* their upper bounds.                                                      *)
Draw == (0 .. Columns) \X (0 .. Rows)

(* The variables have their types. *)
TypeOK == /\ points \in Seq(Board) /\ points # <<>>
          /\ foods \subseteq Draw
          /\ pending \in 0 .. FoodCount
          /\ action \in Actions
          /\ over \in BOOLEAN /\ turns \in BOOLEAN

(* Board's constructor, and the variables of main. *)
Init == /\ points = << <<2, 3>>, <<2, 2>> >>
        /\ foods = {}
        /\ pending = FoodCount
        /\ action = "kRight"
        /\ over = FALSE /\ turns = FALSE

NextPoint(a) == LET p == Head(points) IN
                CASE a = "kLeft"  -> <<p[1] - 1, p[2]>>
                  [] a = "kRight" -> <<p[1] + 1, p[2]>>
                  [] a = "kUp"    -> <<p[1], p[2] - 1>>
                  [] a = "kDown"  -> <<p[1], p[2] + 1>>

Free == Draw \ (Range(points) \cup foods)

GenerateNewFood == /\ pending > 0
                   /\ \E p \in Free : foods' = foods \cup {p}
                   /\ pending' = pending - 1
                   /\ UNCHANGED <<points, action, over, turns>>

Opposite == [kLeft |-> "kRight", kRight |-> "kLeft", kUp |-> "kDown", kDown |-> "kUp"]

(* Mutant: any key is obeyed. *)
ReadAnyAction(prev) == Actions

(* ReadNextAction: a key for the opposite direction, another key, or none   *)
(* within the timeout leave the direction as it is.                         *)
ReadNextAction(prev) == Actions \ {Opposite[prev]}

(* Mutant: the snake may run over itself. *)
GameOverAtWall(a) == ~IsValidPoint(NextPoint(a))

(* Board::MoveSnake returns false. *)
GameOver(a) == ~IsValidPoint(NextPoint(a)) \/ NextPoint(a) \in Range(points)

Lose(a) == /\ ~over /\ pending = 0
           /\ GameOver(a)
           /\ over' = TRUE /\ action' = a
           /\ UNCHANGED <<points, foods, pending, turns>>

(* Mutant: the food that was eaten stays. *)
EatKeepsFood(a) == /\ ~over /\ pending = 0
                   /\ ~GameOver(a) /\ NextPoint(a) \in foods
                   /\ points' = <<NextPoint(a)>> \o points
                   /\ pending' = 1
                   /\ action' = a /\ turns' = TRUE
                   /\ UNCHANGED <<foods, over>>

Eat(a) == /\ ~over /\ pending = 0
          /\ ~GameOver(a) /\ NextPoint(a) \in foods
          /\ points' = <<NextPoint(a)>> \o points
          /\ foods' = foods \ {NextPoint(a)}
          /\ pending' = 1
          /\ action' = a /\ turns' = TRUE
          /\ UNCHANGED over

Move(a) == /\ ~over /\ pending = 0
           /\ ~GameOver(a) /\ NextPoint(a) \notin foods
           /\ points' = <<NextPoint(a)>> \o SubSeq(points, 1, Len(points) - 1)
           /\ action' = a /\ turns' = TRUE
           /\ UNCHANGED <<foods, pending, over>>

Ended == over /\ UNCHANGED vars

Next == \/ GenerateNewFood
        \/ \E a \in ReadNextAction(action) : Lose(a) \/ Eat(a) \/ Move(a)
        \/ Ended

Spec == Init /\ [][Next]_vars

----------------------------------------------------------------------------
Adjacent(p, q) == \/ p[1] = q[1] /\ (p[2] = q[2] + 1 \/ q[2] = p[2] + 1)
                  \/ p[2] = q[2] /\ (p[1] = q[1] + 1 \/ q[1] = p[1] + 1)

(* The snake is a path on the board that does not touch the same place      *)
(* twice, however it has moved and grown.                                   *)
SnakeIsPath == /\ \A i, j \in DOMAIN points : points[i] = points[j] => i = j
               /\ \A i \in 1 .. Len(points) - 1 : Adjacent(points[i], points[i + 1])

(* Between two turns the board shows as many foods as it started with, at   *)
(* places of their own.                                                     *)
FoodsKept == /\ Cardinality(foods) + pending = FoodCount
             /\ foods \cap Range(points) = {}

(* GenerateNewFood comes back: while one is due there is a free place to    *)
(* draw, even when the snake fills the board.  The places one past the last *)
(* column and row, where no snake can eat, are what makes this true.        *)
FoodFits == pending > 0 => Free # {}

(* After its first move no key can turn the snake onto its own neck:        *)
(* ReadNextAction compares with the direction of the last turn, and every   *)
(* turn moves.  (Before it, the snake heads down while action is kRight.)   *)
NeckSafe == turns /\ ~over =>
               \A a \in ReadNextAction(action) : NextPoint(a) # points[2]
=============================================================================
