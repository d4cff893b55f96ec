---------------------------- MODULE SnakeProofs -----------------------------
(***************************************************************************)
(* Proofs about Snake, for every size of the screen and number of foods.   *)
(***************************************************************************)
EXTENDS Snake, FiniteSetTheorems, TLAPS

(* The snake is never shorter than it was at the start. *)
Long == Len(points) >= 2

(* The neck is where the head came from in the last turn. *)
Headed == turns /\ ~over =>
             \/ action = "kLeft"  /\ points[1] = <<points[2][1] - 1, points[2][2]>>
             \/ action = "kRight" /\ points[1] = <<points[2][1] + 1, points[2][2]>>
             \/ action = "kUp"    /\ points[1] = <<points[2][1], points[2][2] - 1>>
             \/ action = "kDown"  /\ points[1] = <<points[2][1], points[2][2] + 1>>

IInv == TypeOK /\ Long /\ Headed /\ SnakeIsPath /\ FoodsKept

----------------------------------------------------------------------------
(* The places one past the last column and row, where food may be drawn but *)
(* no snake goes: one more than there are rows and columns.                 *)
Edge == ({Columns} \X (0 .. Rows)) \cup ((0 .. Columns - 1) \X {Rows})

LEMMA EdgeSize == IsFiniteSet(Edge) /\ Cardinality(Edge) = Rows + Columns + 1
<1> DEFINE Right == {Columns} \X (0 .. Rows)
           Below == (0 .. Columns - 1) \X {Rows}
<1>0. Rows \in Nat /\ Columns \in Nat
  BY RowsAssumption, ColumnsAssumption
<1>1. /\ IsFiniteSet({Columns}) /\ Cardinality({Columns}) = 1
      /\ IsFiniteSet({Rows}) /\ Cardinality({Rows}) = 1
  BY FS_Singleton, Zenon
<1>2. IsFiniteSet(0 .. Rows) /\ Cardinality(0 .. Rows) = Rows + 1
  BY <1>0, FS_Interval
<1>3. IsFiniteSet(0 .. Columns - 1) /\ Cardinality(0 .. Columns - 1) = Columns
  BY <1>0, FS_Interval
<1>4. IsFiniteSet(Right) /\ Cardinality(Right) = Rows + 1
  <2>1. /\ IsFiniteSet(Right)
        /\ Cardinality(Right) = Cardinality({Columns}) * Cardinality(0 .. Rows)
    BY <1>1, <1>2, FS_Product, Zenon
  <2>2. QED
    BY <1>0, <1>1, <1>2, <2>1
<1>5. IsFiniteSet(Below) /\ Cardinality(Below) = Columns
  <2>1. /\ IsFiniteSet(Below)
        /\ Cardinality(Below) = Cardinality(0 .. Columns - 1) * Cardinality({Rows})
    BY <1>1, <1>3, FS_Product, Zenon
  <2>2. QED
    BY <1>0, <1>1, <1>3, <2>1
<1>6. Right \cap Below = {}
  BY <1>0
<1>7. Cardinality(Right \cap Below) = 0
  BY <1>6, FS_EmptySet
<1>8. /\ IsFiniteSet(Right \cup Below)
      /\ Cardinality(Right \cup Below) = Cardinality(Right) + Cardinality(Below) - 0
  BY <1>4, <1>5, <1>7, FS_Union
<1>9. QED
  BY <1>0, <1>4, <1>5, <1>8 DEF Edge

(* The edge is drawn from, and is not on the board. *)
LEMMA EdgeOffBoard == Edge \subseteq Draw /\ Edge \cap Board = {}
<1>1. Rows \in Nat /\ Columns \in Nat
  BY RowsAssumption, ColumnsAssumption
<1>2. QED
  BY <1>1 DEF Edge, Draw, Board

(* Food can be drawn on finitely many places. *)
LEMMA DrawFinite == IsFiniteSet(Draw)
<1>1. Rows \in Nat /\ Columns \in Nat
  BY RowsAssumption, ColumnsAssumption
<1>2. IsFiniteSet(0 .. Columns) /\ IsFiniteSet(0 .. Rows)
  BY <1>1, FS_Interval
<1>3. QED
  BY <1>2, FS_Product, Zenon DEF Draw

(* As long as fewer foods than wanted are there, the edge has room. *)
LEMMA RoomForFood == TypeOK /\ FoodsKept => FoodFits
<1> SUFFICES ASSUME TypeOK, FoodsKept, pending > 0
             PROVE  Free # {}
  BY DEF FoodFits
<1>1. IsFiniteSet(foods)
  BY DrawFinite, FS_Subset DEF TypeOK
<1>2. Cardinality(foods) \in Nat
  BY <1>1, FS_CardinalityType
<1>3. Cardinality(foods) < Cardinality(Edge)
  <2>1. Rows \in Nat /\ Columns \in Nat /\ FoodCount \in Nat /\ FoodCount <= Rows + Columns
    BY RowsAssumption, ColumnsAssumption, FoodAssumption
  <2>2. pending \in Nat /\ Cardinality(foods) + pending = FoodCount
    BY <2>1 DEF TypeOK, FoodsKept
  <2>3. QED
    BY <1>2, <2>1, <2>2, EdgeSize
<1>4. ~(Edge \subseteq foods)
  <2> SUFFICES ASSUME Edge \subseteq foods PROVE FALSE
    OBVIOUS
  <2>1. Cardinality(Edge) <= Cardinality(foods)
    BY <1>1, FS_Subset
  <2>2. Cardinality(Edge) \in Nat
    BY EdgeSize, FS_CardinalityType
  <2>3. QED
    BY <1>2, <1>3, <2>1, <2>2
<1>5. PICK e \in Edge : e \notin foods
  BY <1>4
<1>6. Range(points) \subseteq Board
  BY DEF TypeOK, Range
<1>7. e \in Free
  BY <1>5, <1>6, EdgeOffBoard DEF Free
<1>8. QED
  BY <1>7

----------------------------------------------------------------------------
(* Every place is a pair of integers. *)
LEMMA BoardIsIntegers ==
    ASSUME NEW p \in Board
    PROVE  p = <<p[1], p[2]>> /\ p[1] \in Int /\ p[2] \in Int
<1>1. Rows \in Nat /\ Columns \in Nat
  BY RowsAssumption, ColumnsAssumption
<1>2. QED
  BY <1>1 DEF Board

(* The next point is beside the head. *)
LEMMA NextBeside ==
    ASSUME TypeOK, NEW a \in Actions
    PROVE  /\ Head(points) = points[1] /\ points[1] \in Board
           /\ Adjacent(NextPoint(a), points[1])
<1>1. Head(points) = points[1] /\ points[1] \in Board
  BY DEF TypeOK
<1>2. points[1][1] \in Int /\ points[1][2] \in Int
  BY <1>1, BoardIsIntegers
<1>3. Adjacent(NextPoint(a), points[1])
  BY <1>1, <1>2 DEF NextPoint, Adjacent, Actions
<1>4. QED
  BY <1>1, <1>3

(* A new head in front of a sequence, by index. *)
LEMMA InFront ==
    ASSUME NEW S, NEW p \in S, NEW s \in Seq(S), NEW n \in Nat, Len(s) = n
    PROVE  /\ <<p>> \o s \in Seq(S) /\ Len(<<p>> \o s) = n + 1
           /\ DOMAIN (<<p>> \o s) = 1 .. n + 1
           /\ (<<p>> \o s)[1] = p
           /\ \A i \in 2 .. n + 1 : (<<p>> \o s)[i] = s[i - 1]
  OBVIOUS

(* The two sequences that a turn makes of the snake. *)
LEMMA Grown ==
    ASSUME TypeOK, NEW p \in Board, points' = <<p>> \o points,
           NEW k \in Nat, k = Len(points)
    PROVE  /\ points' \in Seq(Board) /\ Len(points') = k + 1
           /\ DOMAIN points' = 1 .. k + 1 /\ DOMAIN points = 1 .. k
           /\ points'[1] = p
           /\ \A i \in 2 .. k + 1 : points'[i] = points[i - 1]
<1>1. points \in Seq(Board)
  BY DEF TypeOK
<1>2. QED
  BY <1>1, InFront

LEMMA Moved ==
    ASSUME TypeOK, Long, NEW p \in Board, NEW k \in Nat, k = Len(points),
           points' = <<p>> \o SubSeq(points, 1, Len(points) - 1)
    PROVE  /\ points' \in Seq(Board) /\ Len(points') = k
           /\ DOMAIN points' = 1 .. k /\ DOMAIN points = 1 .. k
           /\ points'[1] = p
           /\ \A i \in 2 .. k : points'[i] = points[i - 1]
<1> DEFINE s == SubSeq(points, 1, Len(points) - 1)
<1>1. /\ s \in Seq(Board) /\ Len(s) = k - 1
      /\ \A i \in 1 .. k - 1 : s[i] = points[i]
  BY DEF TypeOK, Long
<1>2. points' = <<p>> \o s
  OBVIOUS
<1>3. k - 1 \in Nat /\ (k - 1) + 1 = k /\ DOMAIN points = 1 .. k
  BY DEF TypeOK, Long
<1> HIDE DEF s
<1>4. /\ points' \in Seq(Board) /\ Len(points') = k
      /\ DOMAIN points' = 1 .. k
      /\ points'[1] = p
      /\ \A i \in 2 .. k : points'[i] = s[i - 1]
  <2> DEFINE n == k - 1
  <2>1. n \in Nat /\ Len(s) = n /\ n + 1 = k /\ s \in Seq(Board)
    BY <1>1, <1>3
  <2> HIDE DEF n
  <2>2. /\ <<p>> \o s \in Seq(Board) /\ Len(<<p>> \o s) = n + 1
        /\ DOMAIN (<<p>> \o s) = 1 .. n + 1
        /\ (<<p>> \o s)[1] = p
        /\ \A i \in 2 .. n + 1 : (<<p>> \o s)[i] = s[i - 1]
    BY <2>1, InFront
  <2>3. QED
    BY <1>2, <2>1, <2>2, Zenon
<1>5. \A i \in 2 .. k : s[i - 1] = points[i - 1]
  BY <1>1
<1>6. QED
  BY <1>3, <1>4, <1>5

(* A snake with a new head that is on the board and not on the snake, with  *)
(* or without its old tail, is a path again.                                *)
LEMMA PathStep ==
    ASSUME TypeOK, SnakeIsPath, NEW a \in Actions, ~GameOver(a),
           NEW k \in Nat, Len(points) = k, DOMAIN points = 1 .. k,
           NEW n \in Nat, n = k \/ n = k + 1, Len(points') = n, DOMAIN points' = 1 .. n,
           points'[1] = NextPoint(a),
           \A i \in 2 .. n : points'[i] = points[i - 1]
    PROVE  SnakeIsPath'
<1>1. NextPoint(a) \notin Range(points)
  BY DEF GameOver
<1>2. \A i \in 2 .. n : i - 1 \in DOMAIN points
  OBVIOUS
<1>3. \A i \in 2 .. n : points'[i] # points'[1]
  BY <1>1, <1>2 DEF Range
<1>4. ASSUME NEW i \in 2 .. n, NEW j \in 2 .. n, points'[i] = points'[j]
      PROVE  i = j
  <2>1. points[i - 1] = points[j - 1]
    BY <1>4
  <2>2. i - 1 = j - 1
    BY <2>1, <1>2, Zenon DEF SnakeIsPath
  <2>3. QED
    BY <2>2
<1>5. \A i, j \in 1 .. n : points'[i] = points'[j] => i = j
  <2>1. \A i \in 1 .. n : i = 1 \/ i \in 2 .. n
    OBVIOUS
  <2>2. QED
    BY <2>1, <1>3, <1>4
<1>6. ASSUME NEW i \in 1 .. n - 1
      PROVE  Adjacent(points'[i], points'[i + 1])
  <2>1. CASE i = 1
    <3>1. points'[2] = points[1]
      BY <2>1
    <3>2. QED
      BY <2>1, <3>1, NextBeside
  <2>2. CASE i # 1
    <3>1. i - 1 \in 1 .. k - 1 /\ i \in 2 .. n /\ i + 1 \in 2 .. n /\ (i + 1) - 1 = (i - 1) + 1
      BY <2>2
    <3>2. points'[i] = points[i - 1] /\ points'[i + 1] = points[(i - 1) + 1]
      BY <3>1
    <3>3. QED
      BY <3>1, <3>2 DEF SnakeIsPath
  <2>3. QED
    BY <2>1, <2>2
<1>7. QED
  BY <1>5, <1>6 DEF SnakeIsPath

----------------------------------------------------------------------------
(* ReadNextAction returns a direction. *)
LEMMA ReadsAction ==
    ASSUME NEW a \in ReadNextAction(action) PROVE a \in Actions
  BY DEF ReadNextAction

LEMMA InitIInv == Init => IInv
<1> SUFFICES ASSUME Init PROVE IInv
  OBVIOUS
<1>0. Rows \in Nat /\ Rows >= 4 /\ Columns \in Nat /\ Columns >= 3 /\ FoodCount \in Nat
  BY RowsAssumption, ColumnsAssumption, FoodAssumption
<1>1. <<2, 3>> \in Board /\ <<2, 2>> \in Board
  BY <1>0 DEF Board
<1>2. TypeOK
  <2>1. << <<2, 3>>, <<2, 2>> >> \in Seq(Board) /\ << <<2, 3>>, <<2, 2>> >> # <<>>
    BY <1>1
  <2>2. pending \in 0 .. FoodCount
    BY <1>0 DEF Init
  <2>3. QED
    BY <2>1, <2>2, Zenon DEF Init, TypeOK, Actions
<1>3. Long /\ Headed
  BY DEF Init, Long, Headed
<1>4. SnakeIsPath
  BY DEF Init, SnakeIsPath, Adjacent
<1>5. FoodsKept
  BY <1>0, FS_EmptySet DEF Init, FoodsKept
<1>6. QED
  BY <1>2, <1>3, <1>4, <1>5 DEF IInv

(* Drawing food. *)
LEMMA FoodStep == IInv /\ GenerateNewFood => IInv'
<1> SUFFICES ASSUME IInv, GenerateNewFood PROVE IInv'
  OBVIOUS
<1> USE DEF IInv
<1>1. PICK p \in Free : foods' = foods \cup {p}
  BY DEF GenerateNewFood
<1>2. p \in Draw /\ p \notin Range(points) /\ p \notin foods
  BY <1>1 DEF Free
<1>3. /\ pending > 0 /\ pending' = pending - 1
      /\ UNCHANGED <<points, action, over, turns>>
  BY DEF GenerateNewFood
<1>4. TypeOK'
  BY <1>1, <1>2, <1>3, FoodAssumption DEF TypeOK
<1>5. Long' /\ Headed' /\ SnakeIsPath'
  BY <1>3 DEF Long, Headed, SnakeIsPath
<1>6. FoodsKept'
  <2>1. IsFiniteSet(foods) /\ Cardinality(foods) \in Nat
    BY DrawFinite, FS_Subset, FS_CardinalityType DEF TypeOK
  <2>2. Cardinality(foods') = Cardinality(foods) + 1
    BY <1>1, <1>2, <2>1, FS_AddElement, SMTT(60)
  <2>3. Cardinality(foods') + pending' = FoodCount
    BY <1>3, <2>1, <2>2, FoodAssumption DEF TypeOK, FoodsKept
  <2>4. foods' \cap Range(points') = {}
    BY <1>1, <1>2, <1>3 DEF FoodsKept
  <2>5. QED
    BY <2>3, <2>4 DEF FoodsKept
<1>7. QED
  BY <1>4, <1>5, <1>6

(* A turn that ends the game. *)
LEMMA LoseStep ==
    ASSUME IInv, NEW a \in Actions, Lose(a) PROVE IInv'
  BY DEF IInv, Lose, TypeOK, Long, Headed, SnakeIsPath, FoodsKept

(* The head has moved in the direction of the turn. *)
LEMMA HeadedStep ==
    ASSUME TypeOK, NEW a \in Actions, action' = a,
           points'[1] = NextPoint(a), points'[2] = points[1]
    PROVE  Headed'
<1>1. Head(points) = points[1]
  BY NextBeside
<1>2. \/ a = "kLeft"  /\ points'[1] = <<points'[2][1] - 1, points'[2][2]>>
      \/ a = "kRight" /\ points'[1] = <<points'[2][1] + 1, points'[2][2]>>
      \/ a = "kUp"    /\ points'[1] = <<points'[2][1], points'[2][2] - 1>>
      \/ a = "kDown"  /\ points'[1] = <<points'[2][1], points'[2][2] + 1>>
  BY <1>1 DEF NextPoint, Actions
<1>3. QED
  BY <1>2 DEF Headed

(* A turn that eats. *)
LEMMA EatStep ==
    ASSUME IInv, NEW a \in Actions, Eat(a) PROVE IInv'
<1> USE DEF IInv
<1> DEFINE p == NextPoint(a)
           k == Len(points)
<1>1. /\ pending = 0 /\ ~GameOver(a) /\ p \in foods
      /\ points' = <<p>> \o points /\ foods' = foods \ {p} /\ pending' = 1
      /\ action' = a /\ turns' = TRUE /\ over' = over
  BY DEF Eat
<1>2. p \in Board
  BY <1>1 DEF GameOver, IsValidPoint
<1>3. k \in Nat /\ k >= 2 /\ Len(points) = k
  BY DEF TypeOK, Long
<1> HIDE DEF p
<1>4. /\ points' \in Seq(Board) /\ Len(points') = k + 1
      /\ DOMAIN points' = 1 .. k + 1 /\ DOMAIN points = 1 .. k
      /\ points'[1] = p
      /\ \A i \in 2 .. k + 1 : points'[i] = points[i - 1]
  BY <1>1, <1>2, <1>3, Grown
<1> HIDE DEF k
<1>5. IsFiniteSet(foods) /\ Cardinality(foods) \in Nat
  BY DrawFinite, FS_Subset, FS_CardinalityType DEF TypeOK
<1>6. Cardinality(foods') = Cardinality(foods) - 1
  BY <1>1, <1>5, FS_RemoveElement, Zenon
<1>7. FoodCount >= 1 /\ Cardinality(foods) = FoodCount
  <2>1. Cardinality(foods) = FoodCount
    BY <1>1, <1>5, FoodAssumption DEF FoodsKept
  <2>2. Cardinality(foods) # 0
    BY <1>1, <1>5, FS_EmptySet
  <2>3. QED
    BY <2>1, <2>2, FoodAssumption
<1>8. TypeOK'
  <2>1. points' # <<>>
    BY <1>3, <1>4
  <2>2. pending' \in 0 .. FoodCount
    BY <1>1, <1>7, FoodAssumption
  <2>3. QED
    BY <1>1, <1>4, <2>1, <2>2 DEF TypeOK
<1>9. Long'
  BY <1>3, <1>4 DEF Long
<1>10. Headed'
  <2>1. points'[2] = points[1]
    BY <1>3, <1>4
  <2>2. QED
    BY <1>1, <1>4, <2>1, HeadedStep, Zenon DEF p
<1>11. SnakeIsPath'
  <2> DEFINE n == k + 1
  <2>1. points'[1] = NextPoint(a)
    BY <1>4 DEF p
  <2>2. /\ n \in Nat /\ n = k + 1 /\ Len(points') = n /\ DOMAIN points' = 1 .. n
        /\ \A i \in 2 .. n : points'[i] = points[i - 1]
    BY <1>3, <1>4
  <2> HIDE DEF n
  <2>3. QED
    BY <1>1, <1>3, <1>4, <2>1, <2>2, PathStep
<1>12. FoodsKept'
  <2>1. Cardinality(foods') + pending' = FoodCount
    BY <1>1, <1>6, <1>7, FoodAssumption
  <2>2. ASSUME NEW i \in 1 .. k + 1 PROVE points'[i] \notin foods'
    <3>1. CASE i = 1
      BY <3>1, <1>1, <1>4
    <3>2. CASE i # 1
      <4>1. i \in 2 .. k + 1 /\ i - 1 \in 1 .. k
        BY <3>2, <1>3
      <4>2. points'[i] \in Range(points)
        BY <4>1, <1>4 DEF Range
      <4>3. QED
        BY <4>2, <1>1, Zenon DEF FoodsKept
    <3>3. QED
      BY <3>1, <3>2
  <2>3. foods' \cap Range(points') = {}
    BY <2>2, <1>4 DEF Range
  <2>4. QED
    BY <2>1, <2>3 DEF FoodsKept
<1>13. QED
  BY <1>8, <1>9, <1>10, <1>11, <1>12

(* A turn that only moves. *)
LEMMA MoveStep ==
    ASSUME IInv, NEW a \in Actions, Move(a) PROVE IInv'
<1> USE DEF IInv
<1> DEFINE p == NextPoint(a)
           k == Len(points)
<1>1. /\ ~GameOver(a) /\ p \notin foods
      /\ points' = <<p>> \o SubSeq(points, 1, Len(points) - 1)
      /\ action' = a /\ turns' = TRUE
      /\ UNCHANGED <<foods, pending, over>>
  BY DEF Move
<1>2. p \in Board
  BY <1>1 DEF GameOver, IsValidPoint
<1>3. k \in Nat /\ k >= 2 /\ Len(points) = k
  BY DEF TypeOK, Long
<1> HIDE DEF p
<1>4. /\ points' \in Seq(Board) /\ Len(points') = k
      /\ DOMAIN points' = 1 .. k /\ DOMAIN points = 1 .. k
      /\ points'[1] = p
      /\ \A i \in 2 .. k : points'[i] = points[i - 1]
  BY <1>1, <1>2, <1>3, Moved
<1> HIDE DEF k
<1>5. TypeOK'
  <2>1. points' # <<>>
    BY <1>3, <1>4
  <2>2. QED
    BY <1>1, <1>4, <2>1 DEF TypeOK
<1>6. Long'
  BY <1>3, <1>4 DEF Long
<1>7. Headed'
  <2>1. points'[2] = points[1]
    BY <1>3, <1>4
  <2>2. QED
    BY <1>1, <1>4, <2>1, HeadedStep, Zenon DEF p
<1>8. SnakeIsPath'
  <2>1. points'[1] = NextPoint(a)
    BY <1>4 DEF p
  <2>2. QED
    BY <1>1, <1>3, <1>4, <2>1, PathStep
<1>9. FoodsKept'
  <2>1. ASSUME NEW i \in 1 .. k PROVE points'[i] \notin foods
    <3>1. CASE i = 1
      BY <3>1, <1>1, <1>4
    <3>2. CASE i # 1
      <4>1. i \in 2 .. k /\ i - 1 \in 1 .. k
        BY <3>2, <1>3
      <4>2. points'[i] \in Range(points)
        BY <4>1, <1>4 DEF Range
      <4>3. QED
        BY <4>2 DEF FoodsKept
    <3>3. QED
      BY <3>1, <3>2
  <2>2. foods' \cap Range(points') = {}
    BY <2>1, <1>1, <1>4 DEF Range
  <2>3. QED
    BY <2>2, <1>1 DEF FoodsKept
<1>10. QED
  BY <1>5, <1>6, <1>7, <1>8, <1>9

LEMMA NextIInv == IInv /\ [Next]_vars => IInv'
<1> SUFFICES ASSUME IInv, [Next]_vars PROVE IInv'
  OBVIOUS
<1>1. CASE GenerateNewFood
  BY <1>1, FoodStep
<1>2. ASSUME NEW a \in ReadNextAction(action), Lose(a) \/ Eat(a) \/ Move(a)
      PROVE  IInv'
  BY <1>2, ReadsAction, LoseStep, EatStep, MoveStep
<1>3. CASE UNCHANGED vars
  BY <1>3 DEF vars, IInv, TypeOK, Long, Headed, SnakeIsPath, FoodsKept
<1>4. QED
  BY <1>1, <1>2, <1>3 DEF Next, Ended

(* The inductive invariant holds on every screen. *)
THEOREM Invariance == Spec => []IInv
<1>1. QED
  BY InitIInv, NextIInv, PTL DEF Spec

(* The snake stays on the board and the food within reach of the draw. *)
THEOREM TypeCorrect == Spec => []TypeOK
<1>1. IInv => TypeOK
  BY DEF IInv
<1>2. QED
  BY <1>1, Invariance, PTL

(* MoveSnake keeps the snake a path that does not cross itself. *)
THEOREM PathKept == Spec => []SnakeIsPath
<1>1. IInv => SnakeIsPath
  BY DEF IInv
<1>2. QED
  BY <1>1, Invariance, PTL

(* foods_ keeps its size, and no food is under the snake. *)
THEOREM FoodsStay == Spec => []FoodsKept
<1>1. IInv => FoodsKept
  BY DEF IInv
<1>2. QED
  BY <1>1, Invariance, PTL

(* The loop of GenerateNewFood always has a place to find. *)
THEOREM FoodTerminates == Spec => []FoodFits
<1>1. IInv => FoodFits
  BY RoomForFood DEF IInv
<1>2. QED
  BY <1>1, Invariance, PTL

(* ReadNextAction keeps the player from turning back onto the neck. *)
THEOREM NoTurnBack == Spec => []NeckSafe
<1>1. IInv => NeckSafe
  <2> SUFFICES ASSUME IInv, turns, ~over, NEW a \in ReadNextAction(action)
               PROVE  NextPoint(a) # points[2]
    BY DEF NeckSafe
  <2>1. points[1] \in Board /\ points[2] \in Board /\ Head(points) = points[1]
    BY DEF IInv, TypeOK, Long
  <2>2. /\ points[1][1] \in Int /\ points[1][2] \in Int
        /\ points[2] = <<points[2][1], points[2][2]>>
        /\ points[2][1] \in Int /\ points[2][2] \in Int
    BY <2>1, BoardIsIntegers
  <2>3. a \in Actions /\ action \in Actions /\ a # Opposite[action]
    BY DEF ReadNextAction, IInv, TypeOK
  <2>4. /\ Opposite["kLeft"] = "kRight" /\ Opposite["kRight"] = "kLeft"
        /\ Opposite["kUp"] = "kDown" /\ Opposite["kDown"] = "kUp"
    BY DEF Opposite
  <2>5. QED
    BY <2>1, <2>2, <2>3, <2>4 DEF IInv, Headed, NextPoint, Actions
<1>2. QED
  BY <1>1, Invariance, PTL
=============================================================================
