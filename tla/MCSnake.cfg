CONSTANTS
  Rows = 4
  Columns = 4
  FoodCount = 1
SPECIFICATION Spec
INVARIANTS SnakeIsPath FoodsKept FoodFits NeckSafe
