SPECIFICATION MCSpec
CONSTANTS
  Nodes = {1, 2, 3, 4, 5, 6, 7, 8, 9, 10}
  Values = {"x", "<<", "sops", "mac", "age", "payload"}
  MaxSize = 6
INVARIANTS
  TypeOK
  CommentsStayWithEntry
  HouseStyle
  SopsByStructure
CHECK_DEADLOCK FALSE
