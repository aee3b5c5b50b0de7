CONSTANTS
  MaxBoxes = 4
  MaxConnects = 2
  MaxSelected = 2
  Colors = {"white", "red"}
  DefaultColor = "white"
SPECIFICATION MCSpec
INVARIANTS BooksAgree OneSource NoDangling CopiesAlike
CHECK_DEADLOCK FALSE
