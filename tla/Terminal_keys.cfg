CONSTANTS
  SIZE = 8
  Keys = {"a", "enter"}
  Wants = {0}
  MaxKeys = 4
SPECIFICATION Spec
INVARIANTS KeyIsKept
