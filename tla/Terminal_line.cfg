CONSTANTS
  SIZE = 2
  Keys = {"a", "enter", "back", "dead", "shift", "caps", "ctrl"}
  Wants = {0, 1}
  MaxKeys = 5
SPECIFICATION Spec
INVARIANTS TypeOK LineIntact
PROPERTIES ReadsWholeText OnlyErasedBelow LineIsTaken
