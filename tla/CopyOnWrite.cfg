CONSTANTS
  Procs = {p1, p2, p3}
  InitProc = p1
  Values = {0, 1}
  Zero = 0
  Image = 1
  WriteProtect = FALSE
  Touched = {"heap", "heapnext", "data"}
  DataFrame = 56
  MaxFrames = 61
  MaxWork = 3
SPECIFICATION Spec
SYMMETRY Children
INVARIANTS TypeOK WritableIsExclusive ForeignFrames FaultResolves
PROPERTIES ImplementsPrivateMemory
