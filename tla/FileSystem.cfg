CONSTANTS
  Archives <- MCArchives
  DirNames <- MCDirNames
  Procs = {p1, p2}
  N = 5
  Requests = {1, 2, 4}
  MaxCalls = 5
SPECIFICATION Spec
SYMMETRY Interchangeable
INVARIANTS TypeOK LookupExact TableExact OverrunBounded
PROPERTIES ReaddirComplete
