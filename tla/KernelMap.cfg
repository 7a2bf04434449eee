CONSTANTS
  K = 13
  T = 4
  Bases = {2, 3}
  MaxRequest = 2
SPECIFICATION KSpec
INVARIANTS KTypeOK HeadsAgree FramesConserved DirectMapComplete
PROPERTIES FreshFirst ImplementsQueue
