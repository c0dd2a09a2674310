CONSTANTS
  a = a
  b = b
  c = c
  d = d
  Methods <- AllMethods
  Programs <- AllPrograms
  Rounds = 2
SPECIFICATION Spec
INVARIANT TypeOK
INVARIANT OneFramePerMethod
INVARIANT NoForeignEffect
INVARIANT EveryMethodAnalysed
PROPERTY CalleesAreFoldedIn
PROPERTY BottomUpSpec
PROPERTY RunEnds
CHECK_DEADLOCK FALSE
