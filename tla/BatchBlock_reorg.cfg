\* A chain that reorganises as deep as the confirmation depth while
\* NextHeaders is between its calls.
SPECIFICATION BBLiveSpec
CONSTANTS
  ConfDepth = 2
  BlocksStep = 4
  StartingHeight = 0
  MaxHeight = 7
  InitTip = 1
  MaxReorg = 2
  MaxForks = 1
  MaxLag = 1
  Faulty = {"header"}
  MaxFaults = 1
INVARIANTS
  OnlyFinalHeaders
PROPERTIES
  ImplementsHeaderStream
  TraversalCatchesUp
