SPECIFICATION Spec
CONSTANTS
  Node = {n1, n2, n3, n4, n5, n6}
  Tree = {t1, t2}
  Data = {x}
  Blank = Blank
  Freed = Freed
  Null = Null
SYMMETRY NodeSymmetry
INVARIANTS
  EveryNodeHasOnePlace
  CallsDoWhatTheySay
  WalksAreComplete
