\* Ten declarations and seven other lines, of which any four are read, in
\* blocks of any size that may fail at any statement.
SPECIFICATION KernelSpec
CONSTANTS
  Name = {"A", "B", "a", "b", "c"}
  Index = {"m", "n", "#", "none"}
  Wild = "#"
  Type = {"AntiSymmetric", "Weight", "Indices", "SortOrder"}
  ListType = {"Indices", "SortOrder"}
  IndicesType = "Indices"
  Label = {"none", "x", "y", "vector", "spinor"}
  Data = {"none", "free", "fixed"}
  Declaration <- MCDeclaration
  Line <- MCLine
  MaxObjects = 4
  MaxLines = 4
  None = None
\* Nothing is read after the last line.
CHECK_DEADLOCK FALSE
INVARIANTS
  MapsAgree
  NoDanglingProperty
  OneIndexSetPerName
  LinesAreUsedOnce
  ExpressionsEndAtATerminator

  
