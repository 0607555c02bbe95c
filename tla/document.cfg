\* Up to four operations and three undo steps on a document of one cell.
SPECIFICATION Spec
CONSTANTS
  x = x
  nl = nl
  Char = {x, nl}
  NewLine = nl
  MaxNodes = 6
  NoCell = NoCell
  MaxText = 2
  MaxOps = 4
  MaxUndos = 3
\* Nothing happens any more when the bounds are used up or the program ends.
CHECK_DEADLOCK FALSE
INVARIANTS
  VisualMirrorsDocument
  BufferMirrorsText
  
PROPERTIES
  UndoRestoresTheDocument
