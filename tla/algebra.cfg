\* Six algorithms called in any order on some four hundred small expressions,
\* under five sets of declarations.
SPECIFICATION AlgebraSpec
CONSTANTS
  Letter <- MCLetter
  HeadRank <- MCHeadRank
  IndexRank <- MCIndexRank
  Input <- MCInput
  Declarations <- MCDeclarations
INVARIANTS
  AlgorithmsKeepTheValue
  
  ZeroIsRecognised
\* a session that an assertion has aborted takes no further step
CHECK_DEADLOCK FALSE
