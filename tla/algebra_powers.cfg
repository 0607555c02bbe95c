\* Products of three letters, two of which do not commute: collect_factors
\* makes a power of one of them, and sort_product moves it past the other.
SPECIFICATION AlgebraSpec
CONSTANTS
  Letter <- MCLetter
  HeadRank <- MCHeadRank
  IndexRank <- MCIndexRank
  Input <- Letters3
  Declarations <- NonCommuting
PROPERTY SortKeepsTheValue
\* a session that an assertion has aborted takes no further step
CHECK_DEADLOCK FALSE
