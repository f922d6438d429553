SPECIFICATION FairSpec
CONSTANTS
  Chars = {"c", "newline", "space", "-", "0", "1"}
  MaxLen = 6
INVARIANT ReadsFormula
PROPERTY ReadingEnds
