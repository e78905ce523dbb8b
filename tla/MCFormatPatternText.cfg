\* Patterns of at most three characters.
CONSTANTS
  Chars <- MCChars
  Letters <- MCLetters
  Known <- MCKnown
  MaxSize = 3
SPECIFICATION Spec
CHECK_DEADLOCK FALSE
INVARIANT TextIsShown
