\* Every pattern of at most five characters.
CONSTANTS
  Chars <- MCChars
  Letters <- MCLetters
  Known <- MCKnown
  MaxSize = 5
SPECIFICATION Spec
CHECK_DEADLOCK FALSE
INVARIANTS
  TypeOK
  RoundTrip
  AcceptedIsClean
PROPERTY Progress
