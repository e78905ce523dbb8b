\* Names are looked up twice.
CONSTANTS
  t1 = t1
  t2 = t2
  Bad = Bad
  Thrown = Bad
  Thread = {t1, t2}
  Key <- MCKey
  Type <- MCType
  Default <- MCDefault
  FromStr <- MCFrom
  ToStr <- MCTo
  Files <- MCFiles
  ValidPart = {"", "s", "p", "q"}
  MaxVars = 2
SPECIFICATION Spec
INVARIANT SharedVariable
