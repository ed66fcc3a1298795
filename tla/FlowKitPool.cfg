SPECIFICATION FairSpec
CONSTANTS
  Size = 3
  Callers = {a, b, c}
  MaxFailures = 2
INVARIANTS
  OneForOne
  NeverFull
PROPERTY
  Refills
