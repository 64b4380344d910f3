SPECIFICATION Spec
CONSTANTS
  NumIndexes = 1
  Keys = {1, 2}
  MaxAdds = 2
INVARIANT
  NeverPoisoned
CHECK_DEADLOCK FALSE
