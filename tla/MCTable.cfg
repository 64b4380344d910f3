SPECIFICATION Spec
CONSTANTS
  NumIndexes = 2
  Keys = {1, 2}
  MaxAdds = 3
INVARIANTS
  TypeOK
  IndexMatchesRows
  LookupIsExact
  UniqueStaysUnique
PROPERTY
  PoisonedByUpdateOnly
CHECK_DEADLOCK FALSE
