\* Scripts of up to five frames; the pump may stop for good.
CONSTANTS
  Scripts <- MCScripts
  MaxSends = 1
SPECIFICATION Spec
INVARIANT RelaysInOrder
PROPERTIES  PingsAreAnswered
CHECK_DEADLOCK FALSE
