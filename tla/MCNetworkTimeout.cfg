\* A closed session rests for ever.
SPECIFICATION Spec
CONSTANT
  Parts = {"session"}
INVARIANT
  TimedOut
CHECK_DEADLOCK FALSE
