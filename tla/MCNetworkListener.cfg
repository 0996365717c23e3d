\* A client that was deleted may rest for ever.
SPECIFICATION Spec
CONSTANT
  Parts = {"dial"}
PROPERTY
  AssertedListener
CHECK_DEADLOCK FALSE
