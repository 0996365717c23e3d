\* The shares alone: which of them a pass drops.
SPECIFICATION Spec
CONSTANT
  Parts = {"trail"}
PROPERTY
  OnlyOldSharesDropped
CHECK_DEADLOCK FALSE
