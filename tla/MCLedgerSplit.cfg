\* The splitter alone, which a crash may interrupt and the next run repeat.
SPECIFICATION Spec
CONSTANT
  Parts = {"reruns"}
PROPERTY
  SplitStartsClean
CHECK_DEADLOCK FALSE
