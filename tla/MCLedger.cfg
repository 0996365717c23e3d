\* The payer and the splitter end with their runs.
SPECIFICATION Spec
CONSTANT
  Parts = {"trail", "batches", "reruns", "tasks", "files", "book", "script", "pairs", "pieces", "waiting"}
INVARIANTS
  TrailKept
  BooksBalance
  PaidOncePerRun
  CyclesHold
  SharesCounted
PROPERTIES
  PassesHold
  BookedOnlyWhenPaid
CHECK_DEADLOCK FALSE
