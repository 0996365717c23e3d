\* A program that has ended and a chain that has stopped rest for ever.
SPECIFICATION FairSpec
CONSTANTS
  Parts = {"splitter", "dial", "first", "backup", "session", "poll", "feed", "node", "http", "dns", "route", "reload", "api", "log", "life", "tasks", "book", "script", "tap"}
  NoFile = NoFile
PROPERTIES
  ServedInTheEnd
  SettledInTheEnd
  DoneInTheEnd
CHECK_DEADLOCK FALSE
