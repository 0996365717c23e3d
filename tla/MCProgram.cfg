\* A program that has ended, a line that was read, a log that is full and a
\* computation that is done have no step left.
SPECIFICATION Spec
CONSTANTS
  Parts = {"one", "two", "mix", "changed", "reload", "ported", "api", "log", "rows", "life",
           "listen", "scalars", "field", "edwards", "signing", "digest", "wallet", "worth", "texts",
           "signed", "extra", "tree"}
  NoFile = NoFile
INVARIANTS
  OptionsKept
  ConfigurationHolds
  BooksAndLife
  NumbersExact
  SignaturesHold
  DigestsAgree
  BlocksAsHashed
PROPERTY
  Undisturbed
CHECK_DEADLOCK FALSE
