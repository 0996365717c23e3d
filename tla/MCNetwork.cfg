\* A closed session, an upstream that was stopped and a queue that is empty
\* may rest for ever.
SPECIFICATION Spec
CONSTANT
  Parts = {"dial", "failover", "single", "session", "simple", "extra", "cross", "fee", "calm",
           "route", "poll", "feed", "node", "http", "crowd", "dns", "lines", "chunks"}
INVARIANTS
  LinksSound
  SessionsSound
  SplittersSound
  TemplatesSound
  TransportSound
PROPERTIES
  LinkSpec
  LeaseSpec
  HandedOver
CHECK_DEADLOCK FALSE
