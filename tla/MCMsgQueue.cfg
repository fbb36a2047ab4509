CONSTANTS
  Senders = {s1, s2}
  Receivers = {r1}
  Events = {"play", "abort"}
  MaxItems = 2
  MaxCalls = 5
SPECIFICATION Spec
INVARIANTS TypeOK FreedUnused SleepsOnlyOnEmpty
PROPERTIES DeleteEnds
CHECK_DEADLOCK FALSE
