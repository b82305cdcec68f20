\* Peers that read, and both kinds of wait_closed.
SPECIFICATION ReadersSpec
CHECK_DEADLOCK FALSE
CONSTANTS
  a = a
  b = b
  Conns <- MCConns
  HIGH = 1
  UNREAD = 1
  BINDINGS = TRUE
  WAITS = {FALSE, TRUE}
INVARIANTS
  TypeOK
  AnswersAreFlushed
  FailureSurfaces
PROPERTIES
  InterruptStops
