\* Peers that owe nothing.
SPECIFICATION SilentSpec
CHECK_DEADLOCK FALSE
CONSTANTS
  a = a
  b = b
  Conns <- MCConns
  HIGH = 1
  UNREAD = 1
  BINDINGS = TRUE
  WAITS = {FALSE}
PROPERTIES
  InterruptStops
