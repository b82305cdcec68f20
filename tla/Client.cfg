\* The uses of a client one after the other, as its ids start again.
SPECIFICATION LiveSpec
CHECK_DEADLOCK FALSE
CONSTANTS
  a = a
  b = b
  Callers <- MCCallers
  Uses <- AllUses
  NewDevice <- MCDevice
  UNIT = 1
  USED_TID = 65534
  LAST_TID = 65535
  MAX_READ_BITS = 2000
  MAX_READ_REGISTERS = 125
  MAX_WRITE_COILS = 1968
  MAX_WRITE_REGISTERS = 123
INVARIANTS
  TypeOK
  CautiousAnswersAreOwn
  AnswersAreOwnInStep
  NothingLeftBehind
  FailuresAreOfTheConnection
PROPERTIES
  EveryCallEnds
