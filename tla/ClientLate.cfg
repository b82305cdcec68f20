\* One caller that polls on after errors, as bench.py does, 773 calls later.
SPECIFICATION Spec
CHECK_DEADLOCK FALSE
CONSTANTS
  a = a
  b = b
  Callers <- MCCallers
  Uses <- Polling
  NewDevice <- MCDevice
  UNIT = 1
  USED_TID = 773
  LAST_TID = 65535
  MAX_READ_BITS = 2000
  MAX_READ_REGISTERS = 125
  MAX_WRITE_COILS = 1968
  MAX_WRITE_REGISTERS = 123
INVARIANTS
  AnswersAreOwn
