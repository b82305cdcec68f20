\* Calls and raw PDUs at the real limits of frame.py.  A plan comes to an end.
SPECIFICATION Spec
CHECK_DEADLOCK FALSE
CONSTANTS
  Plans <- MCPlans
  NewDevice <- MCDevice
  UNIT = 1
  LAST_TID = 1
  MAX_READ_BITS = 2000
  MAX_READ_REGISTERS = 125
  MAX_WRITE_COILS = 1968
  MAX_WRITE_REGISTERS = 123
INVARIANTS
  CallMeansDispatch
  ResponseFits
  LegalCallsAreAnswered
  EveryPduIsAnswered
  DecoderIsExact
