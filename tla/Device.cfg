\* One device under every request and generator update.
SPECIFICATION Spec
CONSTANTS
  Sizes <- MCSizes
  Registers <- MCRegisters
  Requests <- MCRequests
  Generated <- MCGenerated
  MAX_READ_BITS = 2
  MAX_READ_REGISTERS = 2
  MAX_WRITE_COILS = 2
  MAX_WRITE_REGISTERS = 2
INVARIANTS
  TypeOK
  AcknowledgedIsApplied
  ReadsSeeAcknowledgedWrites
  ExceptionPriority
PROPERTIES
  OnlyNamedSlotsChange
