\* Two clients and a generator.  The system stops when every peer is gone
\* and the generator task has ended.
SPECIFICATION Spec
CHECK_DEADLOCK FALSE
CONSTANTS
  c1 = c1
  c2 = c2
  Conns <- MCConns
  Scripts <- MCScripts
  NewDevices <- MCDevices
  Bindings <- MCBindings
  FAILING = {1}
  Samples <- MCSamples
  READ_FRAMES = 3
  HIGH_WATER = 1
  LOW_WATER = 0
  MAX_READ_BITS = 2
  MAX_READ_REGISTERS = 2
  MAX_WRITE_COILS = 2
  MAX_WRITE_REGISTERS = 2
INVARIANTS
  TypeOK
  AnsweredInOrder
  NoLockAcrossAwait
  SuspendedForAReason
  BacklogBounded
  CloseDealtWithAll
PROPERTIES
  ServesLikeOneAtATime
