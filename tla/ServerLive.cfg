\* Two clients, one of which may never take its responses, and a generator.
SPECIFICATION LiveSpec
CONSTANTS
  c1 = c1
  c2 = c2
  Conns <- MCConns
  Scripts <- LiveScripts
  NewDevices <- MCDevices
  Bindings <- MCBindings
  FAILING = {}
  Samples <- MCSamples
  READ_FRAMES = 3
  HIGH_WATER = 0
  LOW_WATER = 0
  MAX_READ_BITS = 2
  MAX_READ_REGISTERS = 2
  MAX_WRITE_COILS = 2
  MAX_WRITE_REGISTERS = 2
PROPERTIES
  ReadersAreServed
  HandlersAlwaysEnd
  GeneratorsKeepRunning
