\* Every file of MCConfigs.  A rejected file ends the program.
SPECIFICATION Spec
CHECK_DEADLOCK FALSE
CONSTANTS
  Text = Text
  Configs <- MCConfigs
INVARIANTS
  TypeOK
  WhatIsAcceptedRuns
  StoreIsAsConfigured
