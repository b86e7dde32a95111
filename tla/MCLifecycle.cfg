SPECIFICATION Spec
CONSTANTS
  Instances <- FourInstances
  MaxCommands = 4
  MaxCrashes = 2
INVARIANTS
  TypeOK
  KeepsPath
PROPERTIES
  StartServes
  AgainShares
CHECK_DEADLOCK FALSE
