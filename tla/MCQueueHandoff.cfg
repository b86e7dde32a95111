CONSTANTS
  MaxReads = 5
  BatchMax = 3
SPECIFICATION Spec
INVARIANTS
  TypeOK
  QueueExclusive
  FrontExists
  InOrder
PROPERTIES
  ImplementsMailbox
  QueuedIsTaken
  LockComesBack
