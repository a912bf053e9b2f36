CONSTANTS
  FirstFd = 3
  MaxConnections = 2
SPECIFICATION Spec
INVARIANTS OwnsDescriptor
CHECK_DEADLOCK FALSE
