CONSTANTS
  Names <- MCNames
  Passwords <- MCPasswords
  Types <- MCTypes
  Topups <- MCTopups
  Threads <- MCThreads
  MaxUsers = 3
  MaxRequests = 5
SPECIFICATION Spec
INVARIANTS
  TypeOK
  UniqueNames
  LossOnlyByCrossing
PROPERTIES
  NameKeepsAccount
