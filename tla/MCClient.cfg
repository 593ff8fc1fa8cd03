CONSTANTS
  Accounts <- MCAccounts
  Sellers <- MCSellers
  JunkId = 9
  Lines <- MCLines
  Numbers <- MCNumbers
  MaxDepth = 7
SPECIFICATION FairSpec
INVARIANTS
  TypeOK
  RequestsAreTheOwners
  SellerMenuIsASellers
  FreedNeverRead
  LoginsAgree
PROPERTIES
  QuitEnds
CHECK_DEADLOCK FALSE
