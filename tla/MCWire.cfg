CONSTANTS
  Delimiter = 1
  ByteMod = 3
  HugeLen = 6
  Requests <- MCRequests
  Responses <- MCResponses
SPECIFICATION FairSpec
INVARIANTS
  TypeOK
  ExecutedAsSent
  FieldsArrive
  AnswerIsTheServers
PROPERTIES
  FeedEnds
  ServeEnds
