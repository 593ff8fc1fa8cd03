CONSTANTS
  Delimiter = 1
  ByteMod = 3
  HugeLen = 6
  Requests <- MCRequests
  Responses <- MCResponses
SPECIFICATION Spec
INVARIANT SurvivesClients
