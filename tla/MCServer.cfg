CONSTANTS
  Threads = {t1, t2}
  Fds = {f1, f2, f3}
  Null = Null
  Sick = Sick
  Dead = Dead
  MaxCalls = 2
  MaxCount = 5
SYMMETRY Alike
SPECIFICATION Spec
INVARIANTS
  TypeOK
  HandlesOwned
  SharedByAll
  HarmOnlyByRace
PROPERTIES
  ShortageIsForGood
CHECK_DEADLOCK FALSE
