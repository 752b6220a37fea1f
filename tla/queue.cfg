SPECIFICATION Spec
CONSTANTS
  Producer = {"p1", "p2"}
  MAX_JOBS = 3
  SemMayFail = TRUE
INVARIANTS TypeOK QueueInv FirstInFirstOut NoJobStranded CountsAddUp VerdictIsItsOwn
PROPERTIES ServiceKept EveryJobScanned
