SPECIFICATION SafetySpec
CONSTANTS
  Client = {c1, c2}
  Admin = {a1, a2}
  MaxClients = 1
  MaxFd = 4
  AdminTimeout = 1
  AdminBacklog = 1
  ClientBacklog = 2
  ClientTexts <- MCNoTexts
  AdminTexts <- MCStatsTexts
  PollMayFail = TRUE
SYMMETRY MCSymmetry
INVARIANTS SlotsLive CountMatches NoOrphan RecvNeverBlocks StatsReplySane OneAdmin
PROPERTY ClosedForCause
