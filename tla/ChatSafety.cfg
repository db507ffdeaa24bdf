SPECIFICATION Spec
CONSTANTS
  Sessions = {s1, s2}
  NoSession = NoSession
  Players = {q1, q2, q3}
  NoPlayer = NoPlayer
  Accounts = {7}
  SECTOR_X_MAX = 2
  SECTOR_Y_MAX = 2
  MaxRequests = 5
  MaxJobs = 2
SYMMETRY Symmetry
INVARIANTS TypeOK SectorsExact PlayersAccounted AnswersNeedLogin AudienceExact
PROPERTY AccountKept
CHECK_DEADLOCK FALSE
