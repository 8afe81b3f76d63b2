\* Two browsers that share the session of the one user.
CONSTANTS
  d1 = d1
  d2 = d2
  Devices = {d1, d2}
  Creds = {"mn", "other"}
  Right = "mn"
  MaxSessions = 2
  MaxFaults = 2
SPECIFICATION FairSpec
INVARIANT SessionInv
INVARIANT EveryLoginCounts
PROPERTY LoginEnds
PROPERTY LossEndsAtForm
\* The ids are used up, or every browser hangs.
CHECK_DEADLOCK FALSE
