\* One browser that has saved its authentication and is reloaded.
CONSTANTS
  d1 = d1
  d2 = d2
  Devices = {d1}
  Creds = {"mn", "other"}
  Right = "mn"
  MaxSessions = 2
  MaxFaults = 1
SPECIFICATION FairSpec
PROPERTY CookieIsChecked
CHECK_DEADLOCK FALSE
