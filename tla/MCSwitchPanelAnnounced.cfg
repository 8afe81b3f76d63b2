\* Another user posts the light itself while the script sets it.
CONSTANTS
  Clients = {}
  Loads = {1}
  Remote = {"SETHOFLIGHT", "HOFLIGHT"}
  Backlog = 2
  MaxPosts = 3
SPECIFICATION Spec
INVARIANT AnnouncedIsStored
CHECK_DEADLOCK FALSE
