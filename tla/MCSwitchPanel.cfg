\* One frontend whose page is requested twice, and another user who posts the switch.
CONSTANTS
  Clients = {c1}
  Loads = {1, 2}
  Remote = {"SETHOFLIGHT"}
  Backlog = 2
  MaxPosts = 2
SPECIFICATION FairSpec
INVARIANT PanelFollowsLight
INVARIANT LightFollowsSwitch
PROPERTY TapIsAnswered
PROPERTY PanelSettles
\* Everything may be done: the posts used up, the socket lost, the page there.
CHECK_DEADLOCK FALSE
