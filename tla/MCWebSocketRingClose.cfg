\* Clients only listen, so that no two inserts overlap: what remains is Close.
CONSTANTS
  Clients = {c1, c2}
  Chatty = {}
  RingSize = 3
  MaxMessages = 3
SPECIFICATION RingSpec
INVARIANT DestroyedWhenAllHadACopy
