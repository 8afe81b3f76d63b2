\* Two usable slots: the ring is full after two messages, and offsets wrap.
CONSTANTS
  Clients = {c1, c2}
  Chatty = {c1}
  RingSize = 3
  MaxMessages = 4
SPECIFICATION FairRingSpec
INVARIANT RingSafe
INVARIANT NoLostWakeup
INVARIANT RingInv
PROPERTY ServesLikeFanOut
PROPERTY ToldIsServed
