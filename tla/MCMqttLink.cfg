\* Two sessions, one value posted and one message sent by others.
CONSTANTS
  devices = devices
  Notify = notify
  Topics = {notify, devices}
  MaxConnects = 2
  MaxPosts = 1
  MaxSends = 1
SPECIFICATION FairSpec
INVARIANT PublishedInOrder
INVARIANT LinkInv
INVARIANT OncePerConnect
INVARIANT HeardInOrder
PROPERTY ImplementsRepeater
PROPERTY SubscriptionsReturn
PROPERTY NotifyIsAnswered
CHECK_DEADLOCK FALSE
