\* The list of consumers reallocates at sizes 0, 1 and 2 while the worker walks it.
CONSTANTS
  PublishMqtt = PublishMqtt
  ValueChanged = ValueChanged
  Idle = Idle
  Events = {PublishMqtt, ValueChanged}
  Filters <- MCFilters
  MaxEvents = 3
  MaxConsumers = 3
SPECIFICATION FairSpec
INVARIANT NoConsumerFallsBehind
INVARIANT BusInv
PROPERTY ImplementsBroadcastLog
PROPERTY AcceptedIsDispatched
PROPERTY DeinitReturns
\* The manager stops after Deinit, and the process may die.
CHECK_DEADLOCK FALSE
