CONSTANTS
  Worker = {w1, w2}
  MaxEvents = 3
  MaxAttempts = 2
  BatchSize = 2
  Poison <- PoisonFirst
  MaxFaults = 1
SPECIFICATION FairSpec
CHECK_DEADLOCK FALSE
INVARIANTS TypeOK ProcessedWasHandled DeadWasTried
PROPERTIES QueueDrains HealthyDelivered
