\* Six data packets; at most two losses and one delay, or the tunnel goes down.
SPECIFICATION FairSpec
CONSTANTS
  Count = 7
  MinTotal = 3
  Duration = 6
  MaxRetries = 4
  RetryDelay = 1
  StatsInterval = 3
  Timeout = 9
  Losses = 2
  Delays = 1
  MaxWorkers = 3
INVARIANTS TypeOK EntryOwned LossNotOverstated RecoversFromOneLoss
PROPERTIES TestEnds
CHECK_DEADLOCK FALSE
