SPECIFICATION FairSpec
CONSTANTS
  Callers = {k1, k2}
  NoCaller = none
  LastGen = 2
  Legacy = TRUE
  Life = 4
  Buffer = 1
  Skew = 2
  MaxWait = 2
  Horizon = 5
INVARIANTS TypeOK OneRefreshAtATime CacheFollowsDisk
PROPERTIES ServedTokensAreLive EveryCallerIsAnswered
CHECK_DEADLOCK FALSE
