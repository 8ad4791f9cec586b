SPECIFICATION FairWatchersSpec
CONSTANTS
  p1 = p1
  p2 = p2
  Proposals <- MCProposals
  Forum <- MCForum
  Risky <- MCProposals
  PageSize = 1
  Lookback = 2
  Issuers = 1
  MaxTime = 2
  MaxStarts = 2
CHECK_DEADLOCK FALSE
INVARIANT WatchersTypeOK
PROPERTY EventuallyTold
