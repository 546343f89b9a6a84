CONSTANTS
  list = list
  ArgSets = {list}
  NoSet = NoSet
  Statuses = {0, 1, 4}
  Requests <- MCRequests
  NoErrors = NoErrors
  MaxCalls = 2

SPECIFICATION FairSpec

INVARIANT TypeOK
INVARIANT RetryPolicy
INVARIANT ErrorsAtRequestedStrategy
INVARIANT LastFitStatusIsOfThisCall
PROPERTY MinimizeEnds

CHECK_DEADLOCK FALSE
