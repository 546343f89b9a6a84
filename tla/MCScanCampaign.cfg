CONSTANTS
  mu = mu
  eta = eta
  old = old
  alien = alien
  POIs = {mu, eta}
  Descriptions <- MCDescriptions
  Scripts <- MCScripts
  Likelihoods <- MCLikelihoods
  Statuses = {0, 1}
  OldFiles = {old, alien}
  OldContent <- MCOldContent
  NotAResult = NotAResult
  Absent = Absent
  Empty = Empty
  NoPoi = NoPoi
  MaxFailures = 1
  MaxSubmissions = 2

SPECIFICATION FairSpec

INVARIANT TypeOK
INVARIANT CurvesHoldGoodResults
INVARIANT GoodPointsAreDrawn
PROPERTY ScanGetsComplete

CHECK_DEADLOCK FALSE
