CONSTANTS
  mu = mu
  eta = eta
  sys = sys
  held = held
  globSys = globSys
  free = free
  POIs = {mu, eta}
  NPs = {sys, held}
  Globs = {globSys}
  Others = {free}
  Lo <- MCLo
  Hi <- MCHi
  Outcomes <- MCOutcomes
  Descriptions <- MCDescriptions
  Requests <- MCRequests
  Launches <- MCLaunches
  Snapshots <- MCSnapshots
  AsimovGlobs <- MCAsimovGlobs
  WorkerIds = {0, 1, 7}
  Statuses = {0, 1, 4}
  NotGiven = NotGiven
  Observed = Observed
  NoData = NoData
  NoFit = NoFit
  NoResult = NoResult

SPECIFICATION Spec

INVARIANT TypeOK
INVARIANT PublishedPointWasHeld
INVARIANT OtherPoisAsAsked
INVARIANT NpsAsStudyWants
INVARIANT GlobsBelongToData
INVARIANT GridIsSharedOut
PROPERTY ImplementsStudy

CHECK_DEADLOCK FALSE
