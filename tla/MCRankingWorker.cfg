CONSTANTS
  mu = mu
  eta = eta
  gam = gam
  sys = sys
  globGam = globGam
  globSys = globSys
  free = free
  POIs = {mu, eta}
  NPs = {gam, sys}
  Globs = {globGam, globSys}
  Others = {free}
  Gamma <- MCGamma
  Lo <- MCLo
  Hi <- MCHi
  Outcomes <- MCOutcomes
  PairedNps <- MCPairedNps
  Requests <- MCRequests
  Launches <- MCLaunches
  ErrorModes = {"DEFAULT", "HESSE", "MINOS_POIS", "MINOS_NPS", "MINOS_ALL"}
  NoName = NoName
  NoNp = NoNp
  NoCentral = NoCentral
  NoSnapshot = NoSnapshot
  NotRun = NotRun
  NoReport = NoReport

SPECIFICATION Spec

INVARIANT TypeOK
INVARIANT StartsAtStudyPoint
INVARIANT ImpactsBelongToTheirDisplacement
PROPERTY ImplementsStudy

CHECK_DEADLOCK FALSE
