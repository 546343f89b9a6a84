CONSTANTS
  mu = mu
  eta = eta
  gam = gam
  sys = sys
  theory = theory
  POIs = {mu}
  PairedNps <- MCPairedNps
  Gamma = {gam}
  NoName = NoName
  NoPoi = NoPoi
  Absent = Absent
  Unreadable = Unreadable
  Workers = {0, 1, 2}
  MaxFailures = 2
  MaxRounds = 6
  WritesMayFail = FALSE
  Patient = TRUE

SPECIFICATION FairSpec

PROPERTY ResultsKept
PROPERTY RecoverableNpsAreRanked

CHECK_DEADLOCK FALSE
