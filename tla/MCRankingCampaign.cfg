CONSTANTS
  mu = mu
  eta = eta
  gam = gam
  sys = sys
  theory = theory
  POIs = {mu, eta}
  PairedNps <- MCPairedNps
  Gamma = {gam}
  NoName = NoName
  NoPoi = NoPoi
  Absent = Absent
  Unreadable = Unreadable
  Workers = {1}
  MaxFailures = 1
  MaxRounds = 1
  WritesMayFail = TRUE
  Patient = FALSE

SPECIFICATION Spec
SYMMETRY MCSymmetry

INVARIANT TypeOK
INVARIANT MissingListIsRight

CHECK_DEADLOCK FALSE
