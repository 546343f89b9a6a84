CONSTANTS
  sys = sys
  held = held
  globSys = globSys
  POIs <- MCPOIs
  NPs = {sys, held}
  Globs = {globSys}
  Others = {}
  Lo <- MCLo
  Hi <- MCHi
  Outcomes <- MCOutcomes
  Names <- MCNames
  ErrorNames <- MCErrorNames
  Launches <- MCLaunches
  AsimovGlobs <- MCAsimovGlobs
  Observed = Observed
  NoData = NoData
  NoErrors = NoErrors
  CommandLines <- MCCommandLines
  Numbers = {"1"}

SPECIFICATION AppSpec

INVARIANT ErrorsForNamesParameters

CHECK_DEADLOCK FALSE
