CONSTANTS
  sys = sys
  held = held
  globSys = globSys
  POIs <- MCPOIs
  NPs = {sys, held}
  Globs = {globSys}
  Others = {}
  Lo <- MCLo
  Hi <- MCHi
  Outcomes <- MCOutcomes
  Names <- MCNames
  ErrorNames <- MCErrorNames
  Launches <- MCLaunches
  AsimovGlobs <- MCAsimovGlobs
  Observed = Observed
  NoData = NoData
  NoErrors = NoErrors
  CommandLines <- MCCommandLines
  Numbers = {"1"}

SPECIFICATION AppSpec

INVARIANT AppTypeOK
INVARIANT ParsedAsWritten
INVARIANT UnknownKeysStopTheTask
INVARIANT OnlyFreeFitOutIsRejected
INVARIANT ExitStatusTellsTheTruth
INVARIANT FreeFitIsTheOneAskedFor
INVARIANT OnlyRequiredPoisFloat
INVARIANT LastFitHoldsNpsAsAsked
INVARIANT FreeFitGlobsBelongToData
INVARIANT ErrorsOfLastFitOnly

CHECK_DEADLOCK FALSE
