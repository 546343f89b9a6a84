------------------------------ MODULE PoiConfig ------------------------------
(***************************************************************************)
(* scans::PoiConfig: what a scan knows of its parameter of interest (POI), *)
(* read from a description such as                                         *)
(*   mu(val 1 0.1 : grid 11 : range 2s : at 0.5)                           *)
(* and the point of the grid a worker computes from it.  Every part of the *)
(* description but the name may be missing: an empty sequence.             *)
(*                                                                         *)
(* Doubles are integers, in a unit in which the steps of the grids at hand *)
(* are integers too.                                                       *)
(***************************************************************************)
EXTENDS Integers, Sequences

CONSTANT Descriptions  \* of POIs, as a command line may give them

End == [unit : {"real", "sigma"}, amount : Int]

DescriptionType ==
  [val : Seq(Int), grid : Seq(Nat), range : Seq(End), at : Seq(Int)]

-----------------------------------------------------------------------------
(***************************************************************************)
(* The scan range.                                                         *)
(***************************************************************************)

\* Malformed: a central value without its error, or a type of grid, which
\* the syntax foresees and the code rejects.
ReadThrows(d) == Len(d.val) = 1 \/ Len(d.grid) = 2

CentralValue(d) == IF Len(d.val) = 2 THEN d.val[1] ELSE 0
CentralError(d) == IF Len(d.val) = 2 THEN d.val[2] ELSE 0
GridSize(d) == IF Len(d.grid) = 1 THEN d.grid[1] ELSE 1

\* One end serves both sides.  No end leaves the initial values of the
\* members, 0 in real units.
LowEnd(d) == IF d.range = <<>> THEN [unit |-> "real", amount |-> 0] ELSE d.range[1]
HighEnd(d) == IF Len(d.range) = 2 THEN d.range[2] ELSE LowEnd(d)

IsRangeInSigmas(d) == "sigma" \in {LowEnd(d).unit, HighEnd(d).unit}

RealOf(end) == IF end.unit = "real" THEN end.amount ELSE 0

\* An end that is not in sigmas has the initial 2.
SigmasOf(end) ==
  IF end.unit = "real" THEN 2
  ELSE IF end.amount < 0 THEN -end.amount ELSE end.amount

\* ComputeRangeFromSigmasIfNeeded: a limit of 0 stands for "not yet known".
ScanRangeLow(d) ==
  IF IsRangeInSigmas(d) /\ RealOf(LowEnd(d)) = 0
  THEN CentralValue(d) - SigmasOf(LowEnd(d)) * CentralError(d)
  ELSE RealOf(LowEnd(d))

ScanRangeHigh(d) ==
  IF IsRangeInSigmas(d) /\ RealOf(HighEnd(d)) = 0
  THEN CentralValue(d) + SigmasOf(HighEnd(d)) * CentralError(d)
  ELSE RealOf(HighEnd(d))

-----------------------------------------------------------------------------
(***************************************************************************)
(* The grid.                                                               *)
(***************************************************************************)

\* length / (size_grid - 1); the assumption below says it is exact.
GridStep(d) == (ScanRangeHigh(d) - ScanRangeLow(d)) \div (GridSize(d) - 1)

\* Mutant: counts the points from 1.
PointAtGridFromOne(d, worker) == ScanRangeLow(d) + (worker - 1) * GridStep(d)

\* GetPointAtGridEquidistant.  Nothing ties the worker to the grid.
PointAtGrid(d, worker) == ScanRangeLow(d) + worker * GridStep(d)

IsGridPointKnown(d) == Len(d.at) = 1

\* Either a point is given, or there is a grid.  (A grid of one point has
\* step 0/0, and no point is a number; such descriptions are left out.)
ASSUME PoiConfigAssumption ==
  /\ Descriptions \subseteq DescriptionType
  /\ \A d \in Descriptions :
       ~ ReadThrows(d) /\ ~ IsGridPointKnown(d) =>
         /\ GridSize(d) >= 2
         /\ GridStep(d) * (GridSize(d) - 1) = ScanRangeHigh(d) - ScanRangeLow(d)

PointOf(d, worker) ==
  IF IsGridPointKnown(d) THEN d.at[1] ELSE PointAtGrid(d, worker)

-----------------------------------------------------------------------------
\* Each end of the range is what the description says: a number is itself,
\* a number of sigmas counts errors from the central value
\* (readFromString).  A number 0 beside an end in sigmas is left out: there
\* the code takes it for "not given" and puts two sigmas in its place.
DescribedRange(d) ==
  LET zeroBesideSigmas(end) ==
        IsRangeInSigmas(d) /\ end = [unit |-> "real", amount |-> 0]
      abs(n) == IF n < 0 THEN -n ELSE n
      wanted(end, sign) ==
        IF end.unit = "real" THEN end.amount
        ELSE CentralValue(d) + sign * abs(end.amount) * CentralError(d)
  IN /\ ~ zeroBesideSigmas(LowEnd(d)) => ScanRangeLow(d) = wanted(LowEnd(d), -1)
     /\ ~ zeroBesideSigmas(HighEnd(d)) => ScanRangeHigh(d) = wanted(HighEnd(d), 1)

\* As many workers as the grid has points share it out: the first is at the
\* low end, the last at the high end, and between them each is one and the
\* same distance above the one before.
SharedOut(d) ==
  LET last == GridSize(d) - 1
      span == ScanRangeHigh(d) - ScanRangeLow(d)
  IN /\ PointAtGrid(d, 0) = ScanRangeLow(d)
     /\ PointAtGrid(d, last) = ScanRangeHigh(d)
     /\ \A w \in 0 .. last - 1 :
          (PointAtGrid(d, w + 1) - PointAtGrid(d, w)) * last = span
=============================================================================
