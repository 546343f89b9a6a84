---------------------------- MODULE NllScanProofs ----------------------------
(***************************************************************************)
(* What a scan holds and what it lets float, and how its workers share out *)
(* the range, proved for every workspace and every request.                *)
(***************************************************************************)
EXTENDS NllScan, WorkspaceProofs

NoOption == ~ settings.one_at_time /\ ~ settings.fit_all_pois /\ ~ settings.user_defined

\* What the options say of the POIs that are not scanned.
Asked(p) ==
  CASE settings.one_at_time  -> FALSE
    [] settings.fit_all_pois -> TRUE
    [] settings.user_defined -> p \in settings.pois_float
    [] OTHER                 -> ~ HeldByWorkspace(p)

\* The other POIs on the way to the last fit: where the workspace has them,
\* except for what a free fit was allowed to move.
OtherPoiUnderWay(p) ==
  /\ pc = "prepare_free_fit" \/ ~ settings.stat_only =>
       ws[p].val = nominal[p].val /\ (ws[p].const <=> HeldByWorkspace(p))
  /\ settings.one_at_time => ws[p].val = nominal[p].val
  /\ settings.one_at_time /\ pc = "free_fit" => ws[p].const
  /\ NoOption => /\ ws[p].const <=> HeldByWorkspace(p)
                 /\ HeldByWorkspace(p) => ws[p].val = nominal[p].val

OtherPoiReady(p) ==
  /\ (~ ws[p].const) <=> Asked(p)
  /\ ~ (settings.stat_only /\ settings.user_defined) /\ ws[p].const =>
       ws[p].val = nominal[p].val

NpReady(n) ==
  IF settings.stat_only THEN ws[n].const /\ ws[n].val = best[n].val
                        ELSE ws[n].const = nominal[n].const

GlobReady(g) == ws[g].val = IF data = Observed THEN Clip(0) ELSE data[g]

\* The dataset is the one that was asked for, and the set of global
\* observables is the workspace's own as long as the dataset is observed.
DataKnown ==
  IF settings.prePostFit = "OBSERVED"
  THEN data = Observed /\ globsInWs
  ELSE data \in GlobValues /\ ~ globsInWs /\ \A g \in Globs : ws[g].val = data[g]

BeforeFits == {"prepare_free_fit", "free_fit", "prepare"}
WithData == BeforeFits \cup {"fit"}
Accepted == WithData \cup {"load", "save", "done"}

\* The published point: held at the start of the last fit.
ResultHeld ==
  /\ res \in Results /\ res.poi = poi
  /\ start \in Workspaces
  /\ start[poi].const /\ start[poi].val = Clip(res.value)

\* The inductive invariant: what is known of each kind of parameter at each
\* point of the scan.
IInv ==
  /\ TypeOK
  /\ pc = "init" => globsInWs
  /\ pc \in Accepted => ~ ReadThrows(settings.description) /\ ~ ExclusiveOptions
  /\ pc = "load" => globsInWs
  /\ pc \in {"prepare_free_fit", "free_fit"} => settings.stat_only
  /\ pc \in WithData => DataKnown
  /\ pc \in {"free_fit", "fit"} => \A g \in Globs : GlobReady(g)
  /\ pc \in BeforeFits => \A p \in POIs \ {poi} : OtherPoiUnderWay(p)
  /\ pc = "fit" => \A p \in POIs \ {poi} : OtherPoiReady(p)
  /\ pc \in {"prepare", "fit"} => \A n \in NPs : NpReady(n)
  /\ pc = "fit" => ws[poi].const /\ ws[poi].val = Clip(Point)
  /\ pc = "save" => ResultHeld
  /\ file # NoResult => file.res = res /\ ResultHeld
  /\ file # NoResult => pc = "done"

-----------------------------------------------------------------------------
(***************************************************************************)
(* The grid.                                                               *)
(***************************************************************************)

\* A description that was read has a range and, if it needs one, a step.
LEMMA GridNumbers ==
  ASSUME NEW d \in Descriptions, ~ ReadThrows(d)
  PROVE  /\ ScanRangeLow(d) \in Int /\ ScanRangeHigh(d) \in Int
         /\ IsGridPointKnown(d) => d.at[1] \in Int
         /\ ~ IsGridPointKnown(d) =>
              /\ GridSize(d) \in Nat /\ GridSize(d) >= 2
              /\ GridStep(d) \in Int
              /\ GridStep(d) * (GridSize(d) - 1) = ScanRangeHigh(d) - ScanRangeLow(d)
<1>1. /\ d.val \in Seq(Int) /\ d.grid \in Seq(Nat)
      /\ d.range \in Seq(End) /\ d.at \in Seq(Int)
  BY PoiConfigAssumption DEF DescriptionType
<1>2. CentralValue(d) \in Int /\ CentralError(d) \in Int
  BY <1>1 DEF CentralValue, CentralError
<1>3. LowEnd(d) \in End /\ HighEnd(d) \in End
  <2>1. [unit |-> "real", amount |-> 0] \in End
    BY DEF End
  <2>2. d.range # <<>> => d.range[1] \in End
    BY <1>1
  <2>3. Len(d.range) = 2 => d.range[2] \in End
    BY <1>1
  <2> QED
    BY <2>1, <2>2, <2>3 DEF LowEnd, HighEnd
<1>4. \A e \in End : RealOf(e) \in Int /\ SigmasOf(e) \in Int
  BY DEF End, RealOf, SigmasOf
<1>5. ScanRangeLow(d) \in Int /\ ScanRangeHigh(d) \in Int
  <2> DEFINE l == LowEnd(d)
             h == HighEnd(d)
  <2>1. /\ RealOf(l) \in Int /\ SigmasOf(l) \in Int
        /\ RealOf(h) \in Int /\ SigmasOf(h) \in Int
    BY <1>3, <1>4
  <2>2. /\ SigmasOf(l) * CentralError(d) \in Int
        /\ SigmasOf(h) * CentralError(d) \in Int
    BY <1>2, <2>1
  <2> QED
    BY <1>2, <2>1, <2>2 DEF ScanRangeLow, ScanRangeHigh
<1>6. IsGridPointKnown(d) => d.at[1] \in Int
  BY <1>1 DEF IsGridPointKnown
<1>7. ASSUME ~ IsGridPointKnown(d)
      PROVE  /\ GridSize(d) \in Nat /\ GridSize(d) >= 2
             /\ GridStep(d) \in Int
             /\ GridStep(d) * (GridSize(d) - 1) = ScanRangeHigh(d) - ScanRangeLow(d)
  <2>1. GridSize(d) \in Nat
    BY <1>1 DEF GridSize
  <2>2. /\ GridSize(d) >= 2
        /\ GridStep(d) * (GridSize(d) - 1) = ScanRangeHigh(d) - ScanRangeLow(d)
    BY <1>7, PoiConfigAssumption
  <2>3. GridStep(d) \in Int
    <3> DEFINE span == ScanRangeHigh(d) - ScanRangeLow(d)
               n == GridSize(d) - 1
    <3>1. span \in Int /\ n \in Int /\ n > 0
      BY <1>5, <2>1, <2>2
    <3> HIDE DEF span, n
    <3>2. span \div n \in Int
      BY <3>1
    <3> QED
      BY <3>2 DEF GridStep, span, n
  <2> QED
    BY <2>1, <2>2, <2>3
<1> QED
  BY <1>5, <1>6, <1>7

\* The point of a worker is a number.
LEMMA PointIsInt ==
  ASSUME NEW d \in Descriptions, ~ ReadThrows(d), NEW w \in Nat
  PROVE  PointOf(d, w) \in Int
<1>1. CASE IsGridPointKnown(d)
  BY <1>1, GridNumbers DEF PointOf
<1>2. CASE ~ IsGridPointKnown(d)
  <2>1. ScanRangeLow(d) \in Int /\ GridStep(d) \in Int
    BY <1>2, GridNumbers
  <2>2. w * GridStep(d) \in Int
    BY <2>1
  <2> QED
    BY <1>2, <2>1, <2>2 DEF PointOf, PointAtGrid
<1> QED
  BY <1>1, <1>2

\* A grid of any size: the first point is the low end, the last one the high
\* end, and the steps between neighbours are equal
\* (GetPointAtGridEquidistant).
THEOREM GridIsEquidistant ==
  ASSUME NEW d \in Descriptions, ~ ReadThrows(d), ~ IsGridPointKnown(d)
  PROVE  SharedOut(d)
<1> DEFINE low == ScanRangeLow(d)
           high == ScanRangeHigh(d)
           step == GridStep(d)
           last == GridSize(d) - 1
<1>1. low \in Int /\ high \in Int /\ step \in Int /\ last \in Nat /\ step * last = high - low
  BY GridNumbers
<1>2. \A w : PointAtGrid(d, w) = low + w * step
  BY DEF PointAtGrid
<1>3. SharedOut(d) <=>
        /\ low + 0 * step = low
        /\ low + last * step = high
        /\ \A w \in 0 .. last - 1 :
             ((low + (w + 1) * step) - (low + w * step)) * last = high - low
  BY <1>2 DEF SharedOut
<1> HIDE DEF low, high, step, last
<1>4. 0 * step = 0 /\ last * step = high - low
  BY <1>1
<1>5. ASSUME NEW w \in 0 .. last - 1
      PROVE  ((low + (w + 1) * step) - (low + w * step)) * last = high - low
  <2>1. (w + 1) * step = w * step + step /\ w * step \in Int
    BY <1>1
  <2>2. (low + (w + 1) * step) - (low + w * step) = step
    BY <1>1, <2>1
  <2> QED
    BY <1>1, <2>2
<1> QED
  BY <1>1, <1>3, <1>4, <1>5

\* The range is the described one (readFromString).
LEMMA RangeIsDescribed ==
  ASSUME NEW d \in Descriptions, ~ ReadThrows(d)
  PROVE  DescribedRange(d)
<1> DEFINE l == LowEnd(d)
           h == HighEnd(d)
           c == CentralValue(d)
           e == CentralError(d)
<1>1. /\ d.val \in Seq(Int) /\ d.range \in Seq(End)
  BY PoiConfigAssumption DEF DescriptionType
<1>2. c \in Int /\ e \in Int
  BY <1>1 DEF CentralValue, CentralError
<1>3. l \in End /\ h \in End
  <2>1. [unit |-> "real", amount |-> 0] \in End
    BY DEF End
  <2>2. d.range # <<>> => d.range[1] \in End
    BY <1>1
  <2>3. Len(d.range) = 2 => d.range[2] \in End
    BY <1>1
  <2> QED
    BY <2>1, <2>2, <2>3 DEF LowEnd, HighEnd
<1>4. ASSUME NEW x \in End
      PROVE  /\ x.amount \in Int /\ x.unit \in {"real", "sigma"}
             /\ x.unit = "real" => RealOf(x) = x.amount
             /\ x.unit = "sigma" =>
                  RealOf(x) = 0 /\ SigmasOf(x) = IF x.amount < 0 THEN -x.amount ELSE x.amount
             /\ x.unit = "real" /\ x.amount = 0 => x = [unit |-> "real", amount |-> 0]
  BY DEF End, RealOf, SigmasOf
<1>5. IsRangeInSigmas(d) <=> l.unit = "sigma" \/ h.unit = "sigma"
  BY DEF IsRangeInSigmas
<1>6. \A n \in Int : (-1) * n * e = -(n * e) /\ 1 * n * e = n * e
  BY <1>2
<1>7. ~ (IsRangeInSigmas(d) /\ l = [unit |-> "real", amount |-> 0]) =>
        ScanRangeLow(d) = IF l.unit = "real" THEN l.amount
          ELSE c + (-1) * (IF l.amount < 0 THEN -l.amount ELSE l.amount) * e
  <2>1. CASE l.unit = "real"
    BY <1>3, <1>4, <2>1 DEF ScanRangeLow
  <2>2. CASE l.unit = "sigma"
    <3> DEFINE n == IF l.amount < 0 THEN -l.amount ELSE l.amount
    <3>1. n \in Int /\ RealOf(l) = 0 /\ SigmasOf(l) = n
      BY <1>3, <1>4, <2>2
    <3> HIDE DEF n
    <3>2. ScanRangeLow(d) = c - n * e
      BY <1>5, <2>2, <3>1 DEF ScanRangeLow
    <3>3. n * e \in Int /\ (-1) * n * e = -(n * e)
      BY <1>2, <1>6, <3>1
    <3>4. ScanRangeLow(d) = c + (-1) * n * e
      BY <1>2, <3>2, <3>3
    <3> QED
      BY <2>2, <3>4 DEF n
  <2> QED
    BY <1>3, <1>4, <2>1, <2>2
<1>8. ~ (IsRangeInSigmas(d) /\ h = [unit |-> "real", amount |-> 0]) =>
        ScanRangeHigh(d) = IF h.unit = "real" THEN h.amount
          ELSE c + 1 * (IF h.amount < 0 THEN -h.amount ELSE h.amount) * e
  <2>1. CASE h.unit = "real"
    BY <1>3, <1>4, <2>1 DEF ScanRangeHigh
  <2>2. CASE h.unit = "sigma"
    <3> DEFINE n == IF h.amount < 0 THEN -h.amount ELSE h.amount
    <3>1. n \in Int /\ RealOf(h) = 0 /\ SigmasOf(h) = n
      BY <1>3, <1>4, <2>2
    <3> HIDE DEF n
    <3>2. ScanRangeHigh(d) = c + n * e
      BY <1>5, <2>2, <3>1 DEF ScanRangeHigh
    <3>3. ScanRangeHigh(d) = c + 1 * n * e
      BY <1>2, <1>6, <3>1, <3>2
    <3> QED
      BY <2>2, <3>3 DEF n
  <2> QED
    BY <1>3, <1>4, <2>1, <2>2
<1> HIDE DEF c, e
<1> QED
  BY <1>7, <1>8, Zenon DEF DescribedRange, c, e

-----------------------------------------------------------------------------
(***************************************************************************)
(* What prepares a fit, parameter by parameter.                            *)
(***************************************************************************)

LEMMA Names ==
  /\ POIs \subseteq Params /\ NPs \subseteq Params /\ Globs \subseteq Params
  /\ \A p \in POIs : p \notin NPs /\ p \notin Globs
  /\ \A n \in NPs : n \notin Globs /\ n \notin POIs
BY WorkspaceAssumption DEF Params

\* The request has the fields of a command line.
LEMMA Request ==
  ASSUME settings \in Requests
  PROVE  /\ settings \in Settings
         /\ settings.poi \in POIs
         /\ settings.description \in Descriptions
         /\ settings.pois_float \subseteq POIs
         /\ settings.worker_id \in Nat \cup {NotGiven}
         /\ settings.one_at_time \in BOOLEAN /\ settings.fit_all_pois \in BOOLEAN
         /\ settings.user_defined \in BOOLEAN /\ settings.stat_only \in BOOLEAN
         /\ settings.prePostFit \in StudyTypes
BY ScanAssumption DEF Settings

\* The snapshot may change any parameter it holds.
LEMMA LoadedType ==
  ASSUME NEW w \in Workspaces
  PROVE  Loaded(w) \in Workspaces
<1>1. CASE settings.snapshot \in DOMAIN Snapshots
  <2> DEFINE s == Snapshots[settings.snapshot]
  <2>1. /\ DOMAIN s \subseteq Params
        /\ \A p \in DOMAIN s : s[p] \in Var
    BY <1>1, ScanAssumption
  <2> HIDE DEF s
  <2>2. loadSnapshot(w, s) \in Workspaces
    BY <2>1 DEF loadSnapshot, Workspaces
  <2> QED
    BY <1>1, <2>2 DEF Loaded, s
<1>2. CASE settings.snapshot \notin DOMAIN Snapshots
  BY <1>2 DEF Loaded
<1> QED
  BY <1>1, <1>2

\* Generating a dataset moves what floats, but no POI; it lets every POI
\* float, and changes no other constant flag.
LEMMA AsimovPoint ==
  ASSUME NEW w \in Workspaces, NEW w2 \in AsimovWorkspaces(w)
  PROVE  /\ w2 \in Workspaces
         /\ \A p \in POIs : w2[p].val = w[p].val /\ w2[p].const = FALSE
         /\ \A n \in NPs : w2[n].const = w[n].const
<1> DEFINE w1 == FixValConst(w, POIs)
<1>1. PICK fitted \in Minimised(w1) : w2 = FloatVals(fitted, POIs)
  BY DEF AsimovWorkspaces
<1>2. /\ w1 \in Workspaces
      /\ \A n \in NPs : w1[n].const = w[n].const
      /\ \A p \in POIs : w1[p].val = w[p].val /\ w1[p].const = TRUE
  BY FixValConstPoint, Names
<1> HIDE DEF w1
<1>3. /\ fitted \in Workspaces
      /\ \A p \in Params \ Floating(w1) : fitted[p] = w1[p]
      /\ \A p \in Floating(w1) : fitted[p].const = FALSE
  <2>1. w1 \in Workspaces
    BY <1>2
  <2>2. /\ fitted \in Workspaces
        /\ \A p \in Params \ Floating(w1) : fitted[p] = w1[p]
        /\ \A p \in Floating(w1) :
             /\ [val |-> fitted[p].val, err |-> fitted[p].err] \in Outcomes
             /\ fitted[p].const = FALSE
    BY ONLY <2>1, fitted \in Minimised(w1), MinimisedPoint, Zenon
  <2> QED
    BY <2>2
<1>4. \A n \in NPs : fitted[n].const = w1[n].const
  BY <1>2, <1>3, Names, WorkspaceField DEF Floating
<1>5. \A p \in POIs : fitted[p] = w1[p]
  BY <1>2, <1>3, Names DEF Floating
<1>6. /\ w2 \in Workspaces
      /\ \A p \in Params :
           /\ w2[p].val = fitted[p].val
           /\ p \in POIs => w2[p].const = FALSE
           /\ p \notin POIs => w2[p].const = fitted[p].const
  <2>1. fitted \in Workspaces
    BY <1>3
  <2> QED
    BY ONLY <1>1, <2>1, FloatValsPoint, Zenon
<1> QED
  BY <1>2, <1>4, <1>5, <1>6, Names

LEMMA SetGlobsPoint ==
  ASSUME NEW w \in Workspaces, NEW globs \in GlobValues
  PROVE  /\ SetGlobs(w, globs) \in Workspaces
         /\ \A p \in Params \ Globs : SetGlobs(w, globs)[p] = w[p]
         /\ \A g \in Globs : SetGlobs(w, globs)[g].val = globs[g]
BY Names DEF SetGlobs, Workspaces, Var, GlobValues

\* The zeroing reaches nothing but global observables, and these only if the
\* set still holds the workspace's own.
LEMMA ForceGlobsPoint ==
  ASSUME NEW w \in Workspaces
  PROVE  /\ ForceGlobsToZero(w) \in Workspaces
         /\ \A p \in Params :
              /\ ForceGlobsToZero(w)[p].const = w[p].const
              /\ p \notin Globs => ForceGlobsToZero(w)[p].val = w[p].val
         /\ ~ globsInWs => ForceGlobsToZero(w) = w
         /\ globsInWs /\ settings.prePostFit # "POSTFIT" =>
              \A g \in Globs : ForceGlobsToZero(w)[g].val = Clip(0)
BY SetVarValPoint, Names DEF ForceGlobsToZero

LEMMA FloatOnePoint ==
  ASSUME NEW w \in Workspaces
  PROVE  /\ FloatOne(w) \in Workspaces
         /\ \A p \in Params :
              /\ FloatOne(w)[p].val = w[p].val
              /\ p = poi => FloatOne(w)[p].const = FALSE
              /\ p \in POIs \ {poi} => FloatOne(w)[p].const = TRUE
              /\ p \notin POIs \cup {poi} => FloatOne(w)[p].const = w[p].const
<1> DEFINE w1 == FixValConst(w, POIs)
<1>1. /\ w1 \in Workspaces
      /\ \A p \in Params :
           /\ w1[p].val = w[p].val
           /\ p \in POIs => w1[p].const = TRUE
           /\ p \notin POIs => w1[p].const = w[p].const
  BY FixValConstPoint
<1> HIDE DEF w1
<1>2. /\ FloatVals(w1, {poi}) \in Workspaces
      /\ \A p \in Params :
           /\ FloatVals(w1, {poi})[p].val = w1[p].val
           /\ p \in {poi} => FloatVals(w1, {poi})[p].const = FALSE
           /\ p \notin {poi} => FloatVals(w1, {poi})[p].const = w1[p].const
  <2>1. w1 \in Workspaces
    BY <1>1
  <2>2. QED BY ONLY <2>1, FloatValsPoint, Zenon
<1> QED
  BY <1>1, <1>2 DEF FloatOne, w1

\* --pois_float: the same with the named POIs.
LEMMA FloatUserPoint ==
  ASSUME NEW w \in Workspaces
  PROVE  LET w2 == FloatVals(FixValConst(w, POIs), settings.pois_float)
         IN /\ w2 \in Workspaces
            /\ \A p \in Params : w2[p].val = w[p].val
            /\ \A p \in POIs : w2[p].const = (p \notin settings.pois_float)
            /\ settings.pois_float \subseteq POIs =>
                 \A p \in Params \ POIs : w2[p].const = w[p].const
<1> DEFINE w1 == FixValConst(w, POIs)
           w2 == FloatVals(w1, settings.pois_float)
<1>1. /\ w1 \in Workspaces
      /\ \A p \in Params :
           /\ w1[p].val = w[p].val
           /\ p \in POIs => w1[p].const = TRUE
           /\ p \notin POIs => w1[p].const = w[p].const
  BY FixValConstPoint
<1> HIDE DEF w1
<1>2. /\ w2 \in Workspaces
      /\ \A p \in Params :
           /\ w2[p].val = w1[p].val
           /\ p \in settings.pois_float => w2[p].const = FALSE
           /\ p \notin settings.pois_float => w2[p].const = w1[p].const
  <2>1. w1 \in Workspaces
    BY <1>1
  <2>2. QED BY ONLY <2>1, FloatValsPoint, Zenon
<1> HIDE DEF w2
<1>3. \A p \in POIs : w2[p].const = (p \notin settings.pois_float)
  BY <1>1, <1>2, Names
<1>4. settings.pois_float \subseteq POIs =>
        \A p \in Params \ POIs : w2[p].const = w[p].const
  BY <1>1, <1>2
<1>5. \A p \in Params : w2[p].val = w[p].val
  BY <1>1, <1>2
<1> QED
  BY <1>2, <1>3, <1>4, <1>5 DEF w1, w2

\* What floats in the last fit, before the scanned POI is fixed.
LEMMA ScanPoisPoint ==
  ASSUME NEW w \in Workspaces, settings \in Requests
  PROVE  /\ ScanPois(w) \in Workspaces
         /\ \A p \in Params : ScanPois(w)[p].val = w[p].val
         /\ \A p \in Params \ POIs : ScanPois(w)[p].const = w[p].const
         /\ \A p \in POIs \ {poi} :
              /\ settings.one_at_time => ScanPois(w)[p].const = TRUE
              /\ ~ settings.one_at_time /\ settings.fit_all_pois =>
                   ScanPois(w)[p].const = FALSE
              /\ ~ settings.one_at_time /\ ~ settings.fit_all_pois
                   /\ settings.user_defined =>
                   ScanPois(w)[p].const = (p \notin settings.pois_float)
              /\ NoOption => ScanPois(w)[p].const = w[p].const
<1>0. /\ settings.pois_float \subseteq POIs /\ poi \in POIs
  BY Request DEF poi
<1>1. CASE settings.one_at_time
  <2> DEFINE w2 == FloatOne(w)
  <2>1. ScanPois(w) = w2
    BY <1>1 DEF ScanPois
  <2>2. /\ w2 \in Workspaces
        /\ \A p \in Params :
             /\ w2[p].val = w[p].val
             /\ p = poi => w2[p].const = FALSE
             /\ p \in POIs \ {poi} => w2[p].const = TRUE
             /\ p \notin POIs \cup {poi} => w2[p].const = w[p].const
    BY FloatOnePoint
  <2> HIDE DEF w2
  <2>3. \A p \in Params \ POIs : w2[p].const = w[p].const
    BY <1>0, <2>2
  <2>4. \A p \in POIs \ {poi} : w2[p].const = TRUE
    BY <2>2, Names
  <2> QED
    BY <1>1, <2>1, <2>2, <2>3, <2>4 DEF NoOption
<1>2. CASE ~ settings.one_at_time /\ settings.fit_all_pois
  <2> DEFINE w2 == FloatVals(w, POIs)
  <2>1. ScanPois(w) = w2
    BY <1>2 DEF ScanPois
  <2>2. /\ w2 \in Workspaces
        /\ \A p \in Params :
             /\ w2[p].val = w[p].val
             /\ p \in POIs => w2[p].const = FALSE
             /\ p \notin POIs => w2[p].const = w[p].const
    BY FloatValsPoint
  <2> HIDE DEF w2
  <2>3. \A p \in POIs : w2[p].const = FALSE
    BY <2>2, Names
  <2> QED
    BY <1>2, <2>1, <2>2, <2>3 DEF NoOption
<1>3. CASE ~ settings.one_at_time /\ ~ settings.fit_all_pois /\ settings.user_defined
  <2> DEFINE w2 == FloatVals(FixValConst(w, POIs), settings.pois_float)
  <2>1. ScanPois(w) = w2
    BY <1>3 DEF ScanPois
  <2>2. /\ w2 \in Workspaces
        /\ \A p \in Params : w2[p].val = w[p].val
        /\ \A p \in POIs : w2[p].const = (p \notin settings.pois_float)
        /\ \A p \in Params \ POIs : w2[p].const = w[p].const
    BY <1>0, FloatUserPoint
  <2> HIDE DEF w2
  <2> QED
    BY <1>3, <2>1, <2>2 DEF NoOption
<1>4. CASE NoOption
  BY <1>4 DEF NoOption, ScanPois
<1> QED
  BY <1>1, <1>2, <1>3, <1>4 DEF NoOption

LEMMA FreeFitPoisPoint ==
  ASSUME NEW w \in Workspaces, settings \in Requests
  PROVE  /\ FreeFitPois(w) \in Workspaces
         /\ \A p \in Params : FreeFitPois(w)[p].val = w[p].val
         /\ \A p \in Params \ POIs : FreeFitPois(w)[p].const = w[p].const
         /\ \A p \in POIs \ {poi} :
              /\ settings.one_at_time => FreeFitPois(w)[p].const = TRUE
              /\ NoOption => FreeFitPois(w)[p].const = w[p].const
<1>0. poi \in POIs
  BY Request DEF poi
<1>1. CASE settings.one_at_time
  <2> DEFINE w2 == FloatOne(w)
  <2>1. FreeFitPois(w) = w2
    BY <1>1 DEF FreeFitPois
  <2>2. /\ w2 \in Workspaces
        /\ \A p \in Params :
             /\ w2[p].val = w[p].val
             /\ p = poi => w2[p].const = FALSE
             /\ p \in POIs \ {poi} => w2[p].const = TRUE
             /\ p \notin POIs \cup {poi} => w2[p].const = w[p].const
    BY FloatOnePoint
  <2> HIDE DEF w2
  <2>3. \A p \in Params \ POIs : w2[p].const = w[p].const
    BY <1>0, <2>2
  <2>4. \A p \in POIs \ {poi} : w2[p].const = TRUE
    BY <2>2, Names
  <2> QED
    BY <1>1, <2>1, <2>2, <2>3, <2>4 DEF NoOption
<1>2. CASE ~ settings.one_at_time /\ settings.fit_all_pois
  <2> DEFINE w2 == FloatVals(w, POIs)
  <2>1. FreeFitPois(w) = w2
    BY <1>2 DEF FreeFitPois
  <2>2. /\ w2 \in Workspaces
        /\ \A p \in Params :
             /\ w2[p].val = w[p].val
             /\ p \in POIs => w2[p].const = FALSE
             /\ p \notin POIs => w2[p].const = w[p].const
    BY FloatValsPoint
  <2> HIDE DEF w2
  <2>3. \A p \in POIs : w2[p].const = FALSE
    BY <2>2, Names
  <2> QED
    BY <1>2, <2>1, <2>2, <2>3 DEF NoOption
<1>3. CASE ~ settings.one_at_time /\ ~ settings.fit_all_pois
  BY <1>3 DEF FreeFitPois
<1> QED
  BY <1>1, <1>2, <1>3

\* The scanned POI is at the point and constant, whatever the options made
\* of it; the rest is as they made it.
LEMMA HoldPoiPoint ==
  ASSUME NEW w \in Workspaces, settings \in Requests, Point \in Int
  PROVE  /\ HoldPoi(w) \in Workspaces
         /\ HoldPoi(w)[poi].const = TRUE
         /\ HoldPoi(w)[poi].val = Clip(Point)
         /\ \A p \in Params \ {poi} :
              /\ HoldPoi(w)[p].val = w[p].val
              /\ HoldPoi(w)[p].const = ScanPois(w)[p].const
<1> DEFINE w1 == ScanPois(w)
           w2 == SetVarVal(w1, {poi}, Point)
           w3 == FixValConst(w2, {poi})
<1>0. poi \in Params
  BY Request, Names DEF poi
<1>1. w1 \in Workspaces /\ \A p \in Params : w1[p].val = w[p].val
  BY ScanPoisPoint
<1> HIDE DEF w1
<1>2. /\ w2 \in Workspaces
      /\ \A p \in Params :
           /\ w2[p].val = IF p \in {poi} THEN Clip(Point) ELSE w1[p].val
           /\ w2[p].err = w1[p].err
           /\ w2[p].const = w1[p].const
  <2>1. w1 \in Workspaces /\ Point \in Int
    BY <1>1
  <2>2. QED BY ONLY <2>1, SetVarValPoint, SMT
<1> HIDE DEF w2
<1>3. /\ w3 \in Workspaces
      /\ \A p \in Params :
           /\ w3[p].val = w2[p].val
           /\ w3[p].err = w2[p].err
           /\ p \in {poi} => w3[p].const = TRUE
           /\ p \notin {poi} => w3[p].const = w2[p].const
  <2>1. w2 \in Workspaces
    BY <1>2
  <2>2. QED BY ONLY <2>1, FixValConstPoint, Zenon
<1>4. HoldPoi(w) = w3
  BY DEF HoldPoi, w2, w1
<1> HIDE DEF w3
<1>5. ASSUME NEW p \in Params \ {poi}
      PROVE  w3[p].val = w[p].val /\ w3[p].const = w1[p].const
  BY <1>1, <1>2, <1>3
<1>6. w3[poi].const = TRUE /\ w3[poi].val = Clip(Point)
  BY <1>0, <1>2, <1>3
<1> QED
  BY <1>3, <1>4, <1>5, <1>6 DEF w1

\* Zeroing leaves the workspace with the global observables of its dataset.
LEMMA Zeroed ==
  ASSUME settings \in Requests, DataKnown, NEW w \in Workspaces,
         \A g \in Globs : w[g].val = ws[g].val
  PROVE  \A g \in Globs :
           /\ ForceGlobsToZero(w)[g].val = IF data = Observed THEN Clip(0) ELSE data[g]
           /\ settings.prePostFit # "OBSERVED" =>
                ForceGlobsToZero(w)[g].val = data[g]
<1>1. CASE settings.prePostFit = "OBSERVED"
  BY <1>1, ForceGlobsPoint DEF DataKnown
<1>2. CASE settings.prePostFit # "OBSERVED"
  <2>1. data # Observed /\ ForceGlobsToZero(w) = w
    BY <1>2, ForceGlobsPoint, ScanAssumption DEF DataKnown
  <2> QED
    BY <1>2, <2>1 DEF DataKnown
<1> QED
  BY <1>1, <1>2

-----------------------------------------------------------------------------
(***************************************************************************)
(* The invariant, action by action.                                        *)
(***************************************************************************)

\* The point of the scan is a number once the request is accepted.
LEMMA PointKnown ==
  ASSUME settings \in Requests, worker_id \in Nat, ~ ReadThrows(settings.description)
  PROVE  Point \in Int
<1>1. settings.description \in Descriptions
  BY Request
<1> DEFINE d == settings.description
<1>2. d \in Descriptions /\ ~ ReadThrows(d)
  BY <1>1
<1> HIDE DEF d
<1>3. PointOf(d, worker_id) \in Int
  BY <1>2, PointIsInt
<1> QED
  BY <1>3 DEF Point, d

LEMMA InitIInv == Init => IInv
<1> SUFFICES ASSUME Init PROVE IInv
  OBVIOUS
<1>1. TypeOK
  BY ScanAssumption DEF Init, TypeOK
<1> QED
  BY <1>1 DEF Init, IInv, Accepted, WithData, BeforeFits

LEMMA InitFromCommandLineKeeps == IInv /\ InitFromCommandLine => IInv'
<1> SUFFICES ASSUME IInv, InitFromCommandLine PROVE IInv'
  OBVIOUS
<1> USE DEF InitFromCommandLine
<1>1. settings \in Requests /\ pc = "init" /\ globsInWs
  BY DEF IInv, TypeOK
<1>2. worker_id' \in Nat
  BY <1>1, ScanAssumption, Request
<1>3. TypeOK'
  BY <1>2 DEF IInv, TypeOK, history
<1>4. file' = NoResult
  BY <1>1 DEF IInv
<1>5. pc' = "load" => ~ ReadThrows(settings.description) /\ ~ ExclusiveOptions
  OBVIOUS
<1>6. ExclusiveOptions' = ExclusiveOptions
  BY DEF ExclusiveOptions
<1>7. pc' \in {"load", "aborted"}
  OBVIOUS
<1> QED
  BY <1>1, <1>3, <1>4, <1>5, <1>6, <1>7
  DEF IInv, Accepted, WithData, BeforeFits

LEMMA LoadSnapshotAndGetDataKeeps == IInv /\ LoadSnapshotAndGetData => IInv'
<1> SUFFICES ASSUME IInv, LoadSnapshotAndGetData PROVE IInv'
  OBVIOUS
<1>1. /\ settings \in Requests /\ ws \in Workspaces /\ pc = "load"
      /\ globsInWs /\ file = NoResult
      /\ ~ ReadThrows(settings.description) /\ ~ ExclusiveOptions
  BY DEF IInv, TypeOK, LoadSnapshotAndGetData, Accepted
<1>2. settings' = settings /\ file' = file /\ worker_id' = worker_id
        /\ best' = best /\ start' = start /\ res' = res
  BY DEF LoadSnapshotAndGetData
<1>3. Loaded(ws) \in Workspaces /\ nominal' = Loaded(ws)
  BY <1>1, LoadedType DEF LoadSnapshotAndGetData
<1>4. ExclusiveOptions' = ExclusiveOptions /\ poi' = poi /\ NoOption' = NoOption
  BY <1>2 DEF ExclusiveOptions, poi, NoOption
<1>5. CASE settings.force_data
  <2>1. ws' = Loaded(ws) /\ pc' = "aborted" /\ data' = data /\ globsInWs' = globsInWs
    BY <1>5 DEF LoadSnapshotAndGetData
  <2>2. TypeOK'
    BY <1>2, <1>3, <2>1 DEF IInv, TypeOK
  <2> QED
    BY <1>1, <1>2, <2>1, <2>2 DEF IInv, Accepted, WithData, BeforeFits
<1>6. CASE ~ settings.force_data
  <2>1. pc' = IF settings.stat_only THEN "prepare_free_fit" ELSE "prepare"
    BY <1>6 DEF LoadSnapshotAndGetData
  <2>2. /\ ws' \in Workspaces
        /\ \A p \in POIs : /\ ws'[p].val = nominal'[p].val
                           /\ ws'[p].const <=> HeldByWorkspace(p)'
        /\ \A n \in NPs : ws'[n].const = nominal'[n].const
        /\ DataKnown'
        /\ data' \in GlobValues \cup {Observed} /\ globsInWs' \in BOOLEAN
    <3>1. CASE settings.prePostFit = "OBSERVED"
      BY <1>1, <1>2, <1>3, <1>6, <3>1
      DEF LoadSnapshotAndGetData, DataKnown, HeldByWorkspace
    <3>2. CASE settings.prePostFit # "OBSERVED"
      <4>1. PICK globs \in AsimovGlobs, fitted \in AsimovWorkspaces(Loaded(ws)) :
              data' = globs /\ ws' = SetGlobs(fitted, globs) /\ globsInWs' = FALSE
        BY <1>6, <3>2 DEF LoadSnapshotAndGetData, GenerateData
      <4>2. globs \in GlobValues
        BY ScanAssumption
      <4>3. /\ fitted \in Workspaces
            /\ \A p \in POIs : /\ fitted[p].val = Loaded(ws)[p].val
                               /\ fitted[p].const = FALSE
            /\ \A n \in NPs : fitted[n].const = Loaded(ws)[n].const
        BY <1>3, AsimovPoint
      <4>4. /\ ws' \in Workspaces
            /\ \A p \in Params \ Globs : ws'[p] = fitted[p]
            /\ \A g \in Globs : ws'[g].val = globs[g]
        BY <4>1, <4>2, <4>3, SetGlobsPoint
      <4>5. DataKnown'
        BY <1>2, <3>2, <4>1, <4>2, <4>4 DEF DataKnown
      <4> QED
        BY <1>2, <1>3, <3>2, <4>1, <4>2, <4>3, <4>4, <4>5, Names DEF HeldByWorkspace
    <3> QED
      BY <3>1, <3>2
  <2>3. TypeOK'
    BY <1>2, <1>3, <2>1, <2>2 DEF IInv, TypeOK
  <2>4. \A p \in POIs \ {poi} : OtherPoiUnderWay(p)'
    <3>1. pc' # "free_fit"
      BY <2>1
    <3>2. SUFFICES ASSUME NEW p \in POIs \ {poi} PROVE OtherPoiUnderWay(p)'
      OBVIOUS
    <3>3. ws'[p].val = nominal'[p].val /\ (ws'[p].const <=> HeldByWorkspace(p)')
      BY <2>2
    <3> QED
      BY <3>1, <3>3 DEF OtherPoiUnderWay
  <2>5. pc' = "prepare" => \A n \in NPs : NpReady(n)'
    BY <1>2, <2>1, <2>2 DEF NpReady
  <2> QED
    BY <1>1, <1>2, <1>4, <2>1, <2>2, <2>3, <2>4, <2>5
    DEF IInv, Accepted, WithData, BeforeFits
<1> QED
  BY <1>5, <1>6

LEMMA PrepareFreeFitKeeps == IInv /\ PrepareFreeFit => IInv'
<1> SUFFICES ASSUME IInv, PrepareFreeFit PROVE IInv'
  OBVIOUS
<1> DEFINE w1 == FreeFitPois(ws)
<1>1. /\ settings \in Requests /\ ws \in Workspaces /\ pc = "prepare_free_fit"
      /\ settings.stat_only /\ DataKnown /\ file = NoResult
      /\ ~ ReadThrows(settings.description) /\ ~ ExclusiveOptions
      /\ \A p \in POIs \ {poi} : OtherPoiUnderWay(p)
  BY DEF IInv, TypeOK, PrepareFreeFit, Accepted, WithData, BeforeFits
<1>2. /\ settings' = settings /\ file' = file /\ worker_id' = worker_id
      /\ data' = data /\ globsInWs' = globsInWs /\ res' = res
      /\ nominal' = nominal /\ best' = best /\ start' = start
      /\ pc' = "free_fit" /\ ws' = ForceGlobsToZero(w1)
  BY DEF PrepareFreeFit, history
<1>3. ExclusiveOptions' = ExclusiveOptions /\ poi' = poi /\ NoOption' = NoOption
  BY <1>2 DEF ExclusiveOptions, poi, NoOption
<1>4. /\ w1 \in Workspaces
      /\ \A p \in Params : w1[p].val = ws[p].val
      /\ \A p \in POIs \ {poi} :
           /\ settings.one_at_time => w1[p].const = TRUE
           /\ NoOption => w1[p].const = ws[p].const
  BY <1>1, FreeFitPoisPoint
<1> HIDE DEF w1
<1>5. /\ ws' \in Workspaces
      /\ \A p \in Params :
           /\ ws'[p].const = w1[p].const
           /\ p \notin Globs => ws'[p].val = w1[p].val
  BY <1>2, <1>4, ForceGlobsPoint
<1>6. \A g \in Globs :
        /\ ws'[g].val = IF data = Observed THEN Clip(0) ELSE data[g]
        /\ settings.prePostFit # "OBSERVED" => ws'[g].val = data[g]
  <2>1. \A g \in Globs : w1[g].val = ws[g].val
    BY <1>4, Names
  <2> QED
    BY <1>1, <1>2, <1>4, <2>1, Zeroed
<1>7. TypeOK'
  BY <1>2, <1>5 DEF IInv, TypeOK
<1>8. DataKnown'
  BY <1>1, <1>2, <1>6 DEF DataKnown
<1>9. \A g \in Globs : GlobReady(g)'
  BY <1>2, <1>6 DEF GlobReady
<1>10. ASSUME NEW p \in POIs \ {poi} PROVE OtherPoiUnderWay(p)'
  <2>1. /\ ws[p].val = nominal[p].val
        /\ ws[p].const <=> HeldByWorkspace(p)
        /\ HeldByWorkspace(p)' = HeldByWorkspace(p)
    BY <1>1, <1>2 DEF OtherPoiUnderWay, HeldByWorkspace
  <2>2. ws'[p].val = ws[p].val /\ ws'[p].const = w1[p].const
    BY <1>4, <1>5, Names
  <2>3. settings.one_at_time => w1[p].const = TRUE
    BY <1>4
  <2>4. NoOption => w1[p].const = ws[p].const
    BY <1>4
  <2> QED
    BY <1>1, <1>2, <1>3, <2>1, <2>2, <2>3, <2>4 DEF OtherPoiUnderWay
<1> QED
  BY <1>1, <1>2, <1>3, <1>7, <1>8, <1>9, <1>10
  DEF IInv, Accepted, WithData, BeforeFits

LEMMA RunFreeFitKeeps == IInv /\ RunFreeFit => IInv'
<1> SUFFICES ASSUME IInv, RunFreeFit PROVE IInv'
  OBVIOUS
<1>1. /\ settings \in Requests /\ ws \in Workspaces /\ pc = "free_fit"
      /\ settings.stat_only /\ DataKnown /\ file = NoResult
      /\ ~ ReadThrows(settings.description) /\ ~ ExclusiveOptions
      /\ \A p \in POIs \ {poi} : OtherPoiUnderWay(p)
  BY DEF IInv, TypeOK, RunFreeFit, Accepted, WithData, BeforeFits
<1>2. /\ settings' = settings /\ file' = file /\ worker_id' = worker_id
      /\ data' = data /\ globsInWs' = globsInWs /\ res' = res
      /\ nominal' = nominal /\ start' = ws /\ pc' = "prepare"
  BY DEF RunFreeFit
<1>3. ExclusiveOptions' = ExclusiveOptions /\ poi' = poi /\ NoOption' = NoOption
  BY <1>2 DEF ExclusiveOptions, poi, NoOption
<1>4. PICK fitted \in Minimised(ws) : ws' = FixValConst(fitted, NPs) /\ best' = fitted
  BY DEF RunFreeFit
<1>5. /\ fitted \in Workspaces
      /\ \A p \in Params \ Floating(ws) : fitted[p] = ws[p]
      /\ \A p \in Floating(ws) : fitted[p].const = FALSE
  <2>1. /\ fitted \in Workspaces
        /\ \A p \in Params \ Floating(ws) : fitted[p] = ws[p]
        /\ \A p \in Floating(ws) :
             /\ [val |-> fitted[p].val, err |-> fitted[p].err] \in Outcomes
             /\ fitted[p].const = FALSE
    BY ONLY <1>1, fitted \in Minimised(ws), MinimisedPoint, Zenon
  <2> QED
    BY <2>1
<1>6. /\ ws' \in Workspaces
      /\ \A p \in Params :
           /\ ws'[p].val = fitted[p].val
           /\ p \in NPs => ws'[p].const = TRUE
           /\ p \notin NPs => ws'[p].const = fitted[p].const
  BY <1>4, <1>5, FixValConstPoint
<1>7. TypeOK'
  BY <1>1, <1>2, <1>4, <1>5, <1>6 DEF IInv, TypeOK
<1>8. DataKnown'
  <2>1. \A g \in Globs : ws'[g].val = ws[g].val
    BY <1>5, <1>6, Names DEF Floating
  <2> QED
    BY <1>1, <1>2, <2>1 DEF DataKnown
<1>9. \A n \in NPs : NpReady(n)'
  BY <1>1, <1>2, <1>4, <1>6, Names DEF NpReady
<1>10. ASSUME NEW p \in POIs \ {poi} PROVE OtherPoiUnderWay(p)'
  <2>1. p \in Params /\ p \notin NPs /\ p \notin Globs
    BY Names
  <2>2. ws'[p].val = fitted[p].val /\ ws'[p].const = fitted[p].const
    BY <1>6, <2>1
  <2>3. ws[p].const => fitted[p] = ws[p]
    BY <1>5, <2>1 DEF Floating
  <2>4. ~ ws[p].const => fitted[p].const = FALSE
    BY <1>5, <2>1 DEF Floating
  <2>5. /\ settings.one_at_time => ws[p].const /\ ws[p].val = nominal[p].val
        /\ NoOption => /\ ws[p].const <=> HeldByWorkspace(p)
                       /\ HeldByWorkspace(p) => ws[p].val = nominal[p].val
    BY <1>1 DEF OtherPoiUnderWay
  <2>6. ws[p].const \in BOOLEAN
    BY <1>1, <2>1, WorkspaceField
  <2>7. settings.one_at_time => ws'[p].val = nominal[p].val
    BY <2>2, <2>3, <2>5
  <2>8. NoOption => /\ ws'[p].const <=> HeldByWorkspace(p)
                    /\ HeldByWorkspace(p) => ws'[p].val = nominal[p].val
    BY <2>2, <2>3, <2>4, <2>5, <2>6
  <2>9. HeldByWorkspace(p)' = HeldByWorkspace(p)
    BY <1>2 DEF HeldByWorkspace
  <2> QED
    BY <1>1, <1>2, <1>3, <2>7, <2>8, <2>9 DEF OtherPoiUnderWay
<1> QED
  BY <1>1, <1>2, <1>3, <1>7, <1>8, <1>9, <1>10
  DEF IInv, Accepted, WithData, BeforeFits

LEMMA PrepareScanKeeps == IInv /\ PrepareScan => IInv'
<1> SUFFICES ASSUME IInv, PrepareScan PROVE IInv'
  OBVIOUS
<1> DEFINE w1 == HoldPoi(ws)
<1>1. /\ settings \in Requests /\ ws \in Workspaces /\ pc = "prepare"
      /\ worker_id \in Nat /\ DataKnown /\ file = NoResult
      /\ ~ ReadThrows(settings.description) /\ ~ ExclusiveOptions
      /\ \A p \in POIs \ {poi} : OtherPoiUnderWay(p)
      /\ \A n \in NPs : NpReady(n)
  BY DEF IInv, TypeOK, PrepareScan, Accepted, WithData, BeforeFits
<1>2. /\ settings' = settings /\ file' = file /\ worker_id' = worker_id
      /\ data' = data /\ globsInWs' = globsInWs /\ res' = res
      /\ nominal' = nominal /\ best' = best /\ start' = start
      /\ pc' = "fit" /\ ws' = ForceGlobsToZero(w1)
  BY DEF PrepareScan, history
<1>3. ExclusiveOptions' = ExclusiveOptions /\ poi' = poi /\ Point' = Point
  BY <1>2 DEF ExclusiveOptions, poi, Point
<1>4. poi \in POIs /\ Point \in Int
  BY <1>1, Request, PointKnown DEF poi
<1>5. /\ w1 \in Workspaces
      /\ w1[poi].const = TRUE /\ w1[poi].val = Clip(Point)
      /\ \A p \in Params \ {poi} :
           w1[p].val = ws[p].val /\ w1[p].const = ScanPois(ws)[p].const
  BY <1>1, <1>4, HoldPoiPoint
<1> HIDE DEF w1
<1>6. /\ ws' \in Workspaces
      /\ \A p \in Params :
           /\ ws'[p].const = w1[p].const
           /\ p \notin Globs => ws'[p].val = w1[p].val
  BY <1>2, <1>5, ForceGlobsPoint
<1>7. \A g \in Globs :
        /\ ws'[g].val = IF data = Observed THEN Clip(0) ELSE data[g]
        /\ settings.prePostFit # "OBSERVED" => ws'[g].val = data[g]
  <2>1. \A g \in Globs : w1[g].val = ws[g].val
    BY <1>4, <1>5, Names
  <2> QED
    BY <1>1, <1>2, <1>5, <2>1, Zeroed
<1>8. TypeOK'
  BY <1>2, <1>6 DEF IInv, TypeOK
<1>9. DataKnown'
  BY <1>1, <1>2, <1>7 DEF DataKnown
<1>10. \A g \in Globs : GlobReady(g)'
  BY <1>2, <1>7 DEF GlobReady
<1>11. \A n \in NPs : NpReady(n)'
  <2>1. \A n \in NPs : ws'[n].val = ws[n].val /\ ws'[n].const = ScanPois(ws)[n].const
    BY <1>4, <1>5, <1>6, Names
  <2>2. \A n \in NPs : ScanPois(ws)[n].const = ws[n].const
    BY <1>1, ScanPoisPoint, Names
  <2> QED
    BY <1>1, <1>2, <2>1, <2>2 DEF NpReady
<1>12. (ws[poi].const /\ ws[poi].val = Clip(Point))'
  BY <1>3, <1>4, <1>5, <1>6, Names
<1>13. ASSUME NEW p \in POIs \ {poi} PROVE OtherPoiReady(p)'
  <2> DEFINE c == ScanPois(ws)[p].const
  <2>1. ws'[p].val = ws[p].val /\ ws'[p].const = c
    BY <1>5, <1>6, Names
  <2>2. /\ settings.one_at_time => c = TRUE
        /\ ~ settings.one_at_time /\ settings.fit_all_pois => c = FALSE
        /\ ~ settings.one_at_time /\ ~ settings.fit_all_pois
             /\ settings.user_defined => c = (p \notin settings.pois_float)
        /\ NoOption => c = ws[p].const
    BY <1>1, ScanPoisPoint
  <2> HIDE DEF c
  <2>3. /\ settings.one_at_time => ws[p].val = nominal[p].val
        /\ ~ settings.stat_only => ws[p].val = nominal[p].val
        /\ NoOption => /\ ws[p].const <=> HeldByWorkspace(p)
                       /\ HeldByWorkspace(p) => ws[p].val = nominal[p].val
    BY <1>1 DEF OtherPoiUnderWay
  <2>4. Asked(p)' = Asked(p)
    BY <1>2 DEF Asked, HeldByWorkspace
  <2>5. (~ c) <=> Asked(p)
    <3>1. CASE settings.one_at_time
      BY <1>1, <2>2, <3>1 DEF Asked, ExclusiveOptions
    <3>2. CASE ~ settings.one_at_time /\ settings.fit_all_pois
      BY <1>1, <2>2, <3>2 DEF Asked, ExclusiveOptions
    <3>3. CASE ~ settings.one_at_time /\ ~ settings.fit_all_pois /\ settings.user_defined
      BY <2>2, <3>3 DEF Asked
    <3>4. CASE NoOption
      <4>1. c <=> HeldByWorkspace(p)
        BY <2>2, <2>3, <3>4
      <4>2. Asked(p) <=> ~ HeldByWorkspace(p)
        BY <3>4 DEF Asked, NoOption
      <4> QED
        BY <4>1, <4>2
    <3> QED
      BY <3>1, <3>2, <3>3, <3>4 DEF NoOption
  <2>6. ~ (settings.stat_only /\ settings.user_defined) /\ c =>
          ws[p].val = nominal[p].val
    BY <2>2, <2>3 DEF NoOption
  <2> QED
    BY <1>2, <2>1, <2>4, <2>5, <2>6 DEF OtherPoiReady
<1> QED
  BY <1>1, <1>2, <1>3, <1>8, <1>9, <1>10, <1>11, <1>12, <1>13
  DEF IInv, Accepted, WithData, BeforeFits

LEMMA RunScanFitKeeps == IInv /\ RunScanFit => IInv'
<1> SUFFICES ASSUME IInv, RunScanFit PROVE IInv'
  OBVIOUS
<1>1. /\ settings \in Requests /\ ws \in Workspaces /\ pc = "fit"
      /\ worker_id \in Nat /\ file = NoResult
      /\ ~ ReadThrows(settings.description) /\ ~ ExclusiveOptions
      /\ ws[poi].const /\ ws[poi].val = Clip(Point)
  BY DEF IInv, TypeOK, RunScanFit, Accepted, WithData, BeforeFits
<1>2. /\ settings' = settings /\ file' = file /\ worker_id' = worker_id
      /\ data' = data /\ globsInWs' = globsInWs
      /\ nominal' = nominal /\ best' = best /\ start' = ws /\ pc' = "save"
  BY DEF RunScanFit
<1>3. ExclusiveOptions' = ExclusiveOptions /\ poi' = poi
  BY <1>2 DEF ExclusiveOptions, poi
<1>4. poi \in POIs /\ Point \in Int
  BY <1>1, Request, PointKnown DEF poi
<1>5. ws' \in Workspaces
  BY <1>1, MinimisedPoint DEF RunScanFit
<1>6. res' \in Results /\ res'.poi = poi /\ res'.value = Point
  <2>1. PICK status \in Statuses :
          res' = [worker |-> worker_id, poi |-> poi, value |-> Point,
                  fit_status |-> status, stat_only |-> settings.stat_only,
                  prePostFit |-> settings.prePostFit]
    BY DEF RunScanFit
  <2> QED
    BY <1>1, <1>4, <2>1, Request DEF Results
<1>7. TypeOK'
  BY <1>1, <1>2, <1>5, <1>6 DEF IInv, TypeOK
<1>8. ResultHeld'
  BY <1>1, <1>2, <1>3, <1>6 DEF ResultHeld
<1> QED
  BY <1>1, <1>2, <1>3, <1>7, <1>8 DEF IInv, Accepted, WithData, BeforeFits

LEMMA SaveResKeeps == IInv /\ SaveRes => IInv'
<1> SUFFICES ASSUME IInv, SaveRes PROVE IInv'
  OBVIOUS
<1>1. /\ pc = "save" /\ file = NoResult /\ ResultHeld
      /\ ~ ReadThrows(settings.description) /\ ~ ExclusiveOptions
  BY DEF IInv, SaveRes, Accepted
<1>2. /\ settings' = settings /\ worker_id' = worker_id /\ ws' = ws
      /\ data' = data /\ globsInWs' = globsInWs /\ res' = res
      /\ nominal' = nominal /\ best' = best /\ start' = start
      /\ pc' \in {"done", "aborted"}
  BY DEF SaveRes, history
<1>3. \/ file' = NoResult
      \/ /\ pc' = "done"
         /\ file' \in [medium : {"file", "console"}, res : Results]
         /\ file'.res = res
  BY <1>1 DEF SaveRes, ResultHeld
<1>4. ExclusiveOptions' = ExclusiveOptions /\ ResultHeld'
  BY <1>1, <1>2 DEF ExclusiveOptions, ResultHeld, poi
<1>5. TypeOK'
  BY <1>2, <1>3 DEF IInv, TypeOK
<1> QED
  BY <1>1, <1>2, <1>3, <1>4, <1>5 DEF IInv, Accepted, WithData, BeforeFits

LEMMA StutterKeeps == IInv /\ UNCHANGED vars => IInv'
<1> SUFFICES ASSUME IInv, UNCHANGED vars PROVE IInv'
  OBVIOUS
<1> USE DEF vars, history
<1>1. TypeOK' /\ (DataKnown' <=> DataKnown) /\ (ResultHeld' <=> ResultHeld)
  BY DEF IInv, TypeOK, DataKnown, ResultHeld, poi
<1>2. ExclusiveOptions' = ExclusiveOptions /\ poi' = poi /\ Point' = Point
  BY DEF ExclusiveOptions, poi, Point
<1>3. \A p \in POIs : /\ OtherPoiUnderWay(p)' <=> OtherPoiUnderWay(p)
                      /\ OtherPoiReady(p)' <=> OtherPoiReady(p)
  BY DEF OtherPoiUnderWay, OtherPoiReady, Asked, HeldByWorkspace, NoOption
<1>4. /\ \A n \in NPs : NpReady(n)' <=> NpReady(n)
      /\ \A g \in Globs : GlobReady(g)' <=> GlobReady(g)
  BY DEF NpReady, GlobReady
<1> QED
  BY <1>1, <1>2, <1>3, <1>4 DEF IInv

-----------------------------------------------------------------------------
\* IInv holds in every reachable state.
THEOREM Invariance == Spec => []IInv
<1>1. Init => IInv
  BY InitIInv
<1>2. IInv /\ [Next]_vars => IInv'
  BY InitFromCommandLineKeeps, LoadSnapshotAndGetDataKeeps, PrepareFreeFitKeeps,
     RunFreeFitKeeps, PrepareScanKeeps, RunScanFitKeeps, SaveResKeeps, StutterKeeps
  DEF Next
<1> QED
  BY <1>1, <1>2, PTL DEF Spec

\* The variables of a scan have their types.
THEOREM TypeCorrect == Spec => []TypeOK
<1>1. IInv => TypeOK
  BY DEF IInv
<1> QED
  BY <1>1, Invariance, PTL

\* A published point is where the POI was held in the published fit.
THEOREM PointHeld == Spec => []PublishedPointWasHeld
<1>1. IInv => PublishedPointWasHeld
  BY DEF IInv, ResultHeld, PublishedPointWasHeld
<1> QED
  BY <1>1, Invariance, PTL

\* In the last fit the other POIs float as the options say, or are where the
\* workspace has them.
THEOREM OthersRight == Spec => []OtherPoisAsAsked
<1>1. IInv => OtherPoisAsAsked
  <2> SUFFICES ASSUME IInv, pc = "fit" PROVE OtherPoisAsAsked
    BY DEF OtherPoisAsAsked
  <2>1. /\ settings.pois_float \subseteq POIs
        /\ \A p \in POIs \ {poi} : OtherPoiReady(p)
        /\ ~ ExclusiveOptions
    BY Request DEF IInv, TypeOK, Accepted, WithData
  <2> DEFINE others == POIs \ {poi}
             floats == {p \in others : ~ ws[p].const}
             asked == CASE settings.one_at_time  -> {}
                        [] settings.fit_all_pois -> others
                        [] settings.user_defined -> settings.pois_float \cap others
                        [] OTHER -> {p \in others : ~ HeldByWorkspace(p)}
  <2>2. floats = asked
    <3>1. CASE settings.one_at_time
      BY <2>1, <3>1 DEF OtherPoiReady, Asked, ExclusiveOptions
    <3>2. CASE ~ settings.one_at_time /\ settings.fit_all_pois
      BY <2>1, <3>2 DEF OtherPoiReady, Asked, ExclusiveOptions
    <3>3. CASE ~ settings.one_at_time /\ ~ settings.fit_all_pois /\ settings.user_defined
      BY <2>1, <3>3 DEF OtherPoiReady, Asked
    <3>4. CASE ~ settings.one_at_time /\ ~ settings.fit_all_pois /\ ~ settings.user_defined
      BY <2>1, <3>4 DEF OtherPoiReady, Asked
    <3> QED
      BY <3>1, <3>2, <3>3, <3>4
  <2>3. ~ (settings.stat_only /\ settings.user_defined) =>
          \A p \in others \ floats : ws[p].val = nominal[p].val
    BY <2>1 DEF OtherPoiReady
  <2> QED
    BY <2>2, <2>3 DEF OtherPoisAsAsked
<1> QED
  BY <1>1, Invariance, PTL

\* A stat-only scan holds the NPs where its free fit left them.
THEOREM NpsRight == Spec => []NpsAsStudyWants
<1>1. IInv => NpsAsStudyWants
  BY DEF IInv, NpReady, NpsAsStudyWants
<1> QED
  BY <1>1, Invariance, PTL

\* Every fit has the global observables of its dataset.
THEOREM GlobsRight == Spec => []GlobsBelongToData
<1>1. IInv => GlobsBelongToData
  BY DEF IInv, GlobReady, GlobsBelongToData
<1> QED
  BY <1>1, Invariance, PTL

\* The workers of a request share out the described range.
THEOREM GridRight == Spec => []GridIsSharedOut
<1>1. IInv => GridIsSharedOut
  <2> SUFFICES ASSUME IInv, ~ ReadThrows(settings.description)
               PROVE  /\ DescribedRange(settings.description)
                      /\ ~ IsGridPointKnown(settings.description) =>
                           SharedOut(settings.description)
    BY DEF GridIsSharedOut
  <2>1. settings.description \in Descriptions
    BY Request DEF IInv, TypeOK
  <2> DEFINE d == settings.description
  <2>2. d \in Descriptions /\ ~ ReadThrows(d)
    BY <2>1
  <2> HIDE DEF d
  <2>3. DescribedRange(d)
    BY <2>2, RangeIsDescribed
  <2>4. ~ IsGridPointKnown(d) => SharedOut(d)
    BY <2>2, GridIsEquidistant
  <2> QED
    BY <2>3, <2>4 DEF d
<1> QED
  BY <1>1, Invariance, PTL

\* "worker #0 takes the smallest allowd value (from the range) and the
\* worker *grid* gives the largest allowed value" (README.md:194), and so
\* does submit_nll_scan.sh:55 count, from 0 to the number of points.  The
\* largest value is that of the worker before, and worker *grid* publishes
\* one step more (GetPointAtGridEquidistant).
GridWorkerIsPastTheRange ==
  LET d == settings.description
  IN res # NoResult /\ ~ IsGridPointKnown(d) /\ worker_id = GridSize(d) =>
       /\ PointAtGrid(d, GridSize(d) - 1) = ScanRangeHigh(d)
       /\ res.value = ScanRangeHigh(d) + GridStep(d)

\* A result has the point of its worker.
ResultIsOfWorker ==
  res # NoResult => /\ res.value = Point
                    /\ ~ ReadThrows(settings.description)
                    /\ pc \in {"save", "done", "aborted"}

\* So it is for every description of a grid.
THEOREM GridWorkerPastTheRange == Spec => []GridWorkerIsPastTheRange
<1>1. Init => ResultIsOfWorker
  BY DEF Init, ResultIsOfWorker
<1>2. IInv /\ ResultIsOfWorker /\ [Next]_vars => ResultIsOfWorker'
  <2> SUFFICES ASSUME IInv, ResultIsOfWorker, [Next]_vars PROVE ResultIsOfWorker'
    OBVIOUS
  <2>1. CASE RunScanFit
    <3>1. ~ ReadThrows(settings.description)
      BY <2>1 DEF IInv, RunScanFit, Accepted, WithData, BeforeFits
    <3> QED
      BY <2>1, <3>1 DEF RunScanFit, ResultIsOfWorker, Point
  <2>2. CASE SaveRes
    BY <2>2 DEF SaveRes, ResultIsOfWorker, Point, history
  <2>3. CASE UNCHANGED vars
    BY <2>3 DEF vars, ResultIsOfWorker, Point
  <2>4. ASSUME ~ RunScanFit, ~ SaveRes, ~ UNCHANGED vars
        PROVE  res = NoResult /\ res' = NoResult
    BY <2>4 DEF Next, ResultIsOfWorker, InitFromCommandLine, LoadSnapshotAndGetData,
                PrepareFreeFit, RunFreeFit, PrepareScan
  <2> QED
    BY <2>1, <2>2, <2>3, <2>4 DEF ResultIsOfWorker
<1>3. IInv /\ ResultIsOfWorker => GridWorkerIsPastTheRange
  <2> SUFFICES ASSUME IInv, ResultIsOfWorker, res # NoResult,
                      ~ IsGridPointKnown(settings.description),
                      worker_id = GridSize(settings.description)
               PROVE  LET d == settings.description
                      IN /\ PointAtGrid(d, GridSize(d) - 1) = ScanRangeHigh(d)
                         /\ res.value = ScanRangeHigh(d) + GridStep(d)
    BY DEF GridWorkerIsPastTheRange
  <2> DEFINE d == settings.description
             low == ScanRangeLow(d)
             high == ScanRangeHigh(d)
             step == GridStep(d)
             grid == GridSize(d)
  <2>1. d \in Descriptions /\ ~ ReadThrows(d)
    BY Request DEF IInv, TypeOK, ResultIsOfWorker
  <2>2. res.value = low + grid * step
    BY DEF ResultIsOfWorker, Point, PointOf, PointAtGrid
  <2>3. PointAtGrid(d, grid - 1) = low + (grid - 1) * step
    BY DEF PointAtGrid
  <2>4. ~ IsGridPointKnown(d)
    OBVIOUS
  <2> HIDE DEF d
  <2>5. /\ low \in Int /\ high \in Int /\ step \in Int /\ grid \in Nat
        /\ step * (grid - 1) = high - low
    BY <2>1, <2>4, GridNumbers
  <2> HIDE DEF low, high, step, grid
  <2>6. (grid - 1) * step = high - low /\ grid * step = (high - low) + step
    BY <2>5
  <2>7. PointAtGrid(d, grid - 1) = high /\ res.value = high + step
    BY <2>2, <2>3, <2>5, <2>6
  <2> QED
    BY <2>7 DEF d, high, step, grid
<1> QED
  BY <1>1, <1>2, <1>3, Invariance, PTL DEF Spec

-----------------------------------------------------------------------------
(***************************************************************************)
(* The worker implements ScanStudy: what each fit holds, and where.        *)
(***************************************************************************)
Fittable == Params \ Globs

\* What the free fit and the fit at the point are to hold.
FreeHolds(p) ==
  IF p \in POIs
  THEN IF settings.one_at_time THEN p # poi
       ELSE ~ settings.fit_all_pois /\ HeldByWorkspace(p)
  ELSE nominal[p].const

PointHolds(p) ==
  \/ p = poi
  \/ p \in POIs /\ ~ Asked(p)
  \/ p \notin POIs /\ nominal[p].const
  \/ p \in NPs /\ settings.stat_only

HeldWhere(p) ==
  IF p = poi THEN Clip(Point)
  ELSE IF settings.stat_only THEN best[p].val
  ELSE nominal[p].val

\* The workspace on its way: as it was read, apart from what a generated
\* dataset has moved and let float; ready for the free fit; after it; ready for the fit at
\* the point.
AsRead ==
  \A p \in Fittable :
    /\ ws[p].const <=> IF p \in POIs THEN HeldByWorkspace(p) ELSE nominal[p].const
    /\ p \in POIs \/ nominal[p].const => ws[p].val = nominal[p].val

ReadyForFreeFit ==
  \A p \in Fittable :
    /\ ws[p].const <=> FreeHolds(p)
    /\ FreeHolds(p) => ws[p].val = nominal[p].val

AfterFreeFit ==
  /\ best \in Workspaces
  /\ \A p \in Fittable :
       /\ ws[p].val = best[p].val
       /\ p \in NPs => ws[p].const
       /\ p \notin NPs => (ws[p].const <=> FreeHolds(p))

ReadyForPoint ==
  \A p \in Fittable :
    /\ ws[p].const <=> PointHolds(p)
    /\ PointHolds(p) => ws[p].val = HeldWhere(p)

\* What there is of the study at each point of the scan.
Progress ==
  /\ pc \in {"init", "load"} => data = NoData
  /\ pc \in {"init", "load", "prepare_free_fit", "free_fit"} => best = NoFit
  /\ pc \in {"init", "load"} \cup WithData => res = NoResult
  /\ pc \in {"prepare", "fit"} =>
       best \in Workspaces \cup {NoFit} /\ (best # NoFit <=> settings.stat_only)
  /\ pc = "save" =>
       /\ data # NoData
       /\ res.value = Point /\ res.stat_only = settings.stat_only
       /\ res.prePostFit = settings.prePostFit

HInv ==
  /\ pc = "prepare_free_fit" \/ (pc = "prepare" /\ ~ settings.stat_only) => AsRead
  /\ pc = "free_fit" => ReadyForFreeFit
  /\ pc = "prepare" /\ settings.stat_only => AfterFreeFit
  /\ pc = "fit" => ReadyForPoint
  /\ Progress

-----------------------------------------------------------------------------
\* The generation of a dataset leaves every POI and every constant parameter
\* where it is, and every constant flag but those of the POIs.
LEMMA AsimovHolds ==
  ASSUME NEW w \in Workspaces, NEW w2 \in AsimovWorkspaces(w), NEW p \in Fittable
  PROVE  /\ w2[p].const <=> (p \notin POIs /\ w[p].const)
         /\ p \in POIs \/ w[p].const => w2[p].val = w[p].val
<1> DEFINE w1 == FixValConst(w, POIs)
<1>1. PICK fitted \in Minimised(w1) : w2 = FloatVals(fitted, POIs)
  BY DEF AsimovWorkspaces
<1>2. /\ w1 \in Workspaces
      /\ \A q \in Params :
           w1[q].val = w[q].val /\ (q \notin POIs => w1[q].const = w[q].const)
  BY FixValConstPoint
<1> HIDE DEF w1
<1>3. /\ fitted \in Workspaces
      /\ \A q \in Params \ Floating(w1) : fitted[q] = w1[q]
      /\ \A q \in Floating(w1) : fitted[q].const = FALSE
  BY <1>2, MinimisedPoint
<1>4. p \in Params /\ p \notin Globs
  BY DEF Fittable
<1>5. CASE p \in POIs
  <2>1. w2[p].const = FALSE /\ w2[p].val = w[p].val
    BY <1>4, <1>5, AsimovPoint
  <2> QED
    BY <1>5, <2>1
<1>6. CASE p \notin POIs
  <2>0. w2[p].val = fitted[p].val /\ w2[p].const = fitted[p].const
    <3>1. fitted \in Workspaces
      BY <1>3
    <3> QED
      BY ONLY <1>1, <1>4, <1>6, <3>1, FloatValsPoint, Zenon
  <2>1. w1[p].const = w[p].const /\ w1[p].val = w[p].val
    BY <1>2, <1>4, <1>6
  <2>2. w[p].const \in BOOLEAN
    BY <1>4, WorkspaceField
  <2>3. CASE w[p].const
    BY <1>3, <1>4, <1>6, <2>0, <2>1, <2>3 DEF Floating
  <2>4. CASE ~ w[p].const
    BY <1>3, <1>4, <1>6, <2>0, <2>1, <2>2, <2>4 DEF Floating
  <2> QED
    BY <2>3, <2>4
<1> QED
  BY <1>5, <1>6

\* What floats in the free fit.
LEMMA FreeFitPoisHolds ==
  ASSUME NEW w \in Workspaces, settings \in Requests, NEW p \in Params
  PROVE  /\ FreeFitPois(w)[p].val = w[p].val
         /\ p \notin POIs => FreeFitPois(w)[p].const = w[p].const
         /\ p \in POIs => FreeFitPois(w)[p].const =
              IF settings.one_at_time THEN p # poi
              ELSE ~ settings.fit_all_pois /\ w[p].const
<1>0. poi \in POIs
  BY Request DEF poi
<1>1. FreeFitPois(w)[p].val = w[p].val /\ (p \notin POIs => FreeFitPois(w)[p].const = w[p].const)
  BY FreeFitPoisPoint
<1>2. CASE settings.one_at_time
  <2>1. FreeFitPois(w) = FloatOne(w)
    BY <1>2 DEF FreeFitPois
  <2>2. /\ p = poi => FloatOne(w)[p].const = FALSE
        /\ p \in POIs \ {poi} => FloatOne(w)[p].const = TRUE
    BY FloatOnePoint
  <2> QED
    BY <1>1, <1>2, <2>1, <2>2
<1>3. CASE ~ settings.one_at_time /\ settings.fit_all_pois
  <2>1. FreeFitPois(w) = FloatVals(w, POIs)
    BY <1>3 DEF FreeFitPois
  <2>2. p \in POIs => FloatVals(w, POIs)[p].const = FALSE
    BY FloatValsPoint
  <2> QED
    BY <1>1, <1>3, <2>1, <2>2
<1>4. CASE ~ settings.one_at_time /\ ~ settings.fit_all_pois
  <2>1. FreeFitPois(w) = w
    BY <1>4 DEF FreeFitPois
  <2>2. w[p].const \in BOOLEAN
    BY WorkspaceField
  <2> QED
    BY <1>1, <1>4, <2>1, <2>2
<1> QED
  BY <1>2, <1>3, <1>4

LEMMA LoadHolds == IInv /\ HInv /\ LoadSnapshotAndGetData => HInv'
<1> SUFFICES ASSUME IInv, HInv, LoadSnapshotAndGetData PROVE HInv'
  OBVIOUS
<1>1. /\ settings \in Requests /\ ws \in Workspaces /\ pc = "load"
      /\ data = NoData /\ best = NoFit /\ res = NoResult
  BY DEF IInv, TypeOK, LoadSnapshotAndGetData, HInv, Progress
<1>2. /\ settings' = settings /\ best' = best /\ res' = res
      /\ nominal' = Loaded(ws)
  BY DEF LoadSnapshotAndGetData
<1>3. Loaded(ws) \in Workspaces /\ settings.stat_only \in BOOLEAN
  BY <1>1, LoadedType, Request
<1>4. CASE settings.force_data
  BY <1>1, <1>2, <1>4
  DEF LoadSnapshotAndGetData, HInv, Progress, WithData, BeforeFits
<1>5. CASE ~ settings.force_data
  <2>1. pc' = IF settings.stat_only THEN "prepare_free_fit" ELSE "prepare"
    BY <1>5 DEF LoadSnapshotAndGetData
  <2>2. ASSUME NEW p \in Fittable
        PROVE  /\ ws'[p].const <=> IF p \in POIs THEN HeldByWorkspace(p)'
                                   ELSE nominal'[p].const
               /\ p \in POIs \/ nominal'[p].const => ws'[p].val = nominal'[p].val
    <3>1. CASE settings.prePostFit = "OBSERVED"
      BY <1>2, <1>5, <3>1 DEF LoadSnapshotAndGetData, HeldByWorkspace
    <3>2. CASE settings.prePostFit # "OBSERVED"
      <4>1. PICK globs \in AsimovGlobs, fitted \in AsimovWorkspaces(Loaded(ws)) :
              ws' = SetGlobs(fitted, globs)
        BY <1>5, <3>2 DEF LoadSnapshotAndGetData, GenerateData
      <4>2. globs \in GlobValues /\ fitted \in Workspaces
        BY <1>3, ScanAssumption, AsimovPoint
      <4>3. ws'[p] = fitted[p]
        BY <4>1, <4>2, SetGlobsPoint DEF Fittable
      <4>4. /\ fitted[p].const <=> (p \notin POIs /\ Loaded(ws)[p].const)
            /\ p \in POIs \/ Loaded(ws)[p].const => fitted[p].val = Loaded(ws)[p].val
        BY <1>3, AsimovHolds
      <4> QED
        BY <1>2, <3>2, <4>3, <4>4 DEF HeldByWorkspace
    <3> QED
      BY <3>1, <3>2
  <2>3. AsRead'
    BY <2>2 DEF AsRead
  <2>4. Progress'
    BY <1>1, <1>2, <1>3, <2>1 DEF Progress, WithData, BeforeFits
  <2> QED
    BY <1>2, <2>1, <2>3, <2>4 DEF HInv
<1> QED
  BY <1>4, <1>5

LEMMA PrepareFreeFitHolds == IInv /\ HInv /\ PrepareFreeFit => HInv'
<1> SUFFICES ASSUME IInv, HInv, PrepareFreeFit PROVE HInv'
  OBVIOUS
<1> DEFINE w1 == FreeFitPois(ws)
<1>1. /\ settings \in Requests /\ ws \in Workspaces /\ pc = "prepare_free_fit"
      /\ AsRead /\ best = NoFit /\ res = NoResult
  BY DEF IInv, TypeOK, PrepareFreeFit, HInv, Progress, WithData, BeforeFits
<1>2. /\ settings' = settings /\ nominal' = nominal /\ best' = best /\ res' = res
      /\ pc' = "free_fit" /\ ws' = ForceGlobsToZero(w1)
  BY DEF PrepareFreeFit, history
<1>3. w1 \in Workspaces
  BY <1>1, FreeFitPoisPoint
<1>4. \A p \in Params :
        /\ w1[p].val = ws[p].val
        /\ p \notin POIs => w1[p].const = ws[p].const
        /\ p \in POIs => w1[p].const =
             IF settings.one_at_time THEN p # poi
             ELSE ~ settings.fit_all_pois /\ ws[p].const
  BY <1>1, FreeFitPoisHolds
<1> HIDE DEF w1
<1>5. ASSUME NEW p \in Fittable
      PROVE  /\ ws'[p].const <=> FreeHolds(p)
             /\ FreeHolds(p) => ws'[p].val = nominal[p].val
  <2>1. p \in Params /\ ws'[p].const = w1[p].const /\ ws'[p].val = w1[p].val
    BY <1>2, <1>3, ForceGlobsPoint DEF Fittable
  <2>2. /\ ws[p].const <=> IF p \in POIs THEN HeldByWorkspace(p) ELSE nominal[p].const
        /\ p \in POIs \/ nominal[p].const => ws[p].val = nominal[p].val
    BY <1>1 DEF AsRead
  <2> QED
    BY <1>4, <2>1, <2>2 DEF FreeHolds
<1>6. \A p : FreeHolds(p)' = FreeHolds(p)
  BY <1>2 DEF FreeHolds, HeldByWorkspace, poi
<1>7. ReadyForFreeFit'
  BY <1>2, <1>5, <1>6 DEF ReadyForFreeFit
<1>8. Progress'
  BY <1>1, <1>2 DEF Progress, WithData, BeforeFits
<1> QED
  BY <1>2, <1>7, <1>8 DEF HInv

LEMMA RunFreeFitHolds == IInv /\ HInv /\ RunFreeFit => HInv'
<1> SUFFICES ASSUME IInv, HInv, RunFreeFit PROVE HInv'
  OBVIOUS
<1>1. /\ settings \in Requests /\ ws \in Workspaces /\ pc = "free_fit"
      /\ settings.stat_only /\ ReadyForFreeFit /\ res = NoResult
  BY DEF IInv, TypeOK, RunFreeFit, HInv, Progress, WithData, BeforeFits
<1>2. /\ settings' = settings /\ nominal' = nominal /\ res' = res /\ pc' = "prepare"
  BY DEF RunFreeFit
<1>3. PICK fitted \in Minimised(ws) : ws' = FixValConst(fitted, NPs) /\ best' = fitted
  BY DEF RunFreeFit
<1>4. /\ fitted \in Workspaces
      /\ \A p \in Params \ Floating(ws) : fitted[p] = ws[p]
      /\ \A p \in Floating(ws) : fitted[p].const = FALSE
  <2>1. /\ fitted \in Workspaces
        /\ \A p \in Params \ Floating(ws) : fitted[p] = ws[p]
        /\ \A p \in Floating(ws) :
             /\ [val |-> fitted[p].val, err |-> fitted[p].err] \in Outcomes
             /\ fitted[p].const = FALSE
    BY ONLY <1>1, fitted \in Minimised(ws), MinimisedPoint, Zenon
  <2> QED
    BY <2>1
<1>5. ASSUME NEW p \in Fittable
      PROVE  /\ ws'[p].val = fitted[p].val
             /\ p \in NPs => ws'[p].const
             /\ p \notin NPs => (ws'[p].const <=> FreeHolds(p))
  <2>1. p \in Params /\ p \notin Globs
    BY DEF Fittable
  <2>2. /\ ws'[p].val = fitted[p].val
        /\ p \in NPs => ws'[p].const = TRUE
        /\ p \notin NPs => ws'[p].const = fitted[p].const
    <3>1. ws' = FixValConst(fitted, NPs) /\ fitted \in Workspaces
      BY <1>3, <1>4
    <3> QED
      BY <2>1, <3>1, FixValConstPoint
  <2>3. ws[p].const <=> FreeHolds(p)
    BY <1>1 DEF ReadyForFreeFit
  <2>4. fitted[p].const <=> ws[p].const
    BY <1>4, <2>1 DEF Floating
  <2> QED
    BY <2>2, <2>3, <2>4
<1>6. \A p : FreeHolds(p)' = FreeHolds(p)
  BY <1>2 DEF FreeHolds, HeldByWorkspace, poi
<1>7. AfterFreeFit'
  BY <1>3, <1>4, <1>5, <1>6 DEF AfterFreeFit
<1>8. best' # NoFit
  BY <1>3, <1>4, ScanAssumption DEF Workspaces
<1>9. Progress'
  BY <1>1, <1>2, <1>3, <1>4, <1>8 DEF Progress, WithData, BeforeFits
<1> QED
  BY <1>1, <1>2, <1>7, <1>9 DEF HInv

LEMMA PrepareScanHolds == IInv /\ HInv /\ PrepareScan => HInv'
<1> SUFFICES ASSUME IInv, HInv, PrepareScan PROVE HInv'
  OBVIOUS
<1> DEFINE w1 == HoldPoi(ws)
<1>1. /\ settings \in Requests /\ ws \in Workspaces /\ pc = "prepare"
      /\ worker_id \in Nat /\ ~ ReadThrows(settings.description)
      /\ ~ ExclusiveOptions /\ res = NoResult
      /\ ~ settings.stat_only => AsRead
      /\ settings.stat_only => AfterFreeFit
      /\ best \in Workspaces \cup {NoFit} /\ (best # NoFit <=> settings.stat_only)
  BY DEF IInv, TypeOK, PrepareScan, Accepted, WithData, BeforeFits, HInv, Progress
<1>2. /\ settings' = settings /\ worker_id' = worker_id /\ res' = res
      /\ nominal' = nominal /\ best' = best
      /\ pc' = "fit" /\ ws' = ForceGlobsToZero(w1)
  BY DEF PrepareScan, history
<1>3. poi \in POIs /\ poi \in Params /\ Point \in Int
  BY <1>1, Request, PointKnown, Names DEF poi
<1>4. /\ w1 \in Workspaces
      /\ w1[poi].const = TRUE /\ w1[poi].val = Clip(Point)
      /\ \A p \in Params \ {poi} :
           w1[p].val = ws[p].val /\ w1[p].const = ScanPois(ws)[p].const
  BY <1>1, <1>3, HoldPoiPoint
<1> HIDE DEF w1
<1>5. \A p \in Fittable :
        p \in Params /\ ws'[p].const = w1[p].const /\ ws'[p].val = w1[p].val
  BY <1>2, <1>4, ForceGlobsPoint DEF Fittable
<1>6. ASSUME NEW p \in Fittable
      PROVE  /\ ws'[p].const <=> PointHolds(p)
             /\ PointHolds(p) => ws'[p].val = HeldWhere(p)
  <2>1. CASE p = poi
    BY <1>3, <1>4, <1>5, <2>1 DEF PointHolds, HeldWhere
  <2>2. CASE p # poi /\ p \in POIs
    <3> DEFINE c == ScanPois(ws)[p].const
    <3>1. ws'[p].val = ws[p].val /\ ws'[p].const = c
      BY <1>4, <1>5, <2>2
    <3>2. /\ settings.one_at_time => c = TRUE
          /\ ~ settings.one_at_time /\ settings.fit_all_pois => c = FALSE
          /\ ~ settings.one_at_time /\ ~ settings.fit_all_pois
               /\ settings.user_defined => c = (p \notin settings.pois_float)
          /\ NoOption => c = ws[p].const
      BY <1>1, <2>2, ScanPoisPoint
    <3> HIDE DEF c
    <3>3. NoOption => (ws[p].const <=> HeldByWorkspace(p))
      <4>1. CASE settings.stat_only
        BY <1>1, <2>2, <4>1, Names DEF AfterFreeFit, FreeHolds, NoOption
      <4>2. CASE ~ settings.stat_only
        BY <1>1, <2>2, <4>2 DEF AsRead
      <4> QED
        BY <4>1, <4>2
    <3>4. c <=> ~ Asked(p)
      <4>1. CASE settings.one_at_time
        BY <1>1, <3>2, <4>1 DEF Asked, ExclusiveOptions
      <4>2. CASE ~ settings.one_at_time /\ settings.fit_all_pois
        BY <1>1, <3>2, <4>2 DEF Asked, ExclusiveOptions
      <4>3. CASE ~ settings.one_at_time /\ ~ settings.fit_all_pois /\ settings.user_defined
        BY <3>2, <4>3 DEF Asked
      <4>4. CASE NoOption
        <5>1. c <=> HeldByWorkspace(p)
          BY <3>2, <3>3, <4>4
        <5>2. Asked(p) <=> ~ HeldByWorkspace(p)
          BY <4>4 DEF Asked, NoOption
        <5> QED
          BY <5>1, <5>2
      <4> QED
        BY <4>1, <4>2, <4>3, <4>4 DEF NoOption
    <3>5. PointHolds(p) <=> ~ Asked(p)
      BY <2>2, Names DEF PointHolds
    <3>6. ws[p].val = HeldWhere(p)
      <4>1. CASE settings.stat_only
        BY <1>1, <2>2, <4>1 DEF AfterFreeFit, HeldWhere
      <4>2. CASE ~ settings.stat_only
        BY <1>1, <2>2, <4>2 DEF AsRead, HeldWhere
      <4> QED
        BY <4>1, <4>2
    <3> QED
      BY <3>1, <3>4, <3>5, <3>6
  <2>3. CASE p \notin POIs
    <3>1. p # poi /\ ws'[p].val = ws[p].val /\ ws'[p].const = ws[p].const
      <4>1. ScanPois(ws)[p].const = ws[p].const
        BY <1>1, <1>5, <2>3, ScanPoisPoint
      <4> QED
        BY <1>3, <1>4, <1>5, <2>3, <4>1
    <3>2. PointHolds(p) <=> nominal[p].const \/ (p \in NPs /\ settings.stat_only)
      BY <2>3, <3>1 DEF PointHolds
    <3>3. CASE settings.stat_only
      BY <1>1, <2>3, <3>1, <3>2, <3>3 DEF AfterFreeFit, FreeHolds, HeldWhere
    <3>4. CASE ~ settings.stat_only
      BY <1>1, <2>3, <3>1, <3>2, <3>4 DEF AsRead, HeldWhere
    <3> QED
      BY <3>3, <3>4
  <2> QED
    BY <2>1, <2>2, <2>3
<1>7. \A p : PointHolds(p)' = PointHolds(p) /\ HeldWhere(p)' = HeldWhere(p)
  BY <1>2 DEF PointHolds, HeldWhere, Asked, HeldByWorkspace, poi, Point
<1>8. ReadyForPoint'
  BY <1>2, <1>6, <1>7 DEF ReadyForPoint
<1>9. Progress'
  BY <1>1, <1>2 DEF Progress, WithData, BeforeFits
<1> QED
  BY <1>2, <1>8, <1>9 DEF HInv

LEMMA RunScanFitHolds == IInv /\ HInv /\ RunScanFit => HInv'
<1> SUFFICES ASSUME IInv, HInv, RunScanFit PROVE HInv'
  OBVIOUS
<1>1. pc' = "save" /\ settings' = settings /\ worker_id' = worker_id /\ data' = data
  BY DEF RunScanFit
<1>2. /\ res'.value = Point /\ res'.stat_only = settings.stat_only
      /\ res'.prePostFit = settings.prePostFit
  BY DEF RunScanFit
<1>3. data # NoData
  BY ScanAssumption DEF IInv, RunScanFit, WithData, DataKnown
<1>4. Point' = Point
  BY <1>1 DEF Point
<1> QED
  BY <1>1, <1>2, <1>3, <1>4 DEF HInv, Progress, WithData, BeforeFits

LEMMA NextHInv == IInv /\ HInv /\ [Next]_vars => HInv'
<1> SUFFICES ASSUME IInv, HInv, [Next]_vars PROVE HInv'
  OBVIOUS
<1>1. CASE InitFromCommandLine
  <2>1. /\ pc = "init" /\ pc' \in {"load", "aborted"}
        /\ data' = data /\ best' = best /\ res' = res
    BY <1>1 DEF InitFromCommandLine, history
  <2> QED
    BY <2>1 DEF HInv, Progress, WithData, BeforeFits
<1>2. CASE SaveRes
  <2>1. pc' \in {"done", "aborted"}
    BY <1>2 DEF SaveRes
  <2> QED
    BY <2>1 DEF HInv, Progress, WithData, BeforeFits
<1>3. CASE UNCHANGED vars
  <2> USE <1>3 DEF vars, history
  <2>1. /\ AsRead' <=> AsRead
        /\ ReadyForFreeFit' <=> ReadyForFreeFit
        /\ AfterFreeFit' <=> AfterFreeFit
    BY DEF AsRead, ReadyForFreeFit, AfterFreeFit, FreeHolds, HeldByWorkspace, poi
  <2>2. ReadyForPoint' <=> ReadyForPoint
    BY DEF ReadyForPoint, PointHolds, HeldWhere, Asked, HeldByWorkspace, poi,
           Point
  <2>3. Progress' <=> Progress
    BY DEF Progress, Point
  <2> QED
    BY <2>1, <2>2, <2>3 DEF HInv
<1> QED
  BY <1>1, <1>2, <1>3, LoadHolds, PrepareFreeFitHolds, RunFreeFitHolds,
     PrepareScanHolds, RunScanFitHolds
  DEF Next

LEMMA InitHInv == Init => HInv
BY DEF Init, HInv, Progress, WithData, BeforeFits

-----------------------------------------------------------------------------
\* The study has the parameters of the workspace.
LEMMA StudyNames ==
  /\ Study!Fittable = Fittable /\ Study!Workspaces = Workspaces
  /\ \A v : Study!Clip(v) = Clip(v)
BY DEF Study!Fittable, Fittable, Study!Workspaces, Workspaces, Study!Params,
       Params, Study!Var, Var, Study!Clip, Clip

\* A worker with a dataset has a job of the study.
LEMMA JobIsJob ==
  settings \in Requests /\ Point \in Int /\ data \in GlobValues \cup {Observed} =>
    JobOfScan \in Study!Jobs
<1> SUFFICES ASSUME settings \in Requests, Point \in Int,
                    data \in GlobValues \cup {Observed}
             PROVE  JobOfScan \in Study!Jobs
  OBVIOUS
<1> DEFINE globs == IF data = Observed THEN [g \in Globs |-> Clip(0)] ELSE data
<1>1. /\ poi \in POIs /\ settings.pois_float \subseteq POIs
      /\ settings.stat_only \in BOOLEAN
      /\ settings.prePostFit \in {"OBSERVED", "PREFIT", "POSTFIT"}
  BY Request DEF poi, StudyTypes
<1>2. FloatOption \in {"one_at_time", "all", "named", "as_they_are"}
  BY DEF FloatOption
<1>3. globs \in [Globs -> Lo .. Hi]
  BY ClipInRange DEF GlobValues
<1>4. JobOfScan =
        [poi |-> poi, point |-> Point, float |-> FloatOption,
         named |-> settings.pois_float, stat_only |-> settings.stat_only,
         study |-> settings.prePostFit, globs |-> globs]
  BY DEF JobOfScan
<1> HIDE DEF globs
<1> QED
  BY <1>1, <1>2, <1>3, <1>4 DEF Study!Jobs

LEMMA JobThere == settings \in Requests /\ Point \in Int
                    /\ data \in GlobValues \cup {Observed} => JobOfScan # NoResult
BY JobIsJob, ScanStudyAssumption

\* What is held in the study is what a worker holds.
LEMMA StudyHolds ==
  ASSUME settings \in Requests, data # NoData, ~ ExclusiveOptions
  PROVE  /\ Study!HeldInFreeFit = {p \in Fittable : FreeHolds(p)}
         /\ Study!HeldAtPoint = {p \in Fittable : PointHolds(p)}
<1>1. /\ JobOfScan.poi = poi /\ JobOfScan.float = FloatOption
      /\ JobOfScan.named = settings.pois_float
      /\ JobOfScan.stat_only = settings.stat_only
      /\ JobOfScan.study = settings.prePostFit
  BY DEF JobOfScan
<1>2. /\ POIs \subseteq Fittable /\ NPs \subseteq Fittable /\ poi \in POIs
      /\ Study!Constant = {p \in Fittable : nominal[p].const}
  BY Names, Request, StudyNames DEF Fittable, poi, Study!Constant
<1> DEFINE constant == {p \in Fittable : nominal[p].const}
           onTheirOwn == {p \in POIs : HeldByWorkspace(p)}
<1>3. Study!HeldOnTheirOwn = onTheirOwn
  BY <1>1, <1>2 DEF Study!HeldOnTheirOwn, HeldByWorkspace
<1>4. Study!HeldInFreeFit =
        (constant \ POIs) \cup
          CASE FloatOption = "one_at_time" -> POIs \ {poi}
            [] FloatOption = "all"         -> {}
            [] OTHER                       -> onTheirOwn
  BY <1>1, <1>2, <1>3 DEF Study!HeldInFreeFit
<1>5. Study!HeldAtPoint =
        {poi} \cup (constant \ POIs)
          \cup (IF settings.stat_only THEN NPs ELSE {})
          \cup CASE FloatOption = "one_at_time" -> POIs
                 [] FloatOption = "all"         -> {}
                 [] FloatOption = "named"       -> POIs \ settings.pois_float
                 [] OTHER                       -> onTheirOwn
  BY <1>1, <1>2, <1>3 DEF Study!HeldAtPoint
<1> DEFINE always == {poi} \cup (constant \ POIs)
                        \cup (IF settings.stat_only THEN NPs ELSE {})
<1>6. CASE settings.one_at_time
  <2>1. FloatOption = "one_at_time"
    BY <1>6 DEF FloatOption
  <2>2. /\ Study!HeldInFreeFit = (constant \ POIs) \cup (POIs \ {poi})
        /\ Study!HeldAtPoint = always \cup POIs
    BY <1>4, <1>5, <2>1
  <2>3. ASSUME NEW p \in Fittable
        PROVE  /\ FreeHolds(p) <=> (p \notin POIs /\ nominal[p].const) \/ (p \in POIs /\ p # poi)
               /\ PointHolds(p) <=> p \in always \/ (p \in POIs)
    <3>1. p \in POIs => (Asked(p) <=> ~ (p \in POIs))
      BY <1>2, <1>6 DEF Asked, ExclusiveOptions
    <3> QED
      BY <1>2, <1>6, <3>1, Names DEF FreeHolds, PointHolds
  <2> QED
    BY <1>2, <2>2, <2>3
<1>7. CASE ~ settings.one_at_time /\ settings.fit_all_pois
  <2>1. FloatOption = "all"
    BY <1>7 DEF FloatOption
  <2>2. /\ Study!HeldInFreeFit = (constant \ POIs) \cup {}
        /\ Study!HeldAtPoint = always \cup {}
    BY <1>4, <1>5, <2>1
  <2>3. ASSUME NEW p \in Fittable
        PROVE  /\ FreeHolds(p) <=> (p \notin POIs /\ nominal[p].const) \/ FALSE
               /\ PointHolds(p) <=> p \in always \/ FALSE
    <3>1. p \in POIs => (Asked(p) <=> ~ FALSE)
      BY <1>2, <1>7 DEF Asked, ExclusiveOptions
    <3> QED
      BY <1>2, <1>7, <3>1, Names DEF FreeHolds, PointHolds
  <2> QED
    BY <1>2, <2>2, <2>3
<1>8. CASE ~ settings.one_at_time /\ ~ settings.fit_all_pois /\ settings.user_defined
  <2>1. FloatOption = "named"
    BY <1>8 DEF FloatOption
  <2>2. /\ Study!HeldInFreeFit = (constant \ POIs) \cup onTheirOwn
        /\ Study!HeldAtPoint = always \cup (POIs \ settings.pois_float)
    BY <1>4, <1>5, <2>1
  <2>3. ASSUME NEW p \in Fittable
        PROVE  /\ FreeHolds(p) <=> (p \notin POIs /\ nominal[p].const) \/ (p \in POIs /\ HeldByWorkspace(p))
               /\ PointHolds(p) <=> p \in always \/ (p \in POIs /\ p \notin settings.pois_float)
    <3>1. p \in POIs => (Asked(p) <=> ~ (p \in POIs /\ p \notin settings.pois_float))
      BY <1>2, <1>8 DEF Asked, ExclusiveOptions
    <3> QED
      BY <1>2, <1>8, <3>1, Names DEF FreeHolds, PointHolds
  <2> QED
    BY <1>2, <2>2, <2>3
<1>9. CASE ~ settings.one_at_time /\ ~ settings.fit_all_pois /\ ~ settings.user_defined
  <2>1. FloatOption = "as_they_are"
    BY <1>9 DEF FloatOption
  <2>2. /\ Study!HeldInFreeFit = (constant \ POIs) \cup onTheirOwn
        /\ Study!HeldAtPoint = always \cup onTheirOwn
    BY <1>4, <1>5, <2>1
  <2>3. ASSUME NEW p \in Fittable
        PROVE  /\ FreeHolds(p) <=> (p \notin POIs /\ nominal[p].const) \/ (p \in POIs /\ HeldByWorkspace(p))
               /\ PointHolds(p) <=> p \in always \/ (p \in POIs /\ HeldByWorkspace(p))
    <3>1. p \in POIs => (Asked(p) <=> ~ (p \in POIs /\ HeldByWorkspace(p)))
      BY <1>2, <1>9 DEF Asked, ExclusiveOptions
    <3> QED
      BY <1>2, <1>9, <3>1, Names DEF FreeHolds, PointHolds
  <2> QED
    BY <1>2, <2>2, <2>3
<1> QED
  BY <1>6, <1>7, <1>8, <1>9

-----------------------------------------------------------------------------
(***************************************************************************)
(* The steps of a worker are steps of the study or leave it as it is.      *)
(***************************************************************************)
LEMMA StudyStutters ==
  ASSUME data' = data, best' = best, res' = res, file' = file,
         data # NoData =>
           settings' = settings /\ worker_id' = worker_id /\ nominal' = nominal,
         res # NoResult => start' = start
  PROVE  UNCHANGED Study!studyVars
<1>1. data # NoData => JobOfScan' = JobOfScan
  BY DEF JobOfScan, poi, Point, FloatOption
<1>2. res # NoResult => ProfileFrom(start)' = ProfileFrom(start)
  BY DEF ProfileFrom
<1> QED
  BY <1>1, <1>2 DEF Study!studyVars, FoundBy, ReportOf

LEMMA LoadAccepts ==
  ASSUME IInv, IInv', HInv, LoadSnapshotAndGetData
  PROVE  Study!Accept \/ UNCHANGED Study!studyVars
<1>1. /\ pc = "load" /\ data = NoData /\ best = NoFit /\ res = NoResult
      /\ file = NoResult /\ settings \in Requests
  BY DEF IInv, TypeOK, LoadSnapshotAndGetData, HInv, Progress
<1>2. /\ settings' = settings /\ worker_id' = worker_id /\ best' = best
      /\ res' = res /\ file' = file /\ start' = start
  BY DEF LoadSnapshotAndGetData
<1>3. CASE data' = data
  BY <1>1, <1>2, <1>3, StudyStutters
<1>4. CASE data' # data
  <2>1. pc' \in WithData
    BY <1>4 DEF LoadSnapshotAndGetData, WithData, BeforeFits
  <2>2. /\ data' \in GlobValues \cup {Observed} /\ settings' \in Requests
        /\ nominal' \in Workspaces /\ worker_id' \in Nat
        /\ settings.prePostFit = "OBSERVED" => data' = Observed
    BY <1>1, <1>2, <1>4, <2>1 DEF IInv, TypeOK, DataKnown
  <2>3. Point' \in Int
    <3>1. Point \in Int
      BY <1>1, PointKnown DEF IInv, TypeOK, Accepted
    <3> QED
      BY <1>2, <3>1 DEF Point
  <2>4. JobOfScan' \in Study!Jobs
    <3>1. (settings \in Requests /\ Point \in Int /\ data \in GlobValues \cup {Observed} =>
             JobOfScan \in Study!Jobs)'
      BY JobIsJob, PTL
    <3> QED
      BY <2>2, <2>3, <3>1
  <2>5. /\ JobOfScan'.study = settings.prePostFit
        /\ data' = Observed => JobOfScan'.globs = [g \in Globs |-> Study!Clip(0)]
    BY <1>2, StudyNames DEF JobOfScan
  <2>6. data' # NoData
    BY <1>1, <1>4
  <2>7. Study!Accept
    BY <1>1, <1>2, <2>2, <2>4, <2>5, <2>6, StudyNames DEF Study!Accept, FoundBy, ProfileFrom, ReportOf
  <2> QED
    BY <2>7
<1> QED
  BY <1>3, <1>4

\* What is known of the dataset in a fit.
LEMMA FitHasJob ==
  ASSUME IInv, pc \in WithData
  PROVE  /\ data # NoData /\ JobOfScan # NoResult
         /\ JobOfScan.stat_only = settings.stat_only
         /\ ~ ExclusiveOptions
<1>1. /\ settings \in Requests /\ worker_id \in Nat
      /\ ~ ReadThrows(settings.description)
      /\ data \in GlobValues \cup {Observed} /\ ~ ExclusiveOptions
  BY DEF IInv, TypeOK, Accepted, DataKnown
<1>2. data # NoData
  BY <1>1, ScanAssumption
<1>3. JobOfScan # NoResult
  BY <1>1, PointKnown, JobThere
<1> QED
  BY <1>1, <1>2, <1>3 DEF JobOfScan

LEMMA RunFreeFitFits == ASSUME IInv, HInv, RunFreeFit PROVE Study!FreeFit
<1>1. /\ settings \in Requests /\ ws \in Workspaces /\ pc = "free_fit"
      /\ settings.stat_only /\ ReadyForFreeFit /\ best = NoFit
      /\ res = NoResult /\ file = NoResult /\ pc \in WithData
  BY DEF IInv, TypeOK, RunFreeFit, HInv, Progress, WithData, BeforeFits
<1>2. /\ settings' = settings /\ worker_id' = worker_id /\ data' = data
      /\ nominal' = nominal /\ res' = res /\ file' = file
  BY DEF RunFreeFit
<1>3. /\ data # NoData /\ JobOfScan # NoResult /\ JobOfScan.stat_only
      /\ ~ ExclusiveOptions
  BY <1>1, FitHasJob
<1>4. PICK fitted \in Minimised(ws) : best' = fitted
  BY DEF RunFreeFit
<1>5. /\ fitted \in Workspaces
      /\ \A p \in Params \ Floating(ws) : fitted[p] = ws[p]
      /\ \A p \in Floating(ws) : [val |-> fitted[p].val, err |-> fitted[p].err] \in Outcomes
  <2>1. /\ fitted \in Workspaces
        /\ \A p \in Params \ Floating(ws) : fitted[p] = ws[p]
        /\ \A p \in Floating(ws) :
             /\ [val |-> fitted[p].val, err |-> fitted[p].err] \in Outcomes
             /\ fitted[p].const = FALSE
    BY ONLY <1>1, fitted \in Minimised(ws), MinimisedPoint, Zenon
  <2> QED
    BY <2>1
<1>6. best' # NoFit
  BY <1>4, <1>5, ScanAssumption DEF Workspaces
<1> DEFINE found == FoundBy(fitted)
<1>7. found \in [Fittable -> Lo .. Hi]
  BY <1>5, WorkspaceField DEF FoundBy, Fittable
<1>8. ASSUME NEW p \in Fittable
      PROVE  /\ FreeHolds(p) => found[p] = nominal[p].val
             /\ ~ FreeHolds(p) => \E o \in Outcomes : found[p] = o.val
  <2>1. p \in Params /\ p \notin Globs /\ found[p] = fitted[p].val
    BY DEF Fittable, FoundBy
  <2>2. /\ ws[p].const <=> FreeHolds(p)
        /\ FreeHolds(p) => ws[p].val = nominal[p].val
    BY <1>1 DEF ReadyForFreeFit
  <2> HIDE DEF found
  <2>3. CASE FreeHolds(p)
    BY <1>5, <2>1, <2>2, <2>3 DEF Floating
  <2>4. CASE ~ FreeHolds(p)
    <3>1. [val |-> fitted[p].val, err |-> fitted[p].err] \in Outcomes
      BY <1>5, <2>1, <2>2, <2>4 DEF Floating
    <3> QED
      BY <2>1, <2>4, <3>1
  <2> QED
    BY <2>3, <2>4
<1> HIDE DEF found
<1>9. found \in Study!FoundInFreeFit
  <2>1. Study!HeldInFreeFit = {p \in Fittable : FreeHolds(p)}
    BY <1>1, <1>3, StudyHolds
  <2> QED
    BY <1>3, <1>7, <1>8, <2>1, StudyNames DEF Study!FoundInFreeFit
<1>10. FoundBy(best)' = found
  BY <1>4 DEF FoundBy, found
<1>11. JobOfScan' = JobOfScan
  BY <1>2 DEF JobOfScan, poi, Point, FloatOption
<1> QED
  BY <1>1, <1>2, <1>3, <1>6, <1>9, <1>10, <1>11 DEF Study!FreeFit

LEMMA RunScanFitFits == ASSUME IInv, HInv, RunScanFit PROVE Study!PointFit
<1>1. /\ settings \in Requests /\ ws \in Workspaces /\ pc = "fit"
      /\ pc \in WithData /\ ReadyForPoint
      /\ res = NoResult /\ file = NoResult
      /\ best \in Workspaces \cup {NoFit} /\ (best # NoFit <=> settings.stat_only)
      /\ data \in GlobValues \cup {Observed}
      /\ \A g \in Globs : GlobReady(g)
  BY DEF IInv, TypeOK, RunScanFit, HInv, Progress, WithData, BeforeFits, DataKnown
<1>2. /\ settings' = settings /\ worker_id' = worker_id /\ data' = data
      /\ nominal' = nominal /\ best' = best /\ file' = file /\ start' = ws
  BY DEF RunScanFit
<1>3. /\ data # NoData /\ JobOfScan # NoResult
      /\ JobOfScan.stat_only = settings.stat_only /\ ~ ExclusiveOptions
  BY <1>1, FitHasJob
<1>4. PICK status \in Statuses :
        res' = [worker |-> worker_id, poi |-> poi, value |-> Point,
                fit_status |-> status, stat_only |-> settings.stat_only,
                prePostFit |-> settings.prePostFit]
  BY DEF RunScanFit
<1>5. res' # NoResult /\ res'.fit_status = status
  <2>1. worker_id \in Nat /\ Point \in Int /\ poi \in POIs
    BY <1>1, Request, PointKnown DEF IInv, TypeOK, Accepted, poi
  <2>2. res' \in Results
    BY <1>1, <1>4, <2>1, Request DEF Results
  <2> QED
    BY <1>4, <2>2, ScanAssumption
<1> DEFINE held == [p \in {q \in Params \ Globs : ws[q].const} |-> ws[p].val]
           globs == [g \in Globs |-> ws[g].val]
<1>6. held = Study!Conditions
  <2>1. Study!HeldAtPoint = {p \in Fittable : PointHolds(p)}
    BY <1>1, <1>3, StudyHolds
  <2>2. {q \in Params \ Globs : ws[q].const} = Study!HeldAtPoint
    BY <1>1, <2>1 DEF ReadyForPoint, Fittable
  <2>3. ASSUME NEW p \in Study!HeldAtPoint
        PROVE  ws[p].val = IF p = poi THEN Study!Clip(Point)
                           ELSE IF settings.stat_only THEN FoundBy(best)[p]
                           ELSE nominal[p].val
    <3>1. p \in Fittable /\ ws[p].val = HeldWhere(p)
      BY <1>1, <2>1 DEF ReadyForPoint
    <3>2. FoundBy(best)[p] = best[p].val
      BY <3>1 DEF FoundBy, Fittable
    <3> QED
      BY <3>1, <3>2, StudyNames DEF HeldWhere
  <2>4. Study!Conditions =
          [p \in Study!HeldAtPoint |->
             IF p = poi THEN Study!Clip(Point)
             ELSE IF settings.stat_only THEN FoundBy(best)[p]
             ELSE nominal[p].val]
    <3>1. JobOfScan.poi = poi /\ JobOfScan.point = Point
      BY DEF JobOfScan
    <3>2. settings.stat_only => best # NoFit
      BY <1>1
    <3> QED
      BY <1>3, <3>1, <3>2 DEF Study!Conditions
  <2> QED
    BY <2>2, <2>3, <2>4
<1>7. globs = JobOfScan.globs
  <2>1. CASE data = Observed
    BY <1>1, <2>1 DEF GlobReady, JobOfScan
  <2>2. CASE data # Observed
    BY <1>1, <2>2 DEF GlobReady, JobOfScan, GlobValues
  <2> QED
    BY <2>1, <2>2
<1>8. ProfileFrom(start)' = [held |-> held, globs |-> globs, status |-> status]
  BY <1>2, <1>5 DEF ProfileFrom
<1> HIDE DEF held, globs
<1>9. JobOfScan' = JobOfScan /\ FoundBy(best)' = FoundBy(best)
  BY <1>2 DEF JobOfScan, poi, Point, FloatOption, FoundBy
<1>10. settings.stat_only => FoundBy(best) # NoResult
  <2>1. ASSUME settings.stat_only PROVE FoundBy(best) \in [Fittable -> Lo .. Hi]
    BY <1>1, <2>1, WorkspaceField DEF FoundBy, Fittable
  <2> QED
    BY <2>1, StudyNames, ScanStudyAssumption
<1> QED
  BY <1>1, <1>2, <1>3, <1>5, <1>6, <1>7, <1>8, <1>9, <1>10 DEF Study!PointFit

LEMMA SaveResPublishes ==
  ASSUME IInv, HInv, SaveRes
  PROVE  Study!Publish \/ UNCHANGED Study!studyVars
<1>1. /\ pc = "save" /\ file = NoResult /\ ResultHeld /\ data # NoData
      /\ res.value = Point /\ res.stat_only = settings.stat_only
      /\ res.prePostFit = settings.prePostFit
  BY DEF IInv, SaveRes, HInv, Progress
<1>2. /\ settings' = settings /\ worker_id' = worker_id /\ data' = data
      /\ res' = res /\ nominal' = nominal /\ best' = best /\ start' = start
  BY DEF SaveRes, history
<1>3. CASE file' = NoResult
  BY <1>1, <1>2, <1>3, StudyStutters
<1>4. CASE file' # NoResult
  <2>1. file'.res = res
    BY <1>1, <1>4 DEF SaveRes
  <2>2. res # NoResult /\ res \in Results /\ start \in Workspaces /\ res.poi = poi
    BY <1>1, ScanAssumption DEF ResultHeld
  <2>3. ProfileFrom(start) # NoResult
    <3> DEFINE held == {q \in Params \ Globs : start[q].const}
    <3>1. [p \in held |-> start[p].val] \in [held -> Lo .. Hi]
      BY <2>2, WorkspaceField
    <3>2. held \in SUBSET Study!Fittable
      BY StudyNames DEF Fittable
    <3>3. [p \in held |-> start[p].val] \in
            UNION {[S -> Lo .. Hi] : S \in SUBSET Study!Fittable}
      BY <3>1, <3>2, Zenon
    <3>4. [g \in Globs |-> start[g].val] \in [Globs -> Lo .. Hi]
      BY <2>2, WorkspaceField, Names
    <3>5. res.fit_status \in Statuses
      BY <2>2 DEF Results
    <3> HIDE DEF held
    <3>6. ProfileFrom(start) =
            [held |-> [p \in held |-> start[p].val],
             globs |-> [g \in Globs |-> start[g].val], status |-> res.fit_status]
      BY DEF ProfileFrom, held
    <3> QED
      BY <3>3, <3>4, <3>5, <3>6, ScanStudyAssumption
  <2>4. ReportOf(file.res)' =
          [poi |-> JobOfScan.poi, value |-> JobOfScan.point,
           status |-> ProfileFrom(start).status, stat_only |-> JobOfScan.stat_only,
           study |-> JobOfScan.study]
    BY <1>1, <2>1, <2>2 DEF ReportOf, JobOfScan, ProfileFrom
  <2>5. /\ JobOfScan' = JobOfScan /\ ProfileFrom(start)' = ProfileFrom(start)
        /\ FoundBy(best)' = FoundBy(best)
    BY <1>2 DEF JobOfScan, poi, Point, FloatOption, ProfileFrom, FoundBy
  <2>6. Study!Publish
    BY <1>1, <1>2, <1>4, <2>2, <2>3, <2>4, <2>5 DEF Study!Publish
  <2> QED
    BY <2>6
<1> QED
  BY <1>3, <1>4

LEMMA InitRefines == Init => Study!StudyInit
<1> SUFFICES ASSUME Init PROVE Study!StudyInit
  OBVIOUS
<1> QED
  BY DEF Init, Study!StudyInit

LEMMA NextRefines ==
  IInv /\ IInv' /\ HInv /\ [Next]_vars => [Study!StudyNext]_Study!studyVars
<1> SUFFICES ASSUME IInv, IInv', HInv, [Next]_vars
             PROVE  Study!StudyNext \/ UNCHANGED Study!studyVars
  OBVIOUS
<1>1. CASE InitFromCommandLine
  <2>1. /\ data = NoData /\ res = NoResult
        /\ data' = data /\ best' = best /\ res' = res /\ file' = file
    BY <1>1 DEF InitFromCommandLine, history, HInv, Progress
  <2> QED
    BY <2>1, StudyStutters
<1>2. CASE PrepareFreeFit \/ PrepareScan
  <2>1. /\ settings' = settings /\ worker_id' = worker_id /\ data' = data
        /\ nominal' = nominal /\ best' = best /\ res' = res /\ file' = file
        /\ start' = start
    BY <1>2 DEF PrepareFreeFit, PrepareScan, history
  <2> QED
    BY <2>1, StudyStutters
<1>3. CASE UNCHANGED vars
  <2>1. /\ settings' = settings /\ worker_id' = worker_id /\ data' = data
        /\ nominal' = nominal /\ best' = best /\ res' = res /\ file' = file
        /\ start' = start
    BY <1>3 DEF vars, history
  <2> QED
    BY <2>1, StudyStutters
<1> QED
  BY <1>1, <1>2, <1>3, LoadAccepts, RunFreeFitFits, RunScanFitFits, SaveResPublishes
  DEF Next, Study!StudyNext

\* A worker implements the study: each of its fits holds what the study
\* says, where it says, on the dataset it says, and the report is of the fit
\* at the point, for any workspace, options and outcomes of the fits.
THEOREM Refinement == Spec => ImplementsStudy
<1>1. Init => HInv
  BY InitHInv
<1>2. IInv /\ HInv /\ [Next]_vars => HInv'
  BY NextHInv
<1> QED
  BY <1>1, <1>2, Invariance, InitRefines, NextRefines, PTL
  DEF Spec, ImplementsStudy, Study!StudySpec
=============================================================================
