------------------------------- MODULE NllScan -------------------------------
(***************************************************************************)
(* One worker of a likelihood scan: NllScanManager, started by             *)
(* Application::ProcessNllScanComputation on a workspace of its own.  It   *)
(* computes its point of the grid, holds the scanned parameter of interest *)
(* (POI) there, minimises the likelihood over what floats, and writes one  *)
(* result file.  A stat-only scan first makes a fit to find where to hold  *)
(* the nuisance parameters (NPs).                                          *)
(*                                                                         *)
(* As on the command line, one POI is scanned.  Each fit is an action, and *)
(* what prepares it is another.  An exception ends in pc = "aborted".      *)
(***************************************************************************)
EXTENDS Workspace, PoiConfig

CONSTANTS
  Requests,     \* command lines
  Launches,     \* workspaces as read
  Snapshots,    \* the snapshots of the workspace: name -> what it holds
  AsimovGlobs,  \* global observables a generated dataset may come with
  WorkerIds,    \* what an uninitialised worker number may be
  Statuses,     \* what GetLastFitStatus may answer
  NotGiven,     \* a worker number that is absent
  Observed,     \* the observed dataset
  NoData, NoFit, NoResult

StudyTypes == {"OBSERVED", "PREFIT", "POSTFIT"}

\* The options; user_defined says that there is a --pois_float.
Settings ==
  [poi : POIs, description : Descriptions, worker_id : Nat \cup {NotGiven},
   one_at_time : BOOLEAN, fit_all_pois : BOOLEAN,
   user_defined : BOOLEAN, pois_float : SUBSET POIs,
   stat_only : BOOLEAN, prePostFit : StudyTypes, force_data : BOOLEAN,
   snapshot : STRING]

GlobValues == [Globs -> Lo .. Hi]

Results ==
  [worker : Nat, poi : POIs, value : Int, fit_status : Statuses,
   stat_only : BOOLEAN, prePostFit : StudyTypes]

ASSUME ScanAssumption ==
  /\ Requests \subseteq Settings
  /\ Launches \subseteq Workspaces
  /\ \A name \in DOMAIN Snapshots :
       /\ DOMAIN Snapshots[name] \subseteq Params
       /\ \A p \in DOMAIN Snapshots[name] : Snapshots[name][p] \in Var
  /\ AsimovGlobs \subseteq GlobValues
  /\ WorkerIds \subseteq Nat
  /\ NotGiven \notin Nat
  /\ NoData \notin GlobValues /\ NoData # Observed /\ Observed \notin GlobValues
  /\ NoFit \notin [Params -> Var] /\ NoResult \notin Results

VARIABLES
  settings,
  worker_id,
  ws,
  data,       \* Observed, or the global observables it was generated with
  globsInWs,  \* fitSettings_.globalObs holds the variables of the workspace
  res,        \* res_
  file,       \* what was written, and where
  pc,
  \* history, read by properties only
  nominal,    \* the workspace once the snapshot is loaded
  best,       \* the workspace after the free fit
  start       \* the workspace at the start of the last fit

history == <<nominal, best, start>>
vars == <<settings, worker_id, ws, data, globsInWs, res, file, pc, history>>

poi == settings.poi

-----------------------------------------------------------------------------
(***************************************************************************)
(* InitFromCommandLine and ProcessNllScanComputation.                      *)
(***************************************************************************)
ExclusiveOptions ==
  \/ settings.one_at_time /\ settings.fit_all_pois
  \/ settings.one_at_time /\ settings.user_defined
  \/ settings.fit_all_pois /\ settings.user_defined

InitFromCommandLine ==
  /\ pc = "init"
  /\ IF settings.worker_id = NotGiven THEN worker_id' \in WorkerIds
                                      ELSE worker_id' = settings.worker_id
  /\ pc' = IF ExclusiveOptions \/ ReadThrows(settings.description)
           THEN "aborted" ELSE "load"
  /\ UNCHANGED <<settings, ws, data, globsInWs, res, file, history>>

-----------------------------------------------------------------------------
(***************************************************************************)
(* RunScan: the snapshot and the dataset.                                  *)
(***************************************************************************)

\* A snapshot the workspace does not have is not loaded.
Loaded(w) ==
  IF settings.snapshot \in DOMAIN Snapshots
  THEN loadSnapshot(w, Snapshots[settings.snapshot]) ELSE w

SetGlobs(w, globs) ==
  [p \in Params |-> IF p \in Globs
                    THEN [val |-> globs[p], err |-> w[p].err, const |-> w[p].const]
                    ELSE w[p]]

\* MakeAsimovData of RooStats makes the POIs constant, fits what floats, and
\* leaves every POI floating, those that were constant before it included.
\* It replaces the set of global observables it is given by copies that have
\* the values of the new dataset.
AsimovWorkspaces(w) ==
  {FloatVals(fitted, POIs) : fitted \in Minimised(FixValConst(w, POIs))}

\* Mutant: the values of the copies do not reach the workspace.
GenerateDataOnly ==
  \E globs \in AsimovGlobs, fitted \in AsimovWorkspaces(Loaded(ws)) :
    /\ data' = globs
    /\ ws' = fitted
    /\ globsInWs' = FALSE

\* condGlobObs brings them into the workspace.
GenerateData ==
  \E globs \in AsimovGlobs, fitted \in AsimovWorkspaces(Loaded(ws)) :
    /\ data' = globs
    /\ ws' = SetGlobs(fitted, globs)
    /\ globsInWs' = FALSE

\* The name of the dataset that --force_data asks for is never set, and
\* there is no dataset without a name.
LoadSnapshotAndGetData ==
  /\ pc = "load"
  /\ nominal' = Loaded(ws)
  /\ \/ /\ settings.force_data
        /\ ws' = Loaded(ws)
        /\ pc' = "aborted"
        /\ UNCHANGED <<data, globsInWs>>
     \/ /\ ~ settings.force_data
        /\ \/ /\ settings.prePostFit = "OBSERVED"
              /\ data' = Observed
              /\ ws' = Loaded(ws)
              /\ UNCHANGED globsInWs
           \/ /\ settings.prePostFit # "OBSERVED"
              /\ GenerateData
        /\ pc' = IF settings.stat_only THEN "prepare_free_fit" ELSE "prepare"
  /\ UNCHANGED <<settings, worker_id, res, file, best, start>>

-----------------------------------------------------------------------------
(***************************************************************************)
(* What floats and where it starts.                                        *)
(***************************************************************************)
\* Mutant: the other POIs are not fixed.
FloatOneOnly(w) == FloatVals(w, {poi})

FloatOne(w) == FloatVals(FixValConst(w, POIs), {poi})

\* Copies are of no consequence to the workspace.
ForceGlobsToZero(w) ==
  IF settings.prePostFit # "POSTFIT" /\ globsInWs THEN SetVarVal(w, Globs, 0) ELSE w

ScanPois(w) ==
  IF settings.one_at_time THEN FloatOne(w)
  ELSE IF settings.fit_all_pois THEN FloatVals(w, POIs)
  ELSE IF settings.user_defined THEN FloatVals(FixValConst(w, POIs), settings.pois_float)
  ELSE w

\* --pois_float has no say in the free fit.  Mutant: ScanPois, as if it had.
FreeFitPois(w) ==
  IF settings.one_at_time THEN FloatOne(w)
  ELSE IF settings.fit_all_pois THEN FloatVals(w, POIs)
  ELSE w

Point == PointOf(settings.description, worker_id)

\* Mutant: the POI is fixed before the options decide what floats.
HoldPoiFirst(w) ==
  ScanPois(FixValConst(SetVarVal(w, {poi}, Point), {poi}))

\* SetPOIsToTheRequiredGridPosition and FixGridPOIs
HoldPoi(w) == FixValConst(SetVarVal(ScanPois(w), {poi}, Point), {poi})

PrepareFreeFit ==
  /\ pc = "prepare_free_fit"
  /\ ws' = ForceGlobsToZero(FreeFitPois(ws))
  /\ pc' = "free_fit"
  /\ UNCHANGED <<settings, worker_id, data, globsInWs, res, file, history>>

\* Mutant: the NPs are left floating.
RunFreeFitNpsFloat ==
  /\ pc = "free_fit"
  /\ ws' \in Minimised(ws)
  /\ best' = ws'
  /\ start' = ws
  /\ pc' = "prepare"
  /\ UNCHANGED <<settings, worker_id, data, globsInWs, res, file, nominal>>

\* Its status is not looked at.
RunFreeFit ==
  /\ pc = "free_fit"
  /\ \E fitted \in Minimised(ws) :
       /\ ws' = FixValConst(fitted, NPs)
       /\ best' = fitted
  /\ start' = ws
  /\ pc' = "prepare"
  /\ UNCHANGED <<settings, worker_id, data, globsInWs, res, file, nominal>>

PrepareScan ==
  /\ pc = "prepare"
  /\ ws' = ForceGlobsToZero(HoldPoi(ws))
  /\ pc' = "fit"
  /\ UNCHANGED <<settings, worker_id, data, globsInWs, res, file, history>>

RunScanFit ==
  /\ pc = "fit"
  /\ ws' \in Minimised(ws)
  /\ start' = ws
  /\ \E status \in Statuses :
       res' = [worker |-> worker_id, poi |-> poi, value |-> Point,
               fit_status |-> status, stat_only |-> settings.stat_only,
               prePostFit |-> settings.prePostFit]
  /\ pc' = "save"
  /\ UNCHANGED <<settings, worker_id, data, globsInWs, file, nominal, best>>

\* The directory cannot be made; or the file cannot be written, and the
\* result goes to the console.
SaveRes ==
  /\ pc = "save"
  /\ \/ /\ \E medium \in {"file", "console"} :
             file' = [medium |-> medium, res |-> res]
        /\ pc' = "done"
     \/ /\ pc' = "aborted"
        /\ UNCHANGED file
  /\ UNCHANGED <<settings, worker_id, ws, data, globsInWs, res, history>>

-----------------------------------------------------------------------------
Init ==
  /\ settings \in Requests
  /\ worker_id = 1
  /\ ws \in Launches
  /\ data = NoData
  /\ globsInWs = TRUE
  /\ res = NoResult /\ file = NoResult
  /\ pc = "init"
  /\ nominal = ws /\ best = NoFit /\ start = NoFit

Next ==
  \/ InitFromCommandLine
  \/ LoadSnapshotAndGetData
  \/ PrepareFreeFit
  \/ RunFreeFit
  \/ PrepareScan
  \/ RunScanFit
  \/ SaveRes

Spec == Init /\ [][Next]_vars

-----------------------------------------------------------------------------
\* Every variable has its type.
TypeOK ==
  /\ settings \in Requests
  /\ worker_id \in Nat
  /\ ws \in Workspaces /\ nominal \in Workspaces
  /\ data \in GlobValues \cup {Observed, NoData}
  /\ globsInWs \in BOOLEAN
  /\ res \in Results \cup {NoResult}
  /\ file = NoResult \/ file \in [medium : {"file", "console"}, res : Results]
  /\ pc \in {"init", "load", "prepare_free_fit", "free_fit", "prepare", "fit",
             "save", "done", "aborted"}
  /\ best \in Workspaces \cup {NoFit} /\ start \in Workspaces \cup {NoFit}

-----------------------------------------------------------------------------
(***************************************************************************)
(* The worker implements ScanStudy.                                        *)
(***************************************************************************)
FloatOption ==
  IF settings.one_at_time THEN "one_at_time"
  ELSE IF settings.fit_all_pois THEN "all"
  ELSE IF settings.user_defined THEN "named"
  ELSE "as_they_are"

JobOfScan ==
  [poi |-> poi, point |-> Point, float |-> FloatOption,
   named |-> settings.pois_float, stat_only |-> settings.stat_only,
   study |-> settings.prePostFit,
   globs |-> IF data = Observed THEN [g \in Globs |-> Clip(0)] ELSE data]

\* A POI that is constant in the workspace, and still is with the dataset.
HeldByWorkspace(p) == settings.prePostFit = "OBSERVED" /\ nominal[p].const

FoundBy(w) == [p \in Params \ Globs |-> w[p].val]

ProfileFrom(w) ==
  [held |-> [p \in {q \in Params \ Globs : w[q].const} |-> w[p].val],
   globs |-> [g \in Globs |-> w[g].val], status |-> res.fit_status]

ReportOf(r) ==
  [poi |-> r.poi, value |-> r.value, status |-> r.fit_status,
   stat_only |-> r.stat_only, study |-> r.prePostFit]

Study == INSTANCE ScanStudy WITH
  Nothing <- NoResult,
  job     <- IF data = NoData THEN NoResult ELSE JobOfScan,
  nominal <- IF data = NoData THEN NoResult ELSE nominal,
  free    <- IF best = NoFit THEN NoResult ELSE FoundBy(best),
  profile <- IF res = NoResult THEN NoResult ELSE ProfileFrom(start),
  report  <- IF file = NoResult THEN NoResult ELSE ReportOf(file.res)

ASSUME ScanStudyAssumption ==
  /\ NoResult \notin Study!Jobs
  /\ NoResult \notin [Study!Fittable -> Lo .. Hi]
  /\ NoResult \notin [held : UNION {[held -> Lo .. Hi] : held \in SUBSET Study!Fittable},
                      globs : [Globs -> Lo .. Hi], status : Statuses]

\* A worker makes the fits of a scan and no others, in their order.  What the
\* fit at the point holds, and at which values, is fixed by the request, the
\* kind of dataset, the workspace and the free fit alone: neither the fit
\* that generates a dataset, nor the options, which make POIs float after
\* others were fixed, nor the zeroing of global observables leaves a value of
\* its own in it; and it is published under the point and the kind of study
\* it was made for
\* (ProcessNllScanComputation, RunScan, RunFreeFit, GetData).
ImplementsStudy == Study!StudySpec

-----------------------------------------------------------------------------
\* The point that is written to the file is where the POI was held, within
\* its range, in the fit whose likelihood and status stand beside it,
\* although the options have just made the POI float, and a free fit has
\* moved it (RunScan).
PublishedPointWasHeld ==
  file # NoResult =>
    /\ start[file.res.poi].const
    /\ start[file.res.poi].val = Clip(file.res.value)

\* In the fit at the point, the other POIs float as the options say: with
\* one_at_time none, with fit_all_pois all, and with pois_float those it
\* names.  Without an option it depends on the dataset: with the observed
\* one, those that float in the workspace; with a generated one all, even
\* those that the workspace or its snapshot holds.  Those that do not float
\* are where the workspace or its snapshot has them.  Left out: a stat-only
\* scan with pois_float, whose free fit moves POIs that the scan then holds
\* (GetData, RunFreeFit, RunScan).
OtherPoisAsAsked ==
  pc = "fit" =>
    LET others == POIs \ {poi}
        floats == {p \in others : ~ ws[p].const}
    IN /\ floats = CASE settings.one_at_time  -> {}
                     [] settings.fit_all_pois -> others
                     [] settings.user_defined           -> settings.pois_float \cap others
                     [] OTHER -> {p \in others : ~ HeldByWorkspace(p)}
       /\ ~ (settings.stat_only /\ settings.user_defined) =>
            \A p \in others \ floats : ws[p].val = nominal[p].val

\* In the fit at the point, a stat-only scan holds every NP where the free
\* fit has left it, and a full scan lets float what floats in the workspace
\* ("fix all NPs consts", README.md:178).
NpsAsStudyWants ==
  pc = "fit" =>
    \A n \in NPs :
      IF settings.stat_only THEN ws[n].const /\ ws[n].val = best[n].val
                            ELSE ws[n].const = nominal[n].const

\* Every fit sees the global observables that belong to its dataset: zeroes
\* with the observed data, and with a generated dataset the values it was
\* generated with, which the zeroing before each fit does not reach
\* (GetData, RunFreeFit, RunScan).
GlobsBelongToData ==
  pc \in {"free_fit", "fit"} =>
    \A g \in Globs : ws[g].val = IF data = Observed THEN Clip(0) ELSE data[g]

\* The workers of a request share out its range, and the range is what the
\* description says (readFromString, GetPointAtGridEquidistant).
GridIsSharedOut ==
  LET d == settings.description
  IN ~ ReadThrows(d) =>
       /\ DescribedRange(d)
       /\ ~ IsGridPointKnown(d) => SharedOut(d)
=============================================================================
