----------------------------- MODULE ScanCampaign -----------------------------
(***************************************************************************)
(* A likelihood scan as a whole: submit_nll_scan.sh starts one batch job   *)
(* per kind of study, parameter of interest (POI) and point of the grid;   *)
(* each job writes one JSON file into a directory they share; and a        *)
(* plot_scan process reads the directory, possibly while jobs still work   *)
(* in it, and draws one curve of the likelihood per kind of study.         *)
(*                                                                         *)
(* A worker is reduced to what the others see of it: its point, the        *)
(* opening and the writing of its file, and what it may write.  NllScan    *)
(* has the rest.  What is drawn of the curves, and how, is left out.       *)
(***************************************************************************)
EXTENDS PoiConfig

CONSTANTS
  POIs,
  Scripts,         \* submit_nll_scan.sh, as edited for a scan
  Likelihoods(_),  \* what the fit of a job may find at its minimum
  Statuses,        \* what GetLastFitStatus may answer
  OldFiles,        \* files that are in the directory from the start
  OldContent(_),   \* and what is in them
  NotAResult,      \* JSON of something else, or a name without .json
  Absent,          \* a file that is not there
  Empty,           \* one with nothing in it, or with text that is not JSON
  NoPoi,           \* no --poi yet
  MaxFailures,     \* bound: jobs that are killed, cannot write or do not fit
  MaxSubmissions   \* bound: how often the user runs a script

StudyTypes == {"OBSERVED", "PREFIT", "POSTFIT"}

\* The six curves.
Kinds == [stat_only : BOOLEAN, prePostFit : StudyTypes]

\* The lists that the loops of the script run over.
ScriptType ==
  [pois : SUBSET POIs, stat_only : SUBSET BOOLEAN,
   prePostFit : SUBSET StudyTypes, description : Descriptions]

Jobs ==
  [poi : POIs, stat_only : BOOLEAN, prePostFit : StudyTypes,
   description : Descriptions, worker_id : Nat]

\* res__1D__<prePostFit>__<stat_only>__worker_<id>__<poi>_at_<value>.json
Names ==
  [poi : POIs, stat_only : BOOLEAN, prePostFit : StudyTypes,
   worker_id : Nat, value : Int]

\* Version v1 knew no kinds; reading it leaves the defaults of the members.
\* A likelihood that is not a number is written as null; reading that fails
\* and leaves the initial 0, which here stands for it.
Results ==
  [version : {"v1", "v2"}, poi : POIs, value : Int, nll_val : Int,
   fit_status : Statuses, stat_only : BOOLEAN, prePostFit : StudyTypes]

\* Mutant: seq 1 $EFT_GRID_SIZE.
JobsOfFromOne(script) ==
  [poi : script.pois, stat_only : script.stat_only,
   prePostFit : script.prePostFit, description : {script.description},
   worker_id : 1 .. GridSize(script.description)]

\* The loops, and submit_one_worker in them: seq 0 $EFT_GRID_SIZE has one
\* number more than the grid has points.
JobsOf(script) ==
  [poi : script.pois, stat_only : script.stat_only,
   prePostFit : script.prePostFit, description : {script.description},
   worker_id : 0 .. GridSize(script.description)]

FileName(job) ==
  [poi |-> job.poi, stat_only |-> job.stat_only, prePostFit |-> job.prePostFit,
   worker_id |-> job.worker_id, value |-> PointOf(job.description, job.worker_id)]

AllJobs == UNION {JobsOf(script) : script \in Scripts}
Files == {FileName(job) : job \in AllJobs} \cup OldFiles

\* Mutant: the member is written before GetLastFitStatus is called.
ResultBeforeStatus(job, nll_val, status) ==
  [version |-> "v2", poi |-> job.poi,
   value |-> PointOf(job.description, job.worker_id), nll_val |-> nll_val,
   fit_status |-> -1, stat_only |-> job.stat_only,
   prePostFit |-> job.prePostFit]

ResultOf(job, nll_val, status) ==
  [version |-> "v2", poi |-> job.poi,
   value |-> PointOf(job.description, job.worker_id), nll_val |-> nll_val,
   fit_status |-> status, stat_only |-> job.stat_only,
   prePostFit |-> job.prePostFit]

ASSUME ScanCampaignAssumption ==
  /\ Scripts \subseteq ScriptType
  /\ \A script \in Scripts :
       ~ ReadThrows(script.description) /\ ~ IsGridPointKnown(script.description)
  /\ \A job \in AllJobs : Likelihoods(job) \subseteq Int
  /\ 0 \in Statuses
  /\ \A f \in OldFiles : OldContent(f) \in Results \cup {NotAResult}
  /\ OldFiles \cap Names = {}
  /\ {Absent, Empty, NotAResult} \cap Results = {}
  /\ Absent # Empty /\ NotAResult \notin {Absent, Empty}
  /\ NoPoi \notin POIs
  /\ MaxFailures \in Nat /\ MaxSubmissions \in Nat

VARIABLES
  pending,     \* jobs the batch system has not started
  writing,     \* jobs that have opened their file and not yet written it
  dir,         \* the directory: what is in each file
  failures,    \* jobs that have failed
  submissions, \* scripts run so far
  plotter,     \* plot_scan: "idle", "reading", "drawn", "aborted"
  askedPoi,    \* its --poi
  seen,        \* files its directory_iterator has returned
  results1D,   \* results1D_
  curves,      \* curves_
  \* history, read by properties only
  atStart,     \* the directory when the plotter began
  touched,     \* files that jobs have opened since
  published    \* results that were ever complete

jobVars == <<pending, writing, dir, failures, published>>
plotterVars == <<plotter, askedPoi, seen, results1D, curves, atStart>>
vars == <<jobVars, submissions, plotterVars, touched>>

-----------------------------------------------------------------------------
(***************************************************************************)
(* Jobs.                                                                   *)
(***************************************************************************)
Converged(result) == result.nll_val # 0 /\ result.fit_status = 0

\* SaveRes opens its file, which empties it.
OpenFile(job) ==
  /\ job \in pending
  /\ pending' = pending \ {job}
  /\ writing' = writing \cup {job}
  /\ dir' = [dir EXCEPT ![FileName(job)] = Empty]
  /\ touched' = touched \cup {FileName(job)}
  /\ UNCHANGED <<failures, published, submissions, plotterVars>>

\* The result fits the buffer of the stream: it gets out at once.  A fit
\* that did not converge is written like any other.
WriteFile(job) ==
  /\ job \in writing
  /\ writing' = writing \ {job}
  /\ \E nll_val \in Likelihoods(job) \cup {0}, status \in Statuses :
       LET result == ResultOf(job, nll_val, status)
       IN /\ \/ /\ Converged(result)
                /\ UNCHANGED failures
             \/ /\ ~ Converged(result)
                /\ failures < MaxFailures
                /\ failures' = failures + 1
          /\ dir' = [dir EXCEPT ![FileName(job)] = result]
          /\ published' = published \cup {result}
  /\ UNCHANGED <<pending, submissions, plotterVars, touched>>

\* The job is killed before it opens its file, or cannot open it.
FailBeforeOpen(job) ==
  /\ job \in pending
  /\ failures < MaxFailures
  /\ failures' = failures + 1
  /\ pending' = pending \ {job}
  /\ UNCHANGED <<writing, dir, published, submissions, plotterVars, touched>>

\* The job is killed after it opened its file, or the write fails and the
\* result goes to the console: the file stays empty.
FailToWrite(job) ==
  /\ job \in writing
  /\ failures < MaxFailures
  /\ failures' = failures + 1
  /\ writing' = writing \ {job}
  /\ UNCHANGED <<pending, dir, published, submissions, plotterVars, touched>>

-----------------------------------------------------------------------------
(***************************************************************************)
(* plot_scan: NllScanPlotter, a new process each time.                     *)
(***************************************************************************)
NoCurves == [k \in Kinds |-> {}]

\* A plot has ended and shows the directory as it still is.
HasPlotted == plotter \in {"drawn", "aborted"} /\ touched = {} /\ atStart = dir

StartPlot(poi) ==
  /\ plotter # "reading"
  /\ ~ (HasPlotted /\ poi = askedPoi)
  /\ plotter' = "reading"
  /\ askedPoi' = poi
  /\ seen' = {} /\ results1D' = {} /\ curves' = NoCurves
  /\ atStart' = dir
  /\ touched' = {}
  /\ UNCHANGED <<jobVars, submissions>>

\* The hash of a result, and with it the set, tells apart POIs, points and
\* likelihoods; of twins the set keeps the first.
AreTwins(r, s) == r.poi = s.poi /\ r.value = s.value /\ r.nll_val = s.nll_val

\* Mutant: one result per point.
SamePoint(r, s) == r.poi = s.poi /\ r.value = s.value

InsertOnePerPoint(results, r) ==
  IF \E s \in results : SamePoint(r, s) THEN results ELSE results \cup {r}

Insert(results, r) ==
  IF \E s \in results : AreTwins(r, s) THEN results ELSE results \cup {r}

\* Mutant: the status of the fit is not looked at.
RegisterResAnyStatus(results, r) ==
  IF r.nll_val = 0 THEN results ELSE Insert(results, r)

\* RegisterRes and RegisterRes1D skip a likelihood of 0, which is that of a
\* file that could not be understood, and a fit with any status but 0.
RegisterRes(results, r) == IF Converged(r) THEN Insert(results, r) ELSE results

\* ReadValuesOneFile: an empty file makes the parser throw, and nobody catches;
\* what is JSON, but no result, leaves a likelihood of 0, which RegisterRes skips.
\* The iterator returns every file that was there when it was opened, in any
\* order, and may return one that has appeared since.
ReadFile(f) ==
  /\ plotter = "reading"
  /\ dir[f] # Absent /\ f \notin seen
  /\ seen' = seen \cup {f}
  /\ \/ /\ dir[f] = Empty
        /\ plotter' = "aborted"
        /\ UNCHANGED results1D
     \/ /\ dir[f] # Empty
        /\ results1D' = IF dir[f] = NotAResult THEN results1D
                        ELSE RegisterRes(results1D, dir[f])
        /\ UNCHANGED plotter
  /\ UNCHANGED <<jobVars, submissions, askedPoi, curves, atStart, touched>>

KindOf(r) ==
  IF r.version = "v1" THEN [stat_only |-> FALSE, prePostFit |-> "OBSERVED"]
  ELSE [stat_only |-> r.stat_only, prePostFit |-> r.prePostFit]

\* GetSelectedEntries and SplitEntriesObservedExpectedPrefit
Entries(results, poi, kind) == {r \in results : r.poi = poi /\ KindOf(r) = kind}

\* Mutant: measured from the first point, not from the lowest.
PrepareFromFirst(entries) ==
  {[mu |-> r.value,
    dnll |-> r.nll_val - (CHOOSE s \in entries : \A q \in entries : s.value =< q.value).nll_val] :
     r \in entries}

\* PrepareMuNllValues: the likelihoods are measured from their lowest.
PrepareMuNllValues(entries) ==
  {[mu |-> r.value,
    dnll |-> r.nll_val - (CHOOSE s \in entries : \A q \in entries : s.nll_val =< q.nll_val).nll_val] :
     r \in entries}

PlotNll1D ==
  /\ plotter = "reading"
  /\ {f \in Files : atStart[f] # Absent} \subseteq seen
  /\ plotter' = "drawn"
  /\ curves' = [k \in Kinds |-> PrepareMuNllValues(Entries(results1D, askedPoi, k))]
  /\ UNCHANGED <<jobVars, submissions, askedPoi, seen, results1D, atStart, touched>>

-----------------------------------------------------------------------------
(***************************************************************************)
(* The user.                                                               *)
(***************************************************************************)

\* A curve goes through a point; or the point is missing because its result
\* is the twin of one that belongs to another curve.
IsShown(poi, kind, value) ==
  \/ \E p \in curves[kind] : p.mu = value
  \/ \E r \in published, s \in results1D :
       /\ r.poi = poi /\ r.value = value /\ KindOf(r) = kind
       /\ AreTwins(r, s) /\ KindOf(s) # kind

\* The points "from the smallest to the largest allowed value"; the job
\* beyond them does not count.
GridOf(d) == {ScanRangeLow(d) + i * GridStep(d) : i \in 0 .. GridSize(d) - 1}

IsComplete(script, poi) ==
  /\ plotter = "drawn" /\ askedPoi = poi
  /\ \A stat \in script.stat_only, type \in script.prePostFit :
       \A value \in GridOf(script.description) :
         IsShown(poi, [stat_only |-> stat, prePostFit |-> type], value)

\* The user runs a script, and runs all of it again when no job is left and a
\* plot shows that something of it is missing.
Submit(script) ==
  /\ submissions < MaxSubmissions
  /\ pending = {} /\ writing = {}
  /\ \/ submissions = 0
     \/ HasPlotted /\ askedPoi \in script.pois /\ ~ IsComplete(script, askedPoi)
  /\ submissions' = submissions + 1
  /\ pending' = JobsOf(script)
  /\ UNCHANGED <<writing, dir, failures, published, plotterVars, touched>>

ScannedPois == UNION {script.pois : script \in Scripts}

Plot(poi) == submissions > 0 /\ StartPlot(poi)

-----------------------------------------------------------------------------
Init ==
  /\ pending = {} /\ writing = {}
  /\ dir = [f \in Files |-> IF f \in OldFiles THEN OldContent(f) ELSE Absent]
  /\ failures = 0 /\ submissions = 0
  /\ plotter = "idle" /\ askedPoi = NoPoi
  /\ seen = {} /\ results1D = {} /\ curves = NoCurves
  /\ atStart = dir
  /\ touched = {}
  /\ published = {OldContent(f) : f \in OldFiles} \cap Results

JobStep ==
  \/ \E job \in pending : OpenFile(job)
  \/ \E job \in writing : WriteFile(job)

PlotterStep == (\E f \in Files : ReadFile(f)) \/ PlotNll1D

Next ==
  \/ \E script \in Scripts : Submit(script)
  \/ JobStep
  \/ \E job \in pending : FailBeforeOpen(job)
  \/ \E job \in writing : FailToWrite(job)
  \/ \E poi \in ScannedPois : Plot(poi)
  \/ PlotterStep

Spec == Init /\ [][Next]_vars

\* The batch system starts every job, a process that is not killed goes on,
\* and the user keeps plotting, and submitting, until a scan is complete.
FairSpec ==
  /\ Spec
  /\ WF_vars(JobStep) /\ WF_vars(PlotterStep)
  /\ \A script \in Scripts : WF_vars(Submit(script))
  /\ \A poi \in ScannedPois : WF_vars(Plot(poi))

-----------------------------------------------------------------------------
\* Every variable has its type.
TypeOK ==
  /\ pending \subseteq Jobs /\ writing \subseteq Jobs
  /\ \A f \in Files : /\ dir[f] \in Results \cup {Absent, Empty, NotAResult}
                       /\ atStart[f] \in Results \cup {Absent, Empty, NotAResult}
  /\ DOMAIN dir = Files /\ DOMAIN atStart = Files
  /\ failures \in 0 .. MaxFailures /\ submissions \in 0 .. MaxSubmissions
  /\ plotter \in {"idle", "reading", "drawn", "aborted"}
  /\ askedPoi \in IF plotter = "idle" THEN {NoPoi} ELSE POIs
  /\ seen \subseteq Files /\ touched \subseteq Files
  /\ \A r \in results1D \cup published : r \in Results
  /\ DOMAIN curves = Kinds

\* Each curve is made of fits that converged, of the POI that was asked for
\* and of its own kind of study, whatever jobs rewrite while the directory is
\* read; its heights are differences to one and the same likelihood, the
\* lowest of the curve, which is a point of it (ReadFiles, RegisterRes1D,
\* SplitEntriesObservedExpectedPrefit, PrepareMuNllValues).
CurvesHoldGoodResults ==
  plotter = "drawn" =>
    \A kind \in Kinds :
      curves[kind] # {} =>
        /\ \A p \in curves[kind] : p.dnll >= 0
        /\ \E lowest \in published :
             /\ [mu |-> lowest.value, dnll |-> 0] \in curves[kind]
             /\ \A p \in curves[kind] : \E r \in published :
                  /\ Converged(r) /\ r.poi = askedPoi /\ KindOf(r) = kind
                  /\ r.value = p.mu /\ r.nll_val - lowest.nll_val = p.dnll

\* A result that was in the directory when the plotter began, of a fit that
\* converged, and that no job has opened since, is on its curve, in whatever
\* order the files come; unless another curve has its twin, which the set of
\* results does not tell from it (hash<NllScanResult> and operator == look at
\* neither the kind of statistics nor the dataset).
GoodPointsAreDrawn ==
  plotter = "drawn" =>
    \A f \in Files :
      LET r == atStart[f]
      IN r \in Results /\ f \notin touched /\ Converged(r) /\ r.poi = askedPoi
           => IsShown(askedPoi, KindOf(r), r.value)

\* Whatever jobs are killed, leave an empty file or do not converge, and
\* although a job that runs again destroys the good result of the first time
\* before it has its own, a user who runs the script again as long as a plot
\* lacks something gets every point of the grid, both ends of the range
\* included (submit_nll_scan.sh, SaveRes, ReadFiles).
ScanGetsComplete ==
  \A script \in Scripts : \A poi \in script.pois : <>IsComplete(script, poi)
=============================================================================
