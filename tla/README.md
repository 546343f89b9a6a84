# Verification of eftProfiler in TLA+

eftProfiler is a command-line tool for profile-likelihood fits in high-energy
physics. A *ranking* measures what each nuisance parameter (NP) does to a
parameter of interest (POI): one process per NP runs six fits on a RooFit
workspace and writes one JSON file. Hundreds of these processes run as batch
jobs that share a directory; other commands of the tool read that directory.
Each process is single-threaded. What makes the program hard is therefore

* one **mutable workspace** that a sequence of fits moves and resets, where a
  reset that is missing or comes in the wrong order changes a number and
  nothing else,
* a **retry loop** around a minimiser that may fail,
* **many processes on one directory**, some of which are killed, while another
  one reads it and the user resubmits what is missing.

A *scan* does with the likelihood of a POI what a ranking does with impacts: one
process per point of a grid, one or two fits on a workspace of its own, and a
plotter that reads what the processes have left. A *free fit* is one process with
one or two fits. All of them start from the same words of a command line, which
one class takes apart and checks.

This directory holds models of all these, the TLC runs over them and
proofs of their main properties. File and line references are to `src/`.

## Inventory

| Component | State | Operations | Interacts through | Hard behaviour | What makes it correct |
|---|---|---|---|---|---|
| Ranking worker (`FitManager::ComputeNpRankingOneWorker`, `ranking::OneNpManager`) | workspace, snapshot `tmp_nps`, NP and its central value, error mode, likelihood, results | select NP, save state, six resets, variations and fits, report, file | workspace; a `Fitter` per fit; one result file | fits contaminate each other; exceptions nobody catches | each fit starts where the study says; each impact belongs to its displacement |
| Workspace (`WorkspaceWrapper`, `FitUtils`) | value, error, constant flag per parameter | set, fix, float, snapshot | all managers | values clipped to a range; parameters in no list | setters touch what they name and nothing else |
| Fitter (`fit::Fitter`) | `nps_`, `globs_`, `last_fit_status_`, locals of `Minimize` | `SetNps`, `SetGlobs`, `CreatNll`, `Minimize`, `Fit` | called by ranking, scan, free fit | retries, narrowed counters, pointers that stick | retry policy, strategy of the errors, status of the call, termination |
| Ranking campaign (`run_remote.sh`, workers, `get_missing_nps`, `submit_nps_by_name.sh`) | pending and running jobs, directory, reader | submit, start, open, write, fail, read, list, resubmit | files | reading while others write; killed jobs; resubmission | the list is right; no result is lost; what can be ranked is ranked in the end |
| Free fit (`FreeFitManager`) | workspace, settings | parse, Asimov data, float POIs, stat-only fit, fit | workspace, `Fitter` | two fits in a row, options that overwrite each other | only the requested POIs float; errors are estimated in the last fit only, for what floats |
| Likelihood scan (`NllScanManager`, `PoiConfig`) | grid, POI configurations, workspace, result | parse, point of the grid, free fit, conditional fit, save | files, `Fitter` | worker numbers past the grid, index arithmetic | one point per worker, each point once |
| Scan campaign (`submit_nll_scan.sh`) and scan plotter (`NllScanPlotter`) | jobs, directory, set of results, curves | submit, open, write, fail, read, register, split, draw | files | jobs write while the plotter reads; failed fits are published; twins; rerun jobs destroy results | a curve holds good results of its kind only, loses none, and gets complete |
| Ranking plotter | settings, results read | read, select, sort, impacts | files | duplicate files | each NP enters once |
| Correlation and Hesse study | covariances, order | extract, sort, suggest | `Fitter` | – | suggestions are the strongest correlations |
| Application (`Application`, `main`), command line (`CommandLineArgs`) | state, keys asked for, keys used, values | init, parse, check, dispatch, finalise | all tasks | error state overwritten, check before a key is read, repeated keys | the task gets what was written; the exit status is true |
| Logger, profiler, drawing, strings, vendored code | – | – | – | – | not modelled: output, layout, third-party |

`PROJECT.json` lists the components with their status, the hazards at their
lines, and maps every definition to the lines it stands for.

## Modules

| Module | What it models |
|---|---|
| `Workspace` | the table of parameters and the setters of `WorkspaceWrapper`; what RooFit does to it (clip, snapshots, minimisation) |
| `NpSelection` | `lists_["paired_nps"]`, `lists_["non_gamma_nps"]`, and the choice of an NP by number or by name |
| `RankingStudy` | abstract: what a ranking is. A job is accepted, six fits are made, each from a start point that is a function of the job, the initial state and the free fit; then a report is published |
| `RankingWorker` | the worker, over `Workspace` and `NpSelection`; `ImplementsStudy` maps it to `RankingStudy` |
| `Fitter` | the object and its calls, one step per minimisation |
| `RankingCampaign` | jobs, directory, search and resubmission, over `NpSelection` |
| `PoiConfig` | the description of a POI: its range, its grid, the point of a worker |
| `ScanStudy` | abstract: what one point of a scan is. A request is accepted, in a stat-only scan a free fit finds values, the fit at the point holds what follows from these; then a report is published |
| `NllScan` | a worker of a likelihood scan, over `Workspace` and `PoiConfig`; `ImplementsStudy` maps it to `ScanStudy` |
| `ScanCampaign` | all workers of a scan, their directory and `plot_scan`, over `PoiConfig` |
| `FreeFit` | the free fit, over `Workspace` |
| `CommandLine` | `CommandLineArgs`: words, keys, values, unknown keys, as operators |
| `Application` | the program from `main` to its exit status, over `CommandLine`, composed with `FreeFit` |
| `MC*` | instances for TLC |
| `Induction` | induction over the naturals for TLAPS, and what it says of a filtered list |
| `*Proofs` | theorems for TLAPS; those on `FreeFit` are in `ApplicationProofs` |

### Workspace

A parameter is a record `[val, err, const]`, doubles are integers in units of
a prefit sigma, and all parameters share one range `Lo .. Hi`. `Others` are the
floating parameters that `GetPairConstraints` skipped (`FitUtils.cpp:65`): the
code resets none of them, so they carry over from fit to fit. A minimisation
(`Minimised`) leaves any of `Outcomes` in each floating parameter; whether it
converged does not matter, because the ranking never looks.

Assumed of RooFit, which is not in the repository: `setVal` clips to the range,
a snapshot restores value, error and flag, a minimisation moves floating
parameters only.

### RankingWorker

`pc` follows `ComputeNpRankingOneWorker`: `select` -> `prepare` -> `build` ->
(`reset` -> `fit`) six times -> `write` -> `done`, or `aborted` for an exception
that nobody catches. `reset` is all that `OneNpManager` does before `RunFit`;
`fit` is `RunFit` with `SaveResAs`. The two are separate so that the point a fit
starts from is a state. `launch` and `runs` are history, read by properties
only. `settings.no_gamma` has no initialiser and `GetFromConfig` does not set
it, so the selection takes either list.

`RankingStudy` has no workspace. It keeps the job, the start point of each fit
as a function (`StartPoint`), the error mode and the likelihood each fit is to
use, and the results. The worker implements it under the mapping
`job <- JobOfWorker`, `report <- file.report`, with `runs`, `launch`, `fit` and
`pc` as they are.

### Fitter

`FirstAttempt`, `Retry`, `RestoreStrategy` and `EstimateErrors` are the parts of
`Minimize`; the status of each minimisation is any of `Statuses`. `retry` and
`strategy` are natural numbers in the settings and `% 256` in the `uint8_t`
fields of `FitSettings`. A retry calls the algorithm `Migrag`, which Minuit2
treats as its default, Migrad; the model treats both alike. `Pointers` stands
for the sets an owner hands over; a null one where the code dereferences or
asserts ends in `thrown`.

### RankingCampaign

A worker is reduced to three steps: start and pick an NP, open the file
(`ofstream::open` truncates), write it. The JSON text is smaller than the
stream's buffer, so it gets out at once or not at all. `FailBeforeOpen` and
`FailToWrite` are a job that is killed, or a full disk; `FailToWrite` is also a fit
that ends on a number which is none, for which JSON has `null`. Either way the file
is `Unreadable`: the parser throws on an empty file, and the handler of the reader
(`NpRankingPlotter.cpp:88-105`), which allows for a `null` likelihood only, throws
on any other `null`. The directory is what
`--res_path` names, `.` by default, and may hold the files of several POIs;
with `run_remote.sh` as it is there is one directory per POI, which is the case
of one POI. `get_missing_nps` reads files one at a time while jobs go on: its
iterator returns what was there when it was opened and may return what has
appeared since.

### PoiConfig, NllScan

`Descriptions` holds what `--pois` may say, each part present or absent. The
numbers are integers in a unit in which the grids at hand have integer steps;
`PoiConfigAssumption` says so, which leaves out a grid of one point (the code
divides by zero).

`pc` follows `ProcessNllScanComputation`: `init` -> `load` (snapshot and dataset)
-> (`prepare_free_fit` -> `free_fit`, in a stat-only scan) -> `prepare` -> `fit` ->
`save` -> `done`, or `aborted` for an exception. As for the ranking, what is done
before a fit and the fit are two actions. `nominal`, `best` and `start` are
history. An absent `--worker_id` leaves the number uninitialised: any of
`WorkerIds`. The scan reads the status of the last fit and publishes it.

Assumed of `RooStats::AsymptoticCalculator::MakeAsimovData`, from how the code
uses it: it fits what floats except the POIs of the ModelConfig, which it holds for
this fit and leaves floating after it, whatever the workspace said, and it replaces
the set of global observables it is handed by copies which have the values of the
new dataset. In a prefit or postfit scan without an option that sets the flags of
the POIs again (`one_at_time`, `fit_all_pois`, `pois_float`) they all float for that
reason, while the same scan on the observed data holds those that the workspace
holds (`HeldByWorkspace`, `HeldOnTheirOwn`).
`saveSnapshot` and `loadSnapshot` after it bring these values into the workspace;
`SetVarVal(globalObs, 0)` from then on reaches the copies only (`globsInWs`).

`ScanStudy` has no workspace that anything mutates. What a fit must hold
(`HeldInFreeFit`, `HeldAtPoint`) and where (`Conditions`) are functions of the job,
of the kind of dataset, of the workspace as it was read and of what the free fit
found; a parameter that
floats may start anywhere and is not in the study. The worker implements it with
`job <- JobOfScan` from the moment there is a dataset, `nominal` as it is,
`free <- FoundBy(best)`, `profile <- ProfileFrom(start)`, that is, what was constant
in the workspace when the last fit began, and `report <- ReportOf(file.res)`. The
study also says what `OtherPoisAsAsked` leaves out: in a stat-only scan with
`--pois_float` the free fit lets POIs float which the scan then holds, and it holds
them where that fit found them.

### ScanCampaign

A script is the lists its loops run over and the description of the POI; `JobsOf`
gives one job per kind of study, POI and number from 0 to the grid, both included
(`seq 0 $EFT_GRID_SIZE`). As in `RankingCampaign` a job opens its file, which
empties it, and writes it, or fails before or in between; here it may also write
a fit that did not converge, which is what most failures of a scan are. The
likelihood of a job is any of `Likelihoods(job)` or 0, which stands for a number
that JSON cannot write. All failures share one bound.

`plotter` follows `ProcessNllScanPlotting`: the files come one at a time, in any
order, while jobs go on; then the curves are made, or an empty file has ended the
process (`aborted`). Text that is not JSON does the same, and is `Empty` in the
model; JSON that is no result, and a name that does not end in `.json`, are skipped
(`NotAResult`; the run has no such file, the theorems allow any number). `Insert` keeps the first of two results that are equal by
`operator ==`, which compares POI, point and likelihood; a result is an
`AreTwins` of another although its kind differs. Which results a hash set takes
for equal depends on both `hash` and `==`; both look at the same members.
`published`, `touched` and `atStart` are history.

Curves are sets of points, since the sort by `mu` is for drawing; heights are in
units of the likelihood, without the factor 2.

### FreeFit

`pc`: `off` -> `data` -> `pois` -> (`stat_only_fit`, if asked for) -> `fit` ->
`done`, or `aborted`. `fits` is history: for each call of `Minimize` the workspace
before and after, the errors it is told to estimate and for which parameters. The
workspace of a generated dataset is as in `NllScan`, with the difference that
here the snapshot comes after the zeroing, and that every POI is fixed or floated
afterwards, so that the flags `MakeAsimovData` leaves do not last. `Names` holds
names that no POI has: `GetVar` yields a null pointer for them, and the process
ends. `errors_for` is read with `--errors user` and then replaced by the POIs that
float (`ErrorsFor`).

### CommandLine, Application

A word is its text without leading dashes and whether it had two. `Step` is one
turn of the loop of `ParseInput`; the first word is a key with or without dashes,
and is checked only with them. `SaysWhatIsWritten` is the reference definition:
it reads the values of a key off the positions of the words, with no loop.

`at` follows `main`: `start` (arguments, `config.toml`) -> `logger` (second
`Logger::Init`, states of `Init`) -> `test` or `run` -> `options` (the keys of the
task, `ReadConfigFromCommandLine` and its `ReportStatus`) -> `work` -> `finalize` ->
`end`. `ReadConfigFromCommandLine` and `ReportStatus` are `noexcept`, so an
exception in them ends the process, `exit = "aborted"`, as does one that nobody
catches. A task does its work in one step that returns or throws, except the free
fit: `Application` EXTENDS `FreeFit`, its settings are computed from the parsed
words, and each of its steps is a step of the program.

`Numbers` are the words that `std::stod` and `std::stoi` take.

## Runs

| Run | Instance | Shows |
|---|---|---|
| `ranking_worker` | 2 POIs, a gamma and a normal NP, 2 global observables, 1 unconstrained parameter; range -2 .. 2; 2 outcomes per parameter and fit; 7 requests, 2 launch states | `TypeOK`, `StartsAtStudyPoint`, `ImpactsBelongToTheirDisplacement`, `ImplementsStudy` |
| `fitter` | 1 set or null; statuses 0, 1, 4; 4 requests; 2 calls | `TypeOK`, `RetryPolicy`, `ErrorsAtRequestedStrategy`, `LastFitStatusIsOfThisCall`, `MinimizeEnds` |
| `campaign` | 2 POIs, 3 NPs, 1 job per POI, 1 failure, 1 resubmission, nobody waits | `TypeOK`, `MissingListIsRight` |
| `campaign_patient` | 1 POI, 3 NPs, 3 jobs, 2 failures, 6 resubmissions, the user waits | `ResultsKept`, `RecoverableNpsAreRanked` |
| `nll_scan` | 2 POIs, 2 NPs, 1 global observable, 1 parameter in no list; 8 descriptions; all combinations of options on each kind of dataset, all descriptions with workers 0 .. 5 and none; 2 launch states | `TypeOK`, `PublishedPointWasHeld`, `OtherPoisAsAsked`, `NpsAsStudyWants`, `GlobsBelongToData`, `GridIsSharedOut`, `ImplementsStudy` |
| `scan_campaign` | 1 POI (and a foreign one), a grid of 2 points, so 3 jobs, 2 minima for one of them; 2 old files: a v1 result and another POI's; 1 failure, 2 submissions | `TypeOK`, `CurvesHoldGoodResults`, `GoodPointsAreDrawn`, `ScanGetsComplete` |
| `application` | 2 POIs, 2 NPs, 1 global observable, 2 launch states; each task with each documented option and with 9 others, all free fits, malformed numbers, first words with and without dashes, all lines of up to 4 out of 4 words | the 10 properties of `Application` and `FreeFit` |
| `study_types` | as `ranking_worker` | prefit and postfit studies end when the manager is built |
| `missing_for_asked_poi` | as `campaign` | the search does not look at the POI of a file |
| `search_survives` | as `campaign`, the user waits | the search ends on the file of a failed job |
| `documented_options` | as `application` | the check rejects `--out` of the free fit, which the README documents |
| `errors_for` | as `application` | MINOS scans the parameters of `--pois_float`, whatever `--errors_for` names |

The last five are expected violations: each checks a sentence of the
repository's README against the code. `findings` in `PROJECT.json` quotes it. Two
more of them are contradicted by theorems, `FirstNpGivenUp` and
`GridWorkerPastTheRange`; see Disagreements.

**Bounds.** The launch state holds values no reset would set, so a reset that
does not happen shows; two outcomes per parameter make each fit leave
something behind that the next could trip over; the postfit error 2 exceeds the
range, so clipping happens. Two calls of `Minimize` suffice for what survives a
call (the members of the object). Retry 257 and strategy 255 exercise the
narrowing. In the campaign the full and the non-gamma list differ in length, in
every position and in their first element; six rounds are two more than the two
failures and the wrong choices of list can use up. Symmetry is used over POIs
in `campaign` only, which checks invariants only. The descriptions of `nll_scan`
have ends of either unit, on one side or both, a zero beside sigmas, a range and
a point beyond those of the POI, and two that cannot be read; its launch states
and snapshot hold values that neither a dataset nor a fit would leave.

In `scan_campaign` the first job may find a likelihood that makes its result the
twin of the old v1 one, which is of another kind and has the same point; the
lowest point of the curve is not the first; the job beyond the grid is the lowest
of all. One failure and two submissions are the smallest bounds at which a rerun
destroys a good result; each further submission only repeats this. Plots are not
bounded: one begins only when the last one does not show the directory as it is.
In `application` four words suffice for a key that is first, last, repeated,
without values and with several. The command lines of the free fit combine every
list of POIs (none, empty, one, both, repeated, misspelt) with every study,
`--stat_only` and every way to ask for errors; `--errors_for` names a POI
that floats in some of them and not in others, or a misspelt one.

**Deadlock** is not checked: a worker ends, a `Fitter` whose owner makes no
further call is at rest, a campaign ends when its bounds are used up, a scan
ends, a free fit ends, and so does the program.

**Fairness.** `Fitter!FairSpec`: `Minimize`, once called, runs on (it is one
thread, and each minimisation has a limit of function calls, `Fitter.cpp:94`);
the owner need not call it. `RankingCampaign!FairSpec`: the batch system starts
every job and a process that is not killed goes on; the user follows the
procedure of the repository's README, that is, submits, searches and resubmits.
Failures are not fair and are bounded. `ScanCampaign!FairSpec` is the same for a
scan: jobs and plotter go on, and the user plots again when the directory has
changed and runs the script again when a plot lacks something.

`RecoverableNpsAreRanked` leaves out the first NP of either list, which no job
can find by name (`FirstNpGivenUp`), and the gamma ones, which half the jobs look for
in a list that has none.

**What the properties accept.** Some of what the code does is neither promised nor
excluded anywhere, and the properties take it as it is: a variation or a point that
`setVal` clips is the clipped one (`ImpactsBelongToTheirDisplacement`,
`PublishedPointWasHeld`), a ranking fit that failed is a result (`ImplementsStudy`), a
zero beside an end in sigmas is "not given" (`GridIsSharedOut`), of two twins one
curve gets the point (`GoodPointsAreDrawn`), and a broken `config.toml` does not show
in the exit status (`ExitStatusTellsTheTruth`). The hazards in `PROJECT.json` say so
in their notes.

## Proofs

TLAPS proves these for every value of the constants allowed by the assumptions
`WorkspaceAssumption`, `RankingAssumption`, `StudyAssumption`,
`FitterAssumption`, `CampaignAssumption`, `PoiConfigAssumption`,
`ScanAssumption`, `ScanStudyAssumption`, `ScanCampaignAssumption`,
`FreeFitAssumption` and `ApplicationAssumption`, all of which TLC evaluates in the
runs. They say that names differ, that bounds are numbers and that the constant
sets have their types; `ApplicationAssumption` among them says that a word of a
command line is a name and that its lower-case form is a word too. Every invariant
that a run expects to hold has a theorem, as have both refinements and
`ResultsKept`.

* **Induction** (`Induction`): what a recursive function computes is proved by
  induction, but the induction theorems of the library take an operator, which the
  provers cannot instantiate. `LeastNumber` therefore takes a *set* to the
  well-foundedness of the naturals (`WFMin`, `NatLessThanWellFounded`), and
  `SetInduction` follows. `FilterExists` and `FilterKeeps` use it: the list without
  its gammas, which is `ExtractNotGammaNps`, is a sequence of NPs no longer than the
  full one that keeps every other NP; `FilterKeepsFirst`: if the first of all is no
gamma it is the first of both lists, and nowhere else in either. The proofs on
`ParseInput` use `SetInduction` too.
* **Workspace** (`WorkspaceProofs`): each setter yields a workspace, changes the
  named field of the named parameters and nothing else; a snapshot restores
  exactly what it holds; a minimisation leaves what is constant.
* **RankingWorker** (`RankingWorkerProofs`): `Invariance` proves an inductive
  invariant `IInv`. `TypeOK` and `StartsAtStudyPoint` are not inductive: that a
  fit starts right depends on the snapshot holding the prepared workspace, on
  the central value being that of the free fit, and on every finished fit having
  been recorded with its start; the order of the fits ties these to `pc` and
  `fit`. `IInv` states them per control point. From it follow `StartsRight`,
  `ImpactsRight` and `Refinement`: `Spec => Study!StudySpec`, one step per action,
  most of which stutter. `FirstNpGivenUp` says of the README's choice by name what
  the code makes of it for the first NP: the worker gives up, in every state of
  every run, whichever list it looks in.
* **Fitter** (`FitterProofs`): the invariant says how many attempts the countdown
  has used, that the strategy is that of the settings plus this number, and that
  `last_fit_status_` is the last attempt's once the loop is left. From it:
  `RetriesRight`, `ErrorsRight`, `StatusRight`. `MinimizeDescends`: each step of
  `Minimize` decreases a number that is at most 258, so that the loop ends after as
  many steps whatever Minuit answers.
* **RankingCampaign** (`RankingCampaignProofs`): two invariants. `IInv` relates the
  directory, `seen`, `present` and `published`: a result is published and of the NP
  in its file's name, a file that was complete at the start and has been read is
  counted, and what is counted was published. From it: `MissingListCorrect`, for any
  number of jobs, POIs, failures and rounds, with no assumption that the user waits.
  `KInv` holds if he does (`Patient`): nothing does the work of a job twice, two jobs
  for one POI differ in the number or the name they were given, what a job was given
  is part of its file's name, no file that a job in flight could write holds a result,
  a POI that was not submitted has neither, and during a search nobody works on its
  POI, so that the list is still right when it is submitted. Each part needs the next
  one to be kept. From it: `ResultsSurvive`, `ResultsKept` for any lists, POIs, jobs,
  failures and searches. Three theorems give the part of `RecoverableNpsAreRanked`
  that needs no fairness: an NP that is first in neither list and no gamma is found
  by its name in both (`RecoverableNpsAreFound`), so a job sent after it makes its
  fit (`RecoverableJobsFit`); and once the list is resubmitted each NP has a result
  or a job, which for these NPs only a failing job can change
  (`RecoverableNpsStayInHand`).
* **NllScan** (`NllScanProofs`): the invariant says per control point what the
  options have done to each kind of parameter so far: the other POIs on the way
  to the last fit (`OtherPoiUnderWay`) and in it (`OtherPoiReady`), the NPs
  (`NpReady`), the global observables (`GlobReady`) and what they are before any
  fit (`DataKnown`, which is why the zeroing is harmless), the held POI and the
  result. From it follow the five state properties, for any list of parameters,
  workspace, options and outcomes. `GridRight` is arithmetic on descriptions:
  the points of a grid are equidistant and its ends are those described.
  `GridWorkerPastTheRange` continues it by one point: the result of the worker with
  the number of the grid is one step above the range.
  `Refinement` needs more: a second invariant, `HInv`, says per control point which
  parameters are held and at which values, for *every* parameter that is not a
  global observable: as read (`AsRead`), before and after the free fit
  (`ReadyForFreeFit`, `AfterFreeFit`), at the point (`ReadyForPoint`), and which of
  the study's parts exist by then (`Progress`). Each of the two fits and `SaveRes`
  is then a step of the study, getting the dataset is `Accept`, and all else
  stutters.
* **ScanCampaign** (`ScanCampaignProofs`): two invariants. `IInv` says that what
  the plotter keeps was published and converged, and that any selection of it has
  a lowest entry (a finite set grows by one result at a time); from it
  `CurvesAreGood`. `DrawnInv` says that no two jobs under way share a file, that a
  file being written is empty, and that a result which was there when the plotter
  began is still there unless its file has been opened since, and that once its
  file is read it, or a twin, is kept; from it `GoodPointsDrawn`. Both hold for
  any scripts, grids, failures and submissions. Two theorems give the part of
  `ScanGetsComplete` that needs no fairness: a submission gives each point a good
  result or a job, which only a failing job can change, although a job that runs
  again empties its file (`OnlyFailuresLoseFiles`); and once all jobs have left good
  results a plot made of that directory is complete (`GoodScansComplete`), which
  rests on what a result in a file tells of the job whose name the file has
  (`NamesTell`).
* **FreeFit** (in `ApplicationProofs`): the invariant says per control
  point what the POIs, the NPs, the global observables and the errors are; every
  property of a free fit follows, for any workspace, options and outcomes.
* **Application** (`ApplicationProofs`): first the parser. `Step` is shown, by
  induction over the words of a line of any length, to keep its arguments typed and
  to leave for each key what `SaysWhatIsWritten` reads off the positions:
  after `n` words, the values of a key are those behind its last occurrence among
  them. Then two invariants of the program: `AInv` relates `at`, the states of the
  application and the exit status (`ExitStatusTrue`); `RInv` says that the arguments
  are those parsed from the words at hand, that the settings of the free fit are the
  ones they give, and that an unknown key was reported only if there is one. From
  these: `AppTypeCorrect`, `ParsedRight`, `UnknownKeysStop`,
  `OnlyFreeFitOutRejected` and `FreeFitAskedFor`, with no premise but the
  assumptions. `ImplementsFreeFit`, also without one, shows that the program is
  `FreeFitSpec` and stutters, so that the four properties of the free fit hold in it
  (`RequiredPoisOnlyInProgram` and the next three).

**Model-checked only:** `MinimizeEnds`, `RecoverableNpsAreRanked` and
`ScanGetsComplete`, which are liveness under fairness. What each rests on
besides fairness is proved: `MinimizeDescends`, `RecoverableNpsStayInHand` with the
two theorems before it, `OnlyFailuresLoseFiles` with `GoodScansComplete`. The five
expected violations have no theorem.

## Disagreements

Besides those of the runs that expect a violation, two sentences of the README are
refuted for every value of the constants:

* `README.md:67-68` offers to choose the NP "By specifying name of the nuisance
  parameters to be ranked: `--np_name NP_NAME`". `FitManager.cpp:124-134` takes an
  NP at index 0 for one that is not there: `FirstNpGivenUp`.
* `README.md:194` says "worker #0 takes the smallest allowd value (from the range)
  and the worker *grid* gives the largest allowed value". The worker before it
  does, and worker *grid*, which `submit_nll_scan.sh:55` starts, is one step past
  the range: `GridWorkerPastTheRange`.

No run or theorem shows the following; each is in the model as the code has it.

* `README.md:72` says that `--no_gamma` leaves out the gamma parameters. The
  setting that is read (`NpRankingStudyRes.h:109`) is neither initialised nor
  copied from the options; `RankingWorker` takes either list.
* `README.md:284` uses `--get` without `--task`, which prints the help and exits 0.
* `README.md:180` gives `fit_all_pois` the default `false`, "Whether to allow all POIs
  to float in fit". In a prefit or postfit scan without options they all float, as
  `MakeAsimovData` leaves them.
* The help (`Application.cpp:139-212`) lists `log_name`, `label_font`, `fit_pois`
  and `color_np`, which the check rejects; the code asks for `logger_name`.
* The options of `plot_scan` in the README (`res_status`, `obs_expected`) are read
  as `status` and `comment`; the others are ignored in silence, for `plot_scan`
  does not check its keys.
* Without a task, or with an unknown one, `PrintHelp` ends with `setSuccess`: the
  error is forgotten and the exit status is 0 (`Application.cpp:119-120`, `:429-431`).
* A broken `config.toml` sets an error state that `Init` overwrites; no task reads
  the file.
* `--force_data` reads a dataset by a name that nobody sets, and always throws.

## Not modelled, and why

* What Minuit and RooFit compute: external, any outcome.
* Formatting, logging, drawing, colours: no property is about them.
* `DoGlobalFit`, `DoFitAllNpFloat`: no path of the program that gets past
  `CreateAsimovData` calls them.
* The drawing of rankings, their comparison, the Hesse study: each is one pass over
  a list in a process of its own, with no second actor, no retry and no state
  that outlives a call; the text of labels and the sort are what is in them.
* Central values and errors of a curve: floating-point interpolation.
* Vendored libraries: nlohmann_json, spdlog and toml++ make up most of the lines
  below `src/`, which is why the lines the map names are a small share of all
  lines. They cover a large part of the lines that are the program's own.

## Plan

1. Done: `Workspace`, `NpSelection`, `RankingStudy`, `RankingWorker`, `Fitter`,
   `RankingCampaign`, `PoiConfig`, `ScanStudy`, `NllScan`, `ScanCampaign`, `FreeFit`,
   `CommandLine`, `Application`, their runs and theorems.
2. `RankingPlot`: selection, sorting and impacts as operators against reference
   definitions, should a property turn up that is worth it.
