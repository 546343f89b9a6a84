----------------------------- MODULE RankingStudy -----------------------------
(***************************************************************************)
(* What a ranking worker promises, with no workspace to mutate: the impact *)
(* of one nuisance parameter on one parameter of interest is the result of *)
(* six fits, each of which starts from a point that is fixed by the job,   *)
(* by the workspace as it was read from the file and by the free fit, and  *)
(* by nothing that an earlier fit left behind.                             *)
(***************************************************************************)
EXTENDS Workspace

CONSTANTS
  Gamma,                               \* parameters whose title holds "gamma"
  NoJob, NoCentral, NotRun, NoReport,  \* nothing there yet
  ErrorModes                           \* enum class Errors

VARIABLES
  launch,    \* the workspace as it was read from the file
  job,       \* which NP is ranked on which POI, and how
  central,   \* the NP in the free fit: [val, err]
  runs,      \* per fit: where it started and what it found
  report     \* what is published of the study

studyVars == <<launch, job, central, runs, report>>

Fits ==
  {"free_fit", "fixed_np_fit", "prefit_+", "prefit_-", "postfit_+", "postfit_-"}

\* What a worker is asked for, and the NP it found under that request.
Jobs == [np : NPs, poi : POIs, poiInit : Int, fitAll : BOOLEAN,
         errors : ErrorModes, reuse : BOOLEAN, zeroGlobs : BOOLEAN]

\* Parameters that have a place in the ModelConfig lists.
Governed == POIs \cup NPs \cup Globs

-----------------------------------------------------------------------------
\* How far from its central value the NP is held in each fit.
Shift(k, c) ==
  CASE k = "prefit_+"  ->  1
    [] k = "prefit_-"  -> -1
    [] k = "postfit_+" ->  c.err
    [] k = "postfit_-" -> -c.err
    [] OTHER           ->  0

\* The POIs that float.
Fitted == IF job.fitAll THEN POIs ELSE {job.poi}

\* The starting point of fit k, parameter by parameter.
StartPoint(k) ==
  [p \in Governed |->
    CASE p \in POIs /\ p \in Fitted ->
           [val |-> Clip(job.poiInit), err |-> 0, const |-> FALSE]
      [] p \in POIs /\ p \notin Fitted ->
           [val |-> Clip(job.poiInit), err |-> 0, const |-> TRUE]
      [] p = job.np /\ k # "free_fit" ->
           [val |-> Clip(central.val + Shift(k, central)),
            err |-> central.err, const |-> TRUE]
      [] p \in Globs \ Gamma /\ job.zeroGlobs ->
           [launch[p] EXCEPT !.val = Clip(0), !.err = 0]
      [] OTHER -> launch[p]]

\* A fit leaves a constant parameter where it starts, and any other anywhere.
FoundFor(k, p) ==
  IF StartPoint(k)[p].const
  THEN {[val |-> StartPoint(k)[p].val, err |-> StartPoint(k)[p].err]}
  ELSE Outcomes

\* Errors are re-estimated for the two fits whose errors are reported.
ErrorsOf(k) ==
  IF k \in {"free_fit", "fixed_np_fit"} THEN job.errors ELSE "DEFAULT"

\* With reuse_nll the likelihood of the free fit serves all six.
NllOf(k) == IF job.reuse THEN "free_fit" ELSE k

\* Which fits come before k.
Before(k) ==
  CASE k = "free_fit"     -> {}
    [] k = "fixed_np_fit" -> {"free_fit"}
    [] k = "prefit_+"     -> {"free_fit", "fixed_np_fit"}
    [] k = "prefit_-"     -> {"free_fit", "fixed_np_fit", "prefit_+"}
    [] k = "postfit_+"    -> Fits \ {"postfit_+", "postfit_-"}
    [] k = "postfit_-"    -> Fits \ {"postfit_-"}

\* The published fields: each is the POI in one of the fits.
Report ==
  [np |-> job.np, poi |-> job.poi, central |-> central,
   poi_free_fit              |-> runs["free_fit"].poi,
   poi_fixed_np              |-> runs["fixed_np_fit"].poi,
   poi_plus_one_variation    |-> runs["prefit_+"].poi,
   poi_minus_one_variation   |-> runs["prefit_-"].poi,
   poi_plus_sigma_variation  |-> runs["postfit_+"].poi,
   poi_minus_sigma_variation |-> runs["postfit_-"].poi]

-----------------------------------------------------------------------------
StudyInit ==
  /\ launch \in Workspaces
  /\ job = NoJob
  /\ central = NoCentral
  /\ runs = [k \in Fits |-> NotRun]
  /\ report = NoReport

Accept ==
  /\ job = NoJob
  /\ job' \in Jobs
  /\ UNCHANGED <<launch, central, runs, report>>

Perform(k) ==
  /\ job # NoJob
  /\ runs[k] = NotRun
  /\ \A b \in Before(k) : runs[b] # NotRun
  /\ k # "free_fit" => central # NoCentral
  /\ \E poi \in FoundFor(k, job.poi), np \in FoundFor(k, job.np) :
       runs' = [runs EXCEPT ![k] =
                  [start |-> StartPoint(k), errors |-> ErrorsOf(k),
                   nll |-> NllOf(k), poi |-> poi, np |-> np]]
  /\ UNCHANGED <<launch, job, central, report>>

ReadCentral ==
  /\ runs["free_fit"] # NotRun
  /\ central = NoCentral
  /\ central' = runs["free_fit"].np
  /\ UNCHANGED <<launch, job, runs, report>>

Publish ==
  /\ \A k \in Fits : runs[k] # NotRun
  /\ report = NoReport
  /\ report' = Report
  /\ UNCHANGED <<launch, job, central, runs>>

StudyNext ==
  \/ Accept
  \/ \E k \in Fits : Perform(k)
  \/ ReadCentral
  \/ Publish

StudySpec == StudyInit /\ [][StudyNext]_studyVars
=============================================================================
