---------------------------- MODULE RankingWorker ----------------------------
(***************************************************************************)
(* One ranking worker: FitManager::ComputeNpRankingOneWorker driving a     *)
(* ranking::OneNpManager over the workspace of its process.  The worker    *)
(* picks its nuisance parameter (NP), prepares the workspace, saves it as  *)
(* snapshot tmp_nps, and runs six fits; before each it resets the          *)
(* workspace that the previous fit has moved.  Then it writes the POI of   *)
(* every fit to one result file.                                           *)
(*                                                                         *)
(* A fit is one action (RunFit and the SaveResAs that follows it); what    *)
(* the manager does before it, reset and variation, is another, so that    *)
(* the point each fit starts from is a state of the model.  An exception   *)
(* that nobody catches, or a read past the end of a list, ends in          *)
(* pc = "aborted".                                                         *)
(***************************************************************************)
EXTENDS Workspace, NpSelection

CONSTANTS
  Requests,    \* what the command line may ask for
  Launches,    \* the workspaces the file may hold
  ErrorModes,  \* enum class Errors
  NoNp, NoCentral, NoSnapshot, NotRun, NoReport

Fits ==
  {"free_fit", "fixed_np_fit", "prefit_+", "prefit_-", "postfit_+", "postfit_-"}

VariedFits == Fits \ {"free_fit", "fixed_np_fit"}

StudyTypes == {"OBSERVED", "PREFIT", "POSTFIT"}

\* NpRankingStudySettings as GetFromConfig leaves it, and config.worker_id.
\* no_gamma is what the command line asked; GetFromConfig does not copy it.
Settings ==
  [np_name : NPs \cup {NoName}, worker_id : Nat, no_gamma : BOOLEAN, poi : POIs,
   poi_init_val : Int, errors : ErrorModes, reuse_nll : BOOLEAN,
   fit_all_pois : BOOLEAN, prePostFit : StudyTypes]

Governed == POIs \cup NPs \cup Globs

Estimates == [val : Lo .. Hi, err : Nat]

Run == [start : [Governed -> Var], errors : ErrorModes, nll : Fits,
        poi : Estimates, np : Estimates]

\* NpRankingStudyRes
Reports ==
  [np : NPs, poi : POIs, central : Estimates,
   poi_free_fit : Estimates, poi_fixed_np : Estimates,
   poi_plus_one_variation : Estimates, poi_minus_one_variation : Estimates,
   poi_plus_sigma_variation : Estimates, poi_minus_sigma_variation : Estimates]

Files == [medium : {"file", "console"}, worker : Nat, report : Reports]

ASSUME RankingAssumption ==
  /\ PairedNps \in Seq(NPs)
  /\ Gamma \subseteq Params
  /\ \A i, j \in 1 .. Len(PairedNps) : PairedNps[i] = PairedNps[j] => i = j
  /\ Requests \subseteq Settings
  /\ Launches \subseteq Workspaces
  /\ "DEFAULT" \in ErrorModes
  /\ NoName \notin NPs /\ NoNp \notin NPs
  /\ NoCentral \notin Estimates /\ NotRun \notin Run
  /\ NoReport \notin Files /\ NoReport \notin Reports

VARIABLES
  settings,  \* the request
  ws,        \* the live workspace
  snapshot,  \* tmp_nps
  np,        \* res.np_name, np_
  workerId,  \* the number that goes into the file name
  central,   \* np_found_in_data_value and _error
  errors,    \* errors_
  nll,       \* the fit at whose start nll_ was created, or "null"
  results,   \* results_: the POI per fit
  file,      \* what was published, and where
  pc,
  fit,       \* the fit at hand when pc is "reset" or "fit"
  \* history, read by properties only
  launch,    \* the workspace as read
  runs       \* per fit: start, errors, nll, POI and NP at its end

managerVars == <<central, errors, nll, results>>
history == <<launch, runs>>
vars == <<settings, ws, snapshot, np, workerId, managerVars, file, pc, fit,
          history>>

-----------------------------------------------------------------------------
(***************************************************************************)
(* Choice of the nuisance parameter.  settings.no_gamma is read although   *)
(* nothing has written it: the action takes either value.                  *)
(***************************************************************************)
Selected(choice) ==
  /\ np' = choice.np
  /\ workerId' = choice.number
  /\ pc' = "prepare"

\* The search fails, or runs off the list.
NotSelected(choices) ==
  /\ choices = {}
  /\ pc' = "aborted"
  /\ UNCHANGED <<np, workerId>>

SelectNpByWorkerId ==
  /\ pc = "select"
  /\ settings.np_name = NoName
  /\ \E noGamma \in BOOLEAN :
       LET choices == ByWorkerId(noGamma, workerId)
       IN (\E c \in choices : Selected(c)) \/ NotSelected(choices)
  /\ UNCHANGED <<settings, ws, snapshot, managerVars, file, fit, history>>

SelectNpByName ==
  /\ pc = "select"
  /\ settings.np_name # NoName
  /\ \E noGamma \in BOOLEAN :
       LET choices == ByName(noGamma, settings.np_name)
       IN (\E c \in choices : Selected(c)) \/ NotSelected(choices)
  /\ UNCHANGED <<settings, ws, snapshot, managerVars, file, fit, history>>

-----------------------------------------------------------------------------
(***************************************************************************)
(* The state all fits are to be reset to.                                  *)
(***************************************************************************)
SetAllPoisTo(w, v, e) == SetVarErr(SetVarVal(w, POIs, v), POIs, e)

\* The arguments are ignored: zeroes are set, and gamma terms are skipped.
SetAllGlobObsTo(w) == SetVarErr(SetVarVal(w, Globs \ Gamma, 0), Globs \ Gamma, 0)

SaveInitState ==
  /\ pc = "prepare"
  /\ ws' = IF settings.prePostFit # "POSTFIT"
           THEN SetAllGlobObsTo(SetAllPoisTo(ws, settings.poi_init_val, 0))
           ELSE ws
  /\ snapshot' = saveSnapshot(ws', Globs \cup NPs)
  /\ pc' = "build"
  /\ UNCHANGED <<settings, np, workerId, managerVars, file, fit, history>>

\* GetData has no Asimov dataset to return: the null it hands on fails
\* OneNpManagerBuilder::CheckValidity, which throws.
BuildManager ==
  /\ pc = "build"
  /\ \/ /\ settings.prePostFit = "OBSERVED"
        /\ errors' = settings.errors
        /\ pc' = "reset"
     \/ /\ settings.prePostFit # "OBSERVED"
        /\ pc' = "aborted"
        /\ UNCHANGED errors
  /\ UNCHANGED <<settings, ws, snapshot, np, workerId, central, nll, results,
                 file, fit, history>>

-----------------------------------------------------------------------------
(***************************************************************************)
(* OneNpManager: resets, variations and fits.                              *)
(***************************************************************************)
ResetNp(w, c) ==
  FixValConst(SetVarErr(SetVarVal(w, {np}, c.val), {np}, c.err), {np})

InitPois(w, S) == SetVarErr(SetVarVal(w, S, settings.poi_init_val), S, 0)

PoisToFit == IF settings.fit_all_pois THEN POIs ELSE {settings.poi}

ResetPoi(w) ==
  InitPois(FloatVals(FixValConst(InitPois(w, POIs), POIs), PoisToFit),
           {settings.poi})

\* Mutant: resets the NP first, and the snapshot brings the old NP back.
ResetToInitStateSwapped(w, c) == ResetPoi(loadSnapshot(ResetNp(w, c), snapshot))

ResetToInitState(w, c) == ResetPoi(ResetNp(loadSnapshot(w, snapshot), c))

\* What RunPreFit and RunPostFit add to or take from the central value.
Variation(k) ==
  CASE k = "prefit_+"  -> 1
    [] k = "prefit_-"  -> -1
    [] k = "postfit_+" -> central.err
    [] k = "postfit_-" -> -central.err

VaryNp(w, k) == SetVarVal(w, {np}, central.val + Variation(k))

\* Mutant: nobody switches the errors off after the second fit.
FollowingKeepsErrors(k) ==
  CASE k = "free_fit"     -> <<"reset", "fixed_np_fit">>
    [] k = "fixed_np_fit" -> <<"reset", "prefit_+">>
    [] k = "prefit_+"     -> <<"reset", "prefit_-">>
    [] k = "prefit_-"     -> <<"reset", "postfit_+">>
    [] k = "postfit_+"    -> <<"reset", "postfit_-">>
    [] k = "postfit_-"    -> <<"write", "postfit_-">>

\* What the driver does after each fit, and the next fit it prepares.
Following(k) ==
  CASE k = "free_fit"     -> <<"reset", "fixed_np_fit">>
    [] k = "fixed_np_fit" -> <<"set_errors", "prefit_+">>
    [] k = "prefit_+"     -> <<"reset", "prefit_-">>
    [] k = "prefit_-"     -> <<"reset", "postfit_+">>
    [] k = "postfit_+"    -> <<"reset", "postfit_-">>
    [] k = "postfit_-"    -> <<"write", "postfit_-">>

RunFreeFit ==
  /\ pc = "reset" /\ fit = "free_fit"
  /\ ws' = ResetPoi(ws)
  /\ pc' = "fit"
  /\ UNCHANGED <<settings, snapshot, np, workerId, managerVars, file, fit, history>>

\* The driver reads the NP out of the live workspace, hands it to the
\* manager, and the manager resets to it.
RunFitFixingNpAtCentralValue ==
  /\ pc = "reset" /\ fit = "fixed_np_fit"
  /\ central' = [val |-> ws[np].val, err |-> ws[np].err]
  /\ ws' = ResetToInitState(ws, central')
  /\ pc' = "fit"
  /\ UNCHANGED <<settings, snapshot, np, workerId, errors, nll, results, file,
                 fit, history>>

\* npManager.SetErrors(DEFAULT)
KeepCentralValuesOnly ==
  /\ pc = "set_errors"
  /\ errors' = "DEFAULT"
  /\ pc' = "reset"
  /\ UNCHANGED <<settings, ws, snapshot, np, workerId, central, nll, results,
                 file, fit, history>>

\* RunPreFit and RunPostFit, for either sign.
RunVariedFit ==
  /\ pc = "reset" /\ fit \in VariedFits
  /\ ws' = VaryNp(ResetToInitState(ws, central), fit)
  /\ pc' = "fit"
  /\ UNCHANGED <<settings, snapshot, np, workerId, managerVars, file, fit, history>>

\* RunFit and the SaveResAs of its caller.
RunFit ==
  /\ pc = "fit"
  /\ nll' = IF ~ settings.reuse_nll \/ nll = "null" THEN fit ELSE nll
  /\ ws' \in Minimised(ws)
  /\ results' = [results EXCEPT ![fit] = [val |-> ws'[settings.poi].val,
                                          err |-> ws'[settings.poi].err]]
  /\ runs' = [runs EXCEPT ![fit] =
                [start |-> [p \in Governed |-> ws[p]], errors |-> errors,
                 nll |-> nll', poi |-> results'[fit],
                 np |-> [val |-> ws'[np].val, err |-> ws'[np].err]]]
  /\ pc' = Following(fit)[1] /\ fit' = Following(fit)[2]
  /\ UNCHANGED <<settings, snapshot, np, workerId, central, errors, file, launch>>

-----------------------------------------------------------------------------
\* Mutant: the copy takes the pre-fit for the post-fit variations.
ReportSwapped ==
  [np |-> np, poi |-> settings.poi, central |-> central,
   poi_free_fit              |-> results["free_fit"],
   poi_fixed_np              |-> results["fixed_np_fit"],
   poi_plus_one_variation    |-> results["postfit_+"],
   poi_minus_one_variation   |-> results["postfit_-"],
   poi_plus_sigma_variation  |-> results["prefit_+"],
   poi_minus_sigma_variation |-> results["prefit_-"]]

\* ComputeNpRankingOneWorker copies results_ field by field.
Report ==
  [np |-> np, poi |-> settings.poi, central |-> central,
   poi_free_fit              |-> results["free_fit"],
   poi_fixed_np              |-> results["fixed_np_fit"],
   poi_plus_one_variation    |-> results["prefit_+"],
   poi_minus_one_variation   |-> results["prefit_-"],
   poi_plus_sigma_variation  |-> results["postfit_+"],
   poi_minus_sigma_variation |-> results["postfit_-"]]

\* To the file, or to the console if the file cannot be opened or written.
WriteResult ==
  /\ pc = "write"
  /\ \E medium \in {"file", "console"} :
       file' = [medium |-> medium, worker |-> workerId, report |-> Report]
  /\ pc' = "done"
  /\ UNCHANGED <<settings, ws, snapshot, np, workerId, managerVars, fit, history>>

-----------------------------------------------------------------------------
Init ==
  /\ settings \in Requests
  /\ ws \in Launches
  /\ snapshot = NoSnapshot
  /\ np = NoNp
  /\ workerId = settings.worker_id
  /\ central = NoCentral
  /\ errors = "DEFAULT"
  /\ nll = "null"
  /\ results = [k \in Fits |-> NotRun]
  /\ file = NoReport
  /\ pc = "select"
  /\ fit = "free_fit"
  /\ launch = ws
  /\ runs = [k \in Fits |-> NotRun]

Next ==
  \/ SelectNpByWorkerId
  \/ SelectNpByName
  \/ SaveInitState
  \/ BuildManager
  \/ RunFreeFit
  \/ RunFitFixingNpAtCentralValue
  \/ KeepCentralValuesOnly
  \/ RunVariedFit
  \/ RunFit
  \/ WriteResult

Spec == Init /\ [][Next]_vars

-----------------------------------------------------------------------------
\* Every variable has its type.
TypeOK ==
  /\ settings \in Requests
  /\ ws \in Workspaces
  /\ snapshot \in [Globs \cup NPs -> Var] \cup {NoSnapshot}
  /\ np \in NPs \cup {NoNp}
  /\ workerId \in Nat
  /\ central \in Estimates \cup {NoCentral}
  /\ errors \in ErrorModes
  /\ nll \in Fits \cup {"null"}
  /\ results \in [Fits -> Estimates \cup {NotRun}]
  /\ file \in Files \cup {NoReport}
  /\ pc \in {"select", "prepare", "build", "reset", "fit", "set_errors",
             "write", "done", "aborted"}
  /\ fit \in Fits
  /\ launch \in Workspaces
  /\ runs \in [Fits -> Run \cup {NotRun}]

-----------------------------------------------------------------------------
(***************************************************************************)
(* The worker implements RankingStudy.                                     *)
(***************************************************************************)
JobOfWorker ==
  IF np = NoNp THEN NoNp
  ELSE [np |-> np, poi |-> settings.poi, poiInit |-> settings.poi_init_val,
        fitAll |-> settings.fit_all_pois, errors |-> settings.errors,
        reuse |-> settings.reuse_nll,
        zeroGlobs |-> settings.prePostFit # "POSTFIT"]

Study == INSTANCE RankingStudy WITH
  NoJob <- NoNp,
  job <- JobOfWorker,
  report <- IF file = NoReport THEN NoReport ELSE file.report

ASSUME StudyAssumption == NoNp \notin Study!Jobs

\* The six fits of a worker are the six fits of the study: none starts from
\* what an earlier one left in the workspace, each uses the error mode and
\* the likelihood it should, and the report says what they found
\* (ComputeNpRankingOneWorker, OneNpManager).
ImplementsStudy == Study!StudySpec

\* When the minimiser is called, every parameter of the ModelConfig lists is
\* where the study wants it, whatever the earlier fits, converged or not,
\* did to the workspace (ResetToInitState, ResetNp, ResetPoi, VaryNp*).
StartsAtStudyPoint ==
  pc = "fit" => [p \in Governed |-> ws[p]] = Study!StartPoint(fit)

\* The impact published for a displacement of the NP is the POI of a fit in
\* which the NP was held at that displacement, within its range, from the
\* central value published beside it (the field-by-field copy after the fits).
ImpactsBelongToTheirDisplacement ==
  file # NoReport =>
    LET r == file.report
        measured(impact, d) ==
          \E k \in VariedFits :
            /\ runs[k].start[r.np].const
            /\ runs[k].start[r.np].val = Clip(r.central.val + d)
            /\ runs[k].poi = impact
    IN /\ measured(r.poi_plus_one_variation, 1)
       /\ measured(r.poi_minus_one_variation, -1)
       /\ measured(r.poi_plus_sigma_variation, r.central.err)
       /\ measured(r.poi_minus_sigma_variation, -r.central.err)

-----------------------------------------------------------------------------
(***************************************************************************)
(* What the README says a request does.                                    *)
(***************************************************************************)

\* "prePostFit": "OBSERVED, POSTFIT, PREFIT" (README.md:117): each of these
\* studies can be done once the NP is found.
EveryStudyTypeRuns == np \in NPs => pc # "aborted"
=============================================================================
