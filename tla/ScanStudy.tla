------------------------------ MODULE ScanStudy ------------------------------
(***************************************************************************)
(* What a scan worker promises, with no workspace to mutate: the           *)
(* likelihood of one parameter of interest (POI) at one point is that of   *)
(* one fit, and what this fit holds, where, and on which dataset follow    *)
(* from the request, from the workspace as it was read and, in a stat-only *)
(* scan, from the free fit.  Where a parameter that floats starts from is  *)
(* of no consequence, and is not in the study.                             *)
(***************************************************************************)
EXTENDS Workspace

CONSTANTS
  Statuses,  \* what GetLastFitStatus may answer
  Nothing    \* nothing there yet

VARIABLES
  job,      \* the point, and what is to float in its fit
  nominal,  \* the workspace as it was read, with its snapshot
  free,     \* where the free fit found each parameter
  profile,  \* the fit at the point: what it held, its dataset, its status
  report    \* what is published of it

studyVars == <<job, nominal, free, profile, report>>

\* Parameters that a fit holds or lets float.
Fittable == Params \ Globs

\* Which POIs float: the scanned one only, all, those that are named, or
\* those that do on their own.  A dataset comes with global observables.
Jobs ==
  [poi : POIs, point : Int,
   float : {"one_at_time", "all", "named", "as_they_are"}, named : SUBSET POIs,
   stat_only : BOOLEAN, study : {"OBSERVED", "PREFIT", "POSTFIT"},
   globs : [Globs -> Lo .. Hi]]

-----------------------------------------------------------------------------
Constant == {p \in Fittable : nominal[p].const}

\* On their own those POIs float that do in the workspace; but a generated
\* dataset is made by a fit that leaves all of them floating.
HeldOnTheirOwn == IF job.study = "OBSERVED" THEN Constant \cap POIs ELSE {}

\* The names of --pois_float have no say in the free fit.
HeldInFreeFit ==
  (Constant \ POIs) \cup
    CASE job.float = "one_at_time" -> POIs \ {job.poi}
      [] job.float = "all"         -> {}
      [] OTHER                     -> HeldOnTheirOwn

FoundInFreeFit ==
  {found \in [Fittable -> Lo .. Hi] :
     \A p \in Fittable :
       IF p \in HeldInFreeFit THEN found[p] = nominal[p].val
                              ELSE \E o \in Outcomes : found[p] = o.val}

HeldAtPoint ==
  {job.poi} \cup (Constant \ POIs)
    \cup (IF job.stat_only THEN NPs ELSE {})
    \cup CASE job.float = "one_at_time" -> POIs
           [] job.float = "all"         -> {}
           [] job.float = "named"       -> POIs \ job.named
           [] OTHER                     -> HeldOnTheirOwn

\* The scanned POI is held at the point; the rest where the free fit has
\* found it, if there was one, and otherwise where the workspace has it.
Conditions ==
  [p \in HeldAtPoint |->
     IF p = job.poi THEN Clip(job.point)
     ELSE IF job.stat_only THEN free[p]
     ELSE nominal[p].val]

-----------------------------------------------------------------------------
StudyInit ==
  /\ job = Nothing /\ nominal = Nothing
  /\ free = Nothing /\ profile = Nothing /\ report = Nothing

\* With the observed data the global observables are zero.
Accept ==
  /\ job = Nothing
  /\ job' \in Jobs
  /\ job'.study = "OBSERVED" => job'.globs = [g \in Globs |-> Clip(0)]
  /\ nominal' \in Workspaces
  /\ UNCHANGED <<free, profile, report>>

FreeFit ==
  /\ job # Nothing /\ job.stat_only
  /\ free = Nothing
  /\ free' \in FoundInFreeFit
  /\ UNCHANGED <<job, nominal, profile, report>>

PointFit ==
  /\ job # Nothing
  /\ job.stat_only => free # Nothing
  /\ profile = Nothing
  /\ \E status \in Statuses :
       profile' = [held |-> Conditions, globs |-> job.globs, status |-> status]
  /\ UNCHANGED <<job, nominal, free, report>>

Publish ==
  /\ profile # Nothing
  /\ report = Nothing
  /\ report' = [poi |-> job.poi, value |-> job.point, status |-> profile.status,
                stat_only |-> job.stat_only, study |-> job.study]
  /\ UNCHANGED <<job, nominal, free, profile>>

StudyNext == Accept \/ FreeFit \/ PointFit \/ Publish

StudySpec == StudyInit /\ [][StudyNext]_studyVars
=============================================================================
