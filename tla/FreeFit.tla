------------------------------- MODULE FreeFit -------------------------------
(***************************************************************************)
(* The free fit: FreeFitManager, on a workspace of its own.  It lets the   *)
(* parameters of interest (POIs) that the command line names float, holds  *)
(* the others, and minimises the likelihood of the observed or of a        *)
(* generated dataset.  A stat-only fit first makes a fit to find where to  *)
(* hold the nuisance parameters (NPs).                                     *)
(***************************************************************************)
EXTENDS Workspace, Sequences

CONSTANTS
  Names,        \* names that --pois_float and --errors_for may give: POIs,
                \* and misspelt ones
  ErrorNames,   \* what --errors may say, in lower case
  Launches,     \* workspaces as read
  AsimovGlobs,  \* global observables a generated dataset may come with
  Observed,     \* the observed dataset
  NoData, NoErrors

StudyTypes == {"OBSERVED", "PREFIT", "POSTFIT"}

ErrorModes == {"DEFAULT", "HESSE", "MINOS_POIS", "USER_DEFINED"}

\* The options that matter; errors is NoErrors without --errors.
Settings ==
  [pois_float : SUBSET Names, prePostFit : StudyTypes, stat_only : BOOLEAN,
   errors : ErrorNames \cup {NoErrors}, errors_for : SUBSET Names]

GlobValues == [Globs -> Lo .. Hi]

\* A call of Minimize: the workspace before and after, and what it was told
\* of errors.
Fits ==
  [start : Workspaces, end : Workspaces, errors : ErrorModes,
   pois_to_estimate_errors : SUBSET POIs]

ASSUME FreeFitAssumption ==
  /\ POIs \subseteq Names /\ Names \cap Params \subseteq POIs
  /\ {"hesse", "minos", "user"} \subseteq ErrorNames /\ NoErrors \notin ErrorNames
  /\ Launches \subseteq Workspaces
  /\ AsimovGlobs \subseteq GlobValues
  /\ NoData \notin GlobValues /\ NoData # Observed /\ Observed \notin GlobValues

VARIABLES
  settings,
  ws,
  data,    \* Observed, or the global observables it was generated with
  pc,
  \* history, read by properties only
  launch,  \* the workspace as read
  fits     \* calls of Minimize so far

freeFitVars == <<settings, ws, data, pc, launch, fits>>

-----------------------------------------------------------------------------
\* A name that is not in the workspace is a null pointer that is added to a
\* set; an unknown way to estimate errors throws.  --errors_for is looked at
\* with "user" only.
InitFromCommandLine(s) ==
  /\ pc = "off"
  /\ settings' = s
  /\ pc' = IF /\ s.pois_float \subseteq POIs
              /\ s.errors \in {"hesse", "minos", "user", NoErrors}
              /\ s.errors = "user" => s.errors_for \subseteq POIs
           THEN "data" ELSE "aborted"
  /\ UNCHANGED <<ws, data, launch, fits>>

-----------------------------------------------------------------------------
(***************************************************************************)
(* RunFit: the dataset.                                                    *)
(***************************************************************************)
SetGlobs(w, globs) ==
  [p \in Params |-> IF p \in Globs
                    THEN [val |-> globs[p], err |-> w[p].err, const |-> w[p].const]
                    ELSE w[p]]

\* MakeAsimovData of RooStats makes the POIs constant, fits what floats, and
\* leaves every POI floating.
AsimovWorkspaces(w) ==
  {FloatVals(fitted, POIs) : fitted \in Minimised(FixValConst(w, POIs))}

\* Mutant: the zeroes of the pre-fit come last.
GenerateThenReset(w) ==
  \E globs \in AsimovGlobs, fitted \in AsimovWorkspaces(w) :
    /\ data' = globs
    /\ ws' = IF settings.prePostFit = "PREFIT"
             THEN SetVarVal(SetGlobs(fitted, globs), Globs, 0)
             ELSE SetGlobs(fitted, globs)

\* condGlobObs brings the values of the new dataset into the workspace.
Generate(w) ==
  \E globs \in AsimovGlobs, fitted \in AsimovWorkspaces(w) :
    /\ data' = globs
    /\ ws' = SetGlobs(fitted, globs)

GetData ==
  /\ pc = "data"
  /\ \/ /\ settings.prePostFit = "OBSERVED"
        /\ data' = Observed
        /\ ws' = SetVarVal(ws, Globs, 0)
     \/ /\ settings.prePostFit = "PREFIT"
        /\ Generate(SetVarVal(ws, Globs, 0))
     \/ /\ settings.prePostFit = "POSTFIT"
        /\ Generate(ws)
  /\ pc' = "pois"
  /\ UNCHANGED <<settings, launch, fits>>

-----------------------------------------------------------------------------
(***************************************************************************)
(* RunFit: the fits.                                                       *)
(***************************************************************************)
errors_type ==
  CASE settings.errors = "hesse" -> "HESSE"
    [] settings.errors = "minos" -> "MINOS_POIS"
    [] settings.errors = "user"  -> "USER_DEFINED"
    [] OTHER -> "DEFAULT"

\* RunFit replaces the parameters that MINOS is to scan by the floating POIs,
\* also when --errors_for has named others.
ErrorsFor ==
  IF errors_type \in {"MINOS_POIS", "USER_DEFINED"} THEN settings.pois_float ELSE {}

\* Mutant: the POIs that are not asked for are left as they are.
FloatPoisOnly(w) == FloatVals(w, settings.pois_float)

FloatPois(w) == FloatVals(FixValConst(w, POIs), settings.pois_float)

PreparePois ==
  /\ pc = "pois"
  /\ ws' = FloatPois(ws)
  /\ pc' = IF settings.stat_only THEN "stat_only_fit" ELSE "fit"
  /\ UNCHANGED <<settings, data, launch, fits>>

\* Minimize: its status is not looked at.
Minimize(fitted, errors) ==
  /\ fitted \in Minimised(ws)
  /\ fits' = Append(fits, [start |-> ws, end |-> fitted, errors |-> errors,
                           pois_to_estimate_errors |-> ErrorsFor])

\* Mutant: the errors are not put aside.
StatOnlyFitWithErrors ==
  /\ pc = "stat_only_fit"
  /\ \E fitted \in Minimised(ws) :
       Minimize(fitted, errors_type) /\ ws' = FixValConst(fitted, NPs)
  /\ pc' = "fit"
  /\ UNCHANGED <<settings, data, launch>>

\* Mutant: the NPs are fixed before the fit.
StatOnlyFitOfFixed ==
  /\ pc = "stat_only_fit"
  /\ \E fitted \in Minimised(ws) : Minimize(fitted, "DEFAULT") /\ ws' = FixValConst(ws, NPs)
  /\ pc' = "fit"
  /\ UNCHANGED <<settings, data, launch>>

StatOnlyFit ==
  /\ pc = "stat_only_fit"
  /\ \E fitted \in Minimised(ws) :
       Minimize(fitted, "DEFAULT") /\ ws' = FixValConst(fitted, NPs)
  /\ pc' = "fit"
  /\ UNCHANGED <<settings, data, launch>>

\* The result goes to free_fit_res.root, whatever --out says.
LastFit ==
  /\ pc = "fit"
  /\ \E fitted \in Minimised(ws) : Minimize(fitted, errors_type) /\ ws' = fitted
  /\ pc' = "done"
  /\ UNCHANGED <<settings, data, launch>>

-----------------------------------------------------------------------------
NoSettings ==
  [pois_float |-> {}, prePostFit |-> "OBSERVED", stat_only |-> FALSE,
   errors |-> NoErrors, errors_for |-> {}]

FreeFitInit ==
  /\ settings = NoSettings
  /\ ws \in Launches
  /\ data = NoData
  /\ pc = "off"
  /\ launch = ws
  /\ fits = <<>>

RunFit == GetData \/ PreparePois \/ StatOnlyFit \/ LastFit

FreeFitNext == (\E s \in Settings : InitFromCommandLine(s)) \/ RunFit

FreeFitSpec == FreeFitInit /\ [][FreeFitNext]_freeFitVars

-----------------------------------------------------------------------------
\* Every variable has its type.
FreeFitTypeOK ==
  /\ settings \in Settings
  /\ ws \in Workspaces /\ launch \in Workspaces
  /\ data \in GlobValues \cup {Observed, NoData}
  /\ pc \in {"off", "data", "pois", "stat_only_fit", "fit", "done", "aborted"}
  /\ fits \in Seq(Fits)

\* "To run a free fit with no conditions, floating only the required POIs"
\* (README.md:228): in every fit the POIs that float are the required ones,
\* whatever floats in the workspace, and the others are where the workspace
\* has them, before the fit, after it and after the generation of a dataset
\* (RunFit).
OnlyRequiredPoisFloat ==
  /\ \A i \in DOMAIN fits : \A p \in POIs :
       /\ fits[i].start[p].const = (p \notin settings.pois_float)
       /\ p \notin settings.pois_float => /\ fits[i].start[p].val = launch[p].val
                                          /\ fits[i].end[p].val = launch[p].val
  /\ \A p \in POIs \ settings.pois_float : ws[p].val = launch[p].val

\* The last fit of a stat-only request holds every NP where the fit before it
\* has left it, and that fit moved those that float in the workspace; without
\* stat_only they float in the last fit (RunFit).
LastFitHoldsNpsAsAsked ==
  pc = "done" =>
    LET last == fits[Len(fits)]
    IN /\ Len(fits) = IF settings.stat_only THEN 2 ELSE 1
       /\ \A n \in NPs :
            /\ fits[1].start[n].const = launch[n].const
            /\ settings.stat_only => /\ last.start[n].const
                                     /\ last.end[n].val = fits[1].end[n].val

\* Every fit sees the global observables that belong to its dataset: zeroes
\* with the observed data, and with a generated dataset the values it was
\* generated with, although the pre-fit study zeroes them too (RunFit).
FreeFitGlobsBelongToData ==
  \A i \in DOMAIN fits : \A g \in Globs :
    fits[i].start[g].val = IF data = Observed THEN Clip(0) ELSE data[g]

\* The kind of errors that --errors asks for is estimated in the last fit and
\* in no other: it is put aside for the first fit and must come back.  The
\* parameters that MINOS is to scan, whoever has chosen them, float in their
\* fit (RunFit).
ErrorsOfLastFitOnly ==
  /\ \A i \in DOMAIN fits :
       /\ i < Len(fits) => fits[i].errors = "DEFAULT"
       /\ \A p \in fits[i].pois_to_estimate_errors : ~ fits[i].start[p].const
  /\ pc = "done" => fits[Len(fits)].errors = errors_type

\* "For Minos. Parameters for which the errors are to be estimated."
\* (README.md:246): MINOS scans the parameters that --errors_for names.
ErrorsForNamesParameters ==
  pc = "done" /\ errors_type \in {"MINOS_POIS", "USER_DEFINED"}
      /\ settings.errors_for # {} =>
    fits[Len(fits)].pois_to_estimate_errors = settings.errors_for
=============================================================================
