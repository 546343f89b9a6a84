-------------------------- MODULE RankingWorkerProofs --------------------------
(***************************************************************************)
(* For every workspace, every list of nuisance parameters and every        *)
(* outcome of every fit: the worker is type correct, each of its fits      *)
(* starts where the study says, and it implements RankingStudy.            *)
(***************************************************************************)
EXTENDS RankingWorker, WorkspaceProofs, Induction

-----------------------------------------------------------------------------
(***************************************************************************)
(* The inductive invariant.                                                *)
(***************************************************************************)

\* The NP is known exactly while the worker works on it.
Chosen ==
  /\ pc = "select" => np = NoNp
  /\ pc \notin {"select", "aborted"} => np \in NPs

\* What the snapshot holds: the workspace as read, apart from the global
\* observables that SaveInitState zeroes.
Initial(p) ==
  IF p \in Globs \ Gamma /\ settings.prePostFit # "POSTFIT"
  THEN [launch[p] EXCEPT !.val = Clip(0), !.err = 0]
  ELSE launch[p]

Prepared ==
  /\ pc \in {"select", "prepare"} => ws = launch
  /\ pc \notin {"select", "prepare", "aborted"} =>
       /\ snapshot \in [Globs \cup NPs -> Var]
       /\ \A p \in Globs \cup NPs : snapshot[p] = Initial(p)
  /\ pc \in {"build", "reset"} /\ fit = "free_fit" =>
       \A p \in Globs \cup NPs : ws[p] = Initial(p)

\* The fits that are over: those before the one at hand.
Over == IF pc \in {"write", "done"} THEN Fits ELSE Study!Before(fit)

Ran ==
  /\ \A k \in Fits : runs[k] # NotRun <=> k \in Over
  /\ \A k \in Over : results[k] = runs[k].poi
  /\ pc \in {"select", "prepare", "build"} => fit = "free_fit"
  /\ pc = "set_errors" => fit = "prefit_+"
  /\ pc \in {"write", "done"} => fit = "postfit_-"

\* The POI was in the free fit where the driver is about to read it.
Central ==
  /\ central = NoCentral <=> fit = "free_fit" \/ (fit = "fixed_np_fit" /\ pc = "reset")
  /\ fit = "fixed_np_fit" /\ pc = "reset" =>
       runs["free_fit"].np = [val |-> ws[np].val, err |-> ws[np].err]

Manager ==
  /\ fit = "free_fit" => nll = "null"
  /\ fit # "free_fit" => nll \in Fits /\ (settings.reuse_nll => nll = "free_fit")
  /\ pc \in {"reset", "fit"} =>
       errors = IF fit \in VariedFits THEN "DEFAULT" ELSE settings.errors

\* StartsAtStudyPoint, parameter by parameter.
Started ==
  pc = "fit" =>
    /\ \A p \in POIs :
         /\ ws[p].val = Clip(settings.poi_init_val)
         /\ ws[p].err = 0
         /\ p \in PoisToFit => ws[p].const = FALSE
         /\ p \notin PoisToFit => ws[p].const = TRUE
    /\ \A p \in (Globs \cup NPs) \ {np} : ws[p] = Initial(p)
    /\ fit = "free_fit" => ws[np] = Initial(np)
    /\ fit # "free_fit" =>
         ws[np] = [val |-> Clip(central.val + Study!Shift(fit, central)),
                   err |-> central.err, const |-> TRUE]

\* Varied fits held the NP at the displacement they are named for.
Displaced ==
  \A k \in Over \cap VariedFits :
    /\ runs[k].start[np].const = TRUE
    /\ runs[k].start[np].val = Clip(central.val + Variation(k))

Published ==
  /\ pc # "done" => file = NoReport
  /\ pc = "done" => file # NoReport /\ file.report = Report

IInv ==
  /\ TypeOK /\ Chosen /\ Prepared /\ Ran /\ Central /\ Manager /\ Started
  /\ Displaced /\ Published
-----------------------------------------------------------------------------
(***************************************************************************)
(* What the resets of OneNpManager do.                                     *)
(***************************************************************************)

\* Setting value and error of some POIs: to the requested value, in range,
\* and to zero.
LEMMA InitPoisPoint ==
  ASSUME NEW w \in Workspaces, NEW S, settings.poi_init_val \in Int
  PROVE  /\ InitPois(w, S) \in Workspaces
         /\ \A p \in Params :
              /\ InitPois(w, S)[p].val =
                   IF p \in S THEN Clip(settings.poi_init_val) ELSE w[p].val
              /\ InitPois(w, S)[p].err = IF p \in S THEN 0 ELSE w[p].err
              /\ InitPois(w, S)[p].const = w[p].const
<1> DEFINE u == SetVarVal(w, S, settings.poi_init_val)
<1>1. /\ u \in Workspaces
      /\ \A p \in Params :
           /\ u[p].val = IF p \in S THEN Clip(settings.poi_init_val) ELSE w[p].val
           /\ u[p].err = w[p].err
           /\ u[p].const = w[p].const
  BY SetVarValPoint
<1>2. InitPois(w, S) = SetVarErr(u, S, 0)
  BY DEF InitPois
<1> HIDE DEF u
<1>3. /\ SetVarErr(u, S, 0) \in Workspaces
      /\ \A p \in Params :
           /\ SetVarErr(u, S, 0)[p].val = u[p].val
           /\ SetVarErr(u, S, 0)[p].err = IF p \in S THEN 0 ELSE u[p].err
           /\ SetVarErr(u, S, 0)[p].const = u[p].const
  BY <1>1, SetVarErrPoint
<1>4. QED BY <1>1, <1>2, <1>3

\* After ResetPoi every POI has the requested value, and exactly those that
\* are to be fitted float; no other parameter is touched.
LEMMA ResetPoiPoint ==
  ASSUME NEW w \in Workspaces,
         settings.poi \in POIs, settings.poi_init_val \in Int
  PROVE  /\ ResetPoi(w) \in Workspaces
         /\ \A p \in POIs :
              /\ ResetPoi(w)[p].val = Clip(settings.poi_init_val)
              /\ ResetPoi(w)[p].err = 0
              /\ p \in PoisToFit => ResetPoi(w)[p].const = FALSE
              /\ p \notin PoisToFit => ResetPoi(w)[p].const = TRUE
         /\ \A p \in Params \ POIs : ResetPoi(w)[p] = w[p]
<1> DEFINE u1 == InitPois(w, POIs)
           u2 == FixValConst(u1, POIs)
           u3 == FloatVals(u2, PoisToFit)
           u4 == InitPois(u3, {settings.poi})
<1>0. PoisToFit \subseteq POIs /\ POIs \subseteq Params
  BY DEF PoisToFit, Params
<1>1. /\ u1 \in Workspaces
      /\ \A p \in Params :
           /\ u1[p].val = IF p \in POIs THEN Clip(settings.poi_init_val) ELSE w[p].val
           /\ u1[p].err = IF p \in POIs THEN 0 ELSE w[p].err
           /\ u1[p].const = w[p].const
  BY InitPoisPoint
<1> HIDE DEF u1
<1>2. /\ u2 \in Workspaces
      /\ \A p \in Params :
           /\ u2[p].val = u1[p].val
           /\ u2[p].err = u1[p].err
           /\ p \in POIs => u2[p].const = TRUE
           /\ p \notin POIs => u2[p].const = u1[p].const
  BY <1>1, FixValConstPoint
<1> HIDE DEF u2
<1>3. /\ u3 \in Workspaces
      /\ \A p \in Params :
           /\ u3[p].val = u2[p].val
           /\ u3[p].err = u2[p].err
           /\ p \in PoisToFit => u3[p].const = FALSE
           /\ p \notin PoisToFit => u3[p].const = u2[p].const
  <2>1. u2 \in Workspaces
    BY <1>2
  <2>2. QED BY ONLY <2>1, FloatValsPoint, Zenon
<1> HIDE DEF u3
<1>4. /\ u4 \in Workspaces
      /\ \A p \in Params :
           /\ u4[p].val =
                IF p \in {settings.poi} THEN Clip(settings.poi_init_val) ELSE u3[p].val
           /\ u4[p].err = IF p \in {settings.poi} THEN 0 ELSE u3[p].err
           /\ u4[p].const = u3[p].const
  BY <1>3, InitPoisPoint
<1>5. ResetPoi(w) = u4
  BY DEF ResetPoi, u1, u2, u3
<1> HIDE DEF u4
<1>6. ASSUME NEW p \in POIs
      PROVE  /\ u4[p].val = Clip(settings.poi_init_val)
             /\ u4[p].err = 0
             /\ p \in PoisToFit => u4[p].const = FALSE
             /\ p \notin PoisToFit => u4[p].const = TRUE
  BY <1>0, <1>1, <1>2, <1>3, <1>4
<1>7. ASSUME NEW p \in Params \ POIs
      PROVE  u4[p] = w[p]
  <2>1. u4[p].val = w[p].val /\ u4[p].err = w[p].err
    BY <1>0, <1>1, <1>2, <1>3, <1>4
  <2>2. u4[p].const = w[p].const
    BY <1>0, <1>1, <1>2, <1>3, <1>4
  <2>3. QED BY <2>1, <2>2, <1>4, WorkspaceField, VarExtensionality
<1>8. QED BY <1>4, <1>5, <1>6, <1>7

\* After ResetNp the NP is constant at the given point; no other parameter
\* is touched.
LEMMA ResetNpPoint ==
  ASSUME NEW w \in Workspaces, NEW c \in Estimates, np \in NPs
  PROVE  /\ ResetNp(w, c) \in Workspaces
         /\ ResetNp(w, c)[np] = [val |-> c.val, err |-> c.err, const |-> TRUE]
         /\ \A p \in Params \ {np} : ResetNp(w, c)[p] = w[p]
<1> DEFINE u1 == SetVarVal(w, {np}, c.val)
           u2 == SetVarErr(u1, {np}, c.err)
           u3 == FixValConst(u2, {np})
<1>0. /\ np \in Params /\ c.val \in Lo .. Hi /\ c.err \in Nat /\ c.val \in Int
      /\ Clip(c.val) = c.val
  BY ClipOfValue, WorkspaceAssumption DEF Estimates, Params
<1>1. /\ u1 \in Workspaces
      /\ \A p \in Params :
           /\ u1[p].val = IF p \in {np} THEN Clip(c.val) ELSE w[p].val
           /\ u1[p].err = w[p].err
           /\ u1[p].const = w[p].const
  BY <1>0, SetVarValPoint
<1> HIDE DEF u1
<1>2. /\ u2 \in Workspaces
      /\ \A p \in Params :
           /\ u2[p].val = u1[p].val
           /\ u2[p].err = IF p \in {np} THEN c.err ELSE u1[p].err
           /\ u2[p].const = u1[p].const
  BY <1>0, <1>1, SetVarErrPoint
<1> HIDE DEF u2
<1>3. /\ u3 \in Workspaces
      /\ \A p \in Params :
           /\ u3[p].val = u2[p].val
           /\ u3[p].err = u2[p].err
           /\ p \in {np} => u3[p].const = TRUE
           /\ p \notin {np} => u3[p].const = u2[p].const
  BY <1>2, FixValConstPoint
<1>4. ResetNp(w, c) = u3
  BY DEF ResetNp, u1, u2
<1> HIDE DEF u3
<1>5. u3[np] = [val |-> c.val, err |-> c.err, const |-> TRUE]
  <2>1. /\ u3[np].val = c.val /\ u3[np].err = c.err
        /\ u3[np].const = TRUE
    BY <1>0, <1>1, <1>2, <1>3
  <2>2. u3[np] \in Var
    BY <1>0, <1>3, WorkspaceField
  <2>3. QED BY <2>1, <2>2 DEF Var
<1>6. ASSUME NEW p \in Params \ {np}
      PROVE  u3[p] = w[p]
  <2>1. u3[p].val = w[p].val /\ u3[p].err = w[p].err
    BY <1>1, <1>2, <1>3
  <2>2. u3[p].const = w[p].const
    BY <1>1, <1>2, <1>3
  <2>3. QED BY <2>1, <2>2, <1>3, WorkspaceField, VarExtensionality
<1>7. QED BY <1>3, <1>4, <1>5, <1>6

\* ResetToInitState makes the point every fit after the free one starts
\* from, whatever the workspace was.
LEMMA ResetToInitStatePoint ==
  ASSUME NEW w \in Workspaces, NEW c \in Estimates, np \in NPs,
         settings.poi \in POIs, settings.poi_init_val \in Int,
         snapshot \in [Globs \cup NPs -> Var]
  PROVE  LET r == ResetToInitState(w, c) IN
         /\ r \in Workspaces
         /\ \A p \in POIs :
              /\ r[p].val = Clip(settings.poi_init_val)
              /\ r[p].err = 0
              /\ p \in PoisToFit => r[p].const = FALSE
              /\ p \notin PoisToFit => r[p].const = TRUE
         /\ r[np] = [val |-> c.val, err |-> c.err, const |-> TRUE]
         /\ \A p \in (Globs \cup NPs) \ {np} : r[p] = snapshot[p]
<1> DEFINE u1 == loadSnapshot(w, snapshot)
           u2 == ResetNp(u1, c)
           u3 == ResetPoi(u2)
<1>0. /\ Globs \cup NPs \subseteq Params \ POIs
  BY WorkspaceAssumption DEF Params
<1>1. /\ u1 \in Workspaces
      /\ \A p \in Params : u1[p] = IF p \in Globs \cup NPs THEN snapshot[p] ELSE w[p]
  BY <1>0, LoadSnapshotPoint
<1> HIDE DEF u1
<1>2. /\ u2 \in Workspaces
      /\ u2[np] = [val |-> c.val, err |-> c.err, const |-> TRUE]
      /\ \A p \in Params \ {np} : u2[p] = u1[p]
  BY <1>1, ResetNpPoint
<1> HIDE DEF u2
<1>3. /\ u3 \in Workspaces
      /\ \A p \in POIs :
           /\ u3[p].val = Clip(settings.poi_init_val)
           /\ u3[p].err = 0
           /\ p \in PoisToFit => u3[p].const = FALSE
           /\ p \notin PoisToFit => u3[p].const = TRUE
      /\ \A p \in Params \ POIs : u3[p] = u2[p]
  BY <1>2, ResetPoiPoint
<1>4. ResetToInitState(w, c) = u3
  BY DEF ResetToInitState, u1, u2
<1> HIDE DEF u3
<1>5. u3[np] = [val |-> c.val, err |-> c.err, const |-> TRUE]
  BY <1>0, <1>2, <1>3
<1>6. ASSUME NEW p \in (Globs \cup NPs) \ {np}
      PROVE  u3[p] = snapshot[p]
  BY <1>0, <1>1, <1>2, <1>3
<1>7. QED BY <1>3, <1>4, <1>5, <1>6

-----------------------------------------------------------------------------
(***************************************************************************)
(* The invariant is inductive.                                             *)
(***************************************************************************)

\* What a request is made of.
LEMMA RequestFields ==
  ASSUME settings \in Requests
  PROVE  /\ settings.np_name \in NPs \cup {NoName} /\ settings.worker_id \in Nat
         /\ settings.poi \in POIs /\ settings.poi_init_val \in Int
         /\ settings.errors \in ErrorModes
BY RankingAssumption DEF Settings

\* A worker starts in the invariant.
LEMMA InitIInv == Init => IInv
<1> SUFFICES ASSUME Init PROVE IInv
  OBVIOUS
<1>1. TypeOK
  BY RequestFields, RankingAssumption DEF Init, TypeOK, Fits
<1>2. Study!Before(fit) = {} /\ Over = {}
  BY DEF Init, Over, Study!Before
<1>3. Chosen /\ Prepared /\ Ran
  BY <1>2 DEF Init, Chosen, Prepared, Ran
<1>4. Central /\ Manager /\ Started /\ Displaced /\ Published
  BY <1>2 DEF Init, Central, Manager, Started, Displaced, Published
<1>5. QED BY <1>1, <1>3, <1>4 DEF IInv

\* The list without gammas is the function of Induction.
LEMMA NonGammaIsFilter == IsFilter(PairedNps, Gamma, NonGammaOf, Len(PairedNps))
<1>1. Len(PairedNps) \in Nat
  BY RankingAssumption
<1>2. \E f : IsFilter(PairedNps, Gamma, f, Len(PairedNps))
  BY <1>1, FilterExists
<1>3. NonGammaOf = CHOOSE f : IsFilter(PairedNps, Gamma, f, Len(PairedNps))
  BY Zenon DEF NonGammaOf, IsFilter
<1> QED
  BY <1>2, <1>3, Zenon

\* It is a list of NPs.
LEMMA NonGammaNpsType == NonGammaNps \in Seq(NPs)
<1>1. PairedNps \in Seq(NPs)
  BY RankingAssumption
<1> QED
  BY <1>1, NonGammaIsFilter, FilterKeeps DEF NonGammaNps

\* The choice of the NP touches nothing the invariant speaks of but np.
LEMMA SelectIInv ==
  ASSUME IInv, SelectNpByWorkerId \/ SelectNpByName PROVE IInv'
<1> USE DEF IInv
<1>1. /\ np' \in NPs \/ np' = np
      /\ \/ pc' = "prepare" /\ np' \in NPs
         \/ pc' = "aborted" /\ np' = np
      /\ workerId' \in Nat
      /\ pc = "select"
      /\ UNCHANGED <<settings, ws, snapshot, managerVars, file, fit, history>>
  <2>0. \A noGamma \in BOOLEAN : NpList(noGamma) \in Seq(NPs)
    BY RankingAssumption, NonGammaNpsType DEF NpList
  <2>1. workerId \in Nat
    BY DEF TypeOK
  <2>2. CASE SelectNpByWorkerId
    <3>1. PICK noGamma \in BOOLEAN :
            \/ \E c \in ByWorkerId(noGamma, workerId) : Selected(c)
            \/ NotSelected(ByWorkerId(noGamma, workerId))
      BY <2>2 DEF SelectNpByWorkerId
    <3>2. ASSUME NEW c \in ByWorkerId(noGamma, workerId)
          PROVE  c.np \in NPs /\ c.number \in Nat
      <4>1. /\ workerId + 1 \in 1 .. Len(NpList(noGamma))
            /\ c = [np |-> NpList(noGamma)[workerId + 1], number |-> workerId]
        BY <2>0, <2>1 DEF ByWorkerId
      <4>2. QED BY <2>0, <2>1, <4>1
    <3>3. QED BY <2>1, <2>2, <3>1, <3>2 DEF SelectNpByWorkerId, Selected, NotSelected
  <2>3. CASE SelectNpByName
    <3>1. PICK noGamma \in BOOLEAN :
            \/ \E c \in ByName(noGamma, settings.np_name) : Selected(c)
            \/ NotSelected(ByName(noGamma, settings.np_name))
      BY <2>3 DEF SelectNpByName
    <3>2. ASSUME NEW c \in ByName(noGamma, settings.np_name)
          PROVE  c.np \in NPs /\ c.number \in Nat
      <4>1. settings.np_name \in NPs
        BY <2>3, RequestFields DEF SelectNpByName, TypeOK
      <4>2. PICK i \in 2 .. Len(NpList(noGamma)) :
              c = [np |-> settings.np_name, number |-> i - 1]
        BY DEF ByName
      <4>3. QED BY <2>0, <4>1, <4>2
    <3>3. QED BY <2>1, <2>3, <3>1, <3>2 DEF SelectNpByName, Selected, NotSelected
  <2>4. QED BY <2>2, <2>3
<1>2. TypeOK'
  BY <1>1 DEF TypeOK, managerVars, history
<1>3. Over' = Over /\ Over = {}
  BY <1>1 DEF Over, Ran, Study!Before
<1>4. Chosen' /\ Prepared'
  BY <1>1 DEF Chosen, Prepared, Ran, Initial, history
<1>5. Ran' /\ Central' /\ Manager' /\ Started' /\ Displaced' /\ Published'
  BY <1>1, <1>3 DEF Ran, Central, Manager, Started, Displaced, Published,
                    managerVars, history
<1>6. QED BY <1>2, <1>4, <1>5

\* Nothing of the parameters' preparation depends on what a fit found.
LEMMA InitialInVar ==
  ASSUME launch \in Workspaces, NEW p \in Params
  PROVE  /\ Initial(p) \in Var
         /\ p \in NPs => Initial(p) = launch[p]
<1>1. launch[p] \in Var /\ Clip(0) \in Lo .. Hi
  BY WorkspaceField, ClipInRange
<1>2. QED BY <1>1, WorkspaceAssumption DEF Initial, Var

\* SaveInitState leaves in the workspace what it puts into the snapshot.
LEMMA SaveInitStateIInv == ASSUME IInv, SaveInitState PROVE IInv'
<1> USE DEF IInv
<1>1. /\ settings.poi_init_val \in Int /\ 0 \in Int /\ 0 \in Nat
      /\ ws \in Workspaces /\ launch \in Workspaces /\ ws = launch
      /\ Globs \cup NPs \subseteq Params \ POIs
  BY RequestFields, WorkspaceAssumption DEF TypeOK, SaveInitState, Prepared, Params
<1>2. ws' \in Workspaces /\ \A p \in Globs \cup NPs : ws'[p] = Initial(p)
  <2>1. CASE settings.prePostFit # "POSTFIT"
    <3> DEFINE u1 == SetVarVal(ws, POIs, settings.poi_init_val)
               u2 == SetVarErr(u1, POIs, 0)
               u3 == SetVarVal(u2, Globs \ Gamma, 0)
               u4 == SetVarErr(u3, Globs \ Gamma, 0)
    <3>1. /\ u1 \in Workspaces
          /\ \A p \in Params \ POIs :
               /\ u1[p].val = ws[p].val /\ u1[p].err = ws[p].err
               /\ u1[p].const = ws[p].const
      BY <1>1, SetVarValPoint
    <3> HIDE DEF u1
    <3>2. /\ u2 \in Workspaces
          /\ \A p \in Params \ POIs :
               /\ u2[p].val = u1[p].val /\ u2[p].err = u1[p].err
               /\ u2[p].const = u1[p].const
      BY <1>1, <3>1, SetVarErrPoint
    <3> HIDE DEF u2
    <3>3. /\ u3 \in Workspaces
          /\ \A p \in Params :
               /\ u3[p].val = IF p \in Globs \ Gamma THEN Clip(0) ELSE u2[p].val
               /\ u3[p].err = u2[p].err
               /\ u3[p].const = u2[p].const
      BY <1>1, <3>2, SetVarValPoint
    <3> HIDE DEF u3
    <3>4. /\ u4 \in Workspaces
          /\ \A p \in Params :
               /\ u4[p].val = u3[p].val
               /\ u4[p].err = IF p \in Globs \ Gamma THEN 0 ELSE u3[p].err
               /\ u4[p].const = u3[p].const
      BY <1>1, <3>3, SetVarErrPoint
    <3>5. ws' = u4
      BY <2>1 DEF SaveInitState, SetAllGlobObsTo, SetAllPoisTo, u1, u2, u3
    <3> HIDE DEF u4
    <3>6. ASSUME NEW p \in Globs \cup NPs PROVE u4[p] = Initial(p)
      <4>1. /\ Initial(p).val = IF p \in Globs \ Gamma THEN Clip(0) ELSE launch[p].val
            /\ Initial(p).err = IF p \in Globs \ Gamma THEN 0 ELSE launch[p].err
            /\ Initial(p).const = launch[p].const
        BY <1>1, <2>1, WorkspaceField DEF Initial, Var
      <4>2. p \in Params \ POIs
        BY <1>1
      <4>3. u4[p].val = Initial(p).val /\ u4[p].err = Initial(p).err
        BY <1>1, <3>1, <3>2, <3>3, <3>4, <4>1, <4>2
      <4>4. u4[p].const = Initial(p).const
        BY <1>1, <3>1, <3>2, <3>3, <3>4, <4>1, <4>2
      <4>5. QED BY <1>1, <3>4, <4>2, <4>3, <4>4, InitialInVar, WorkspaceField,
                   VarExtensionality
    <3>7. QED BY <3>4, <3>5, <3>6
  <2>2. CASE settings.prePostFit = "POSTFIT"
    BY <1>1, <2>2 DEF SaveInitState, Initial
  <2>3. QED BY <2>1, <2>2
<1>3. /\ snapshot' \in [Globs \cup NPs -> Var]
      /\ \A p \in Globs \cup NPs : snapshot'[p] = Initial(p)
  BY <1>1, <1>2, WorkspaceField DEF SaveInitState, saveSnapshot
<1>4. /\ pc = "prepare" /\ pc' = "build"
      /\ UNCHANGED <<settings, np, workerId, central, errors, nll, results, file,
                     fit, launch, runs>>
  BY DEF SaveInitState, managerVars, history
<1>5. TypeOK'
  BY <1>2, <1>3, <1>4 DEF TypeOK
<1>6. Over' = Over /\ Over = {}
  BY <1>4 DEF Over, Ran, Study!Before
<1>7. Chosen' /\ Prepared'
  BY <1>2, <1>3, <1>4 DEF Chosen, Prepared, Initial
<1>8. Ran' /\ Central' /\ Manager' /\ Started' /\ Displaced' /\ Published'
  BY <1>4, <1>6 DEF Ran, Central, Manager, Started, Displaced, Published
<1>9. QED BY <1>5, <1>7, <1>8

\* The manager is built for observed data only, with the errors asked for.
LEMMA BuildManagerIInv == ASSUME IInv, BuildManager PROVE IInv'
<1> USE DEF IInv
<1>1. /\ pc = "build" /\ pc' \in {"reset", "aborted"}
      /\ pc' = "reset" => errors' = settings.errors
      /\ errors' \in {errors, settings.errors}
      /\ fit = "free_fit"
      /\ UNCHANGED <<settings, ws, snapshot, np, workerId, central, nll, results,
                     file, fit, launch, runs>>
  BY DEF BuildManager, Ran, history
<1>2. TypeOK'
  BY <1>1, RequestFields DEF TypeOK
<1>3. Over' = Over /\ Over = {}
  BY <1>1 DEF Over, Study!Before
<1>4. Chosen' /\ Prepared'
  BY <1>1 DEF Chosen, Prepared, Initial
<1>5. Manager'
  BY <1>1 DEF Manager, VariedFits
<1>6. Ran' /\ Central' /\ Started' /\ Displaced' /\ Published'
  BY <1>1, <1>3 DEF Ran, Central, Started, Displaced, Published
<1>7. QED BY <1>2, <1>4, <1>5, <1>6

\* The free fit starts from the prepared workspace.
LEMMA RunFreeFitIInv == ASSUME IInv, RunFreeFit PROVE IInv'
<1> USE DEF IInv
<1>1. /\ pc = "reset" /\ fit = "free_fit" /\ pc' = "fit" /\ np \in NPs
      /\ ws' = ResetPoi(ws)
      /\ UNCHANGED <<settings, snapshot, np, workerId, central, errors, nll,
                     results, file, fit, launch, runs>>
  BY DEF RunFreeFit, Chosen, managerVars, history
<1>2. /\ settings.poi \in POIs /\ settings.poi_init_val \in Int /\ ws \in Workspaces
      /\ Globs \cup NPs \subseteq Params \ POIs
  BY RequestFields, WorkspaceAssumption DEF TypeOK, Params
<1>3. /\ ws' \in Workspaces
      /\ \A p \in POIs :
           /\ ws'[p].val = Clip(settings.poi_init_val)
           /\ ws'[p].err = 0
           /\ p \in PoisToFit => ws'[p].const = FALSE
           /\ p \notin PoisToFit => ws'[p].const = TRUE
      /\ \A p \in Params \ POIs : ws'[p] = ws[p]
  BY <1>1, <1>2, ResetPoiPoint
<1>4. \A p \in Globs \cup NPs : ws'[p] = Initial(p)
  BY <1>1, <1>2, <1>3 DEF Prepared
<1>5. TypeOK'
  BY <1>1, <1>3 DEF TypeOK
<1>6. Over' = Over /\ Over = {}
  BY <1>1 DEF Over, Study!Before
<1>7. Chosen' /\ Prepared'
  BY <1>1 DEF Chosen, Prepared, Initial
<1>8. Started'
  BY <1>1, <1>3, <1>4 DEF Started, PoisToFit, Initial
<1>9. Ran' /\ Central' /\ Manager' /\ Displaced' /\ Published'
  BY <1>1, <1>6 DEF Ran, Central, Manager, Displaced, Published
<1>10. QED BY <1>5, <1>7, <1>8, <1>9

\* The second fit starts from the reset workspace, at the NP the free fit
\* found.
LEMMA RunFitFixingNpIInv == ASSUME IInv, RunFitFixingNpAtCentralValue PROVE IInv'
<1> USE DEF IInv
<1>1. /\ pc = "reset" /\ fit = "fixed_np_fit" /\ pc' = "fit" /\ np \in NPs
      /\ central' = [val |-> ws[np].val, err |-> ws[np].err]
      /\ ws' = ResetToInitState(ws, central')
      /\ UNCHANGED <<settings, snapshot, np, workerId, errors, nll,
                     results, file, fit, launch, runs>>
  BY DEF RunFitFixingNpAtCentralValue, Chosen, history
<1>2. /\ settings.poi \in POIs /\ settings.poi_init_val \in Int /\ ws \in Workspaces
      /\ np \in Params
      /\ snapshot \in [Globs \cup NPs -> Var]
      /\ \A p \in Globs \cup NPs : snapshot[p] = Initial(p)
  BY <1>1, RequestFields DEF TypeOK, Params, Prepared
<1>3. central' \in Estimates /\ Clip(central'.val) = central'.val
  BY <1>1, <1>2, WorkspaceField, ClipOfValue DEF Estimates
<1>4. /\ ws' \in Workspaces
      /\ \A p \in POIs :
           /\ ws'[p].val = Clip(settings.poi_init_val)
           /\ ws'[p].err = 0
           /\ p \in PoisToFit => ws'[p].const = FALSE
           /\ p \notin PoisToFit => ws'[p].const = TRUE
      /\ ws'[np] = [val |-> central'.val, err |-> central'.err, const |-> TRUE]
      /\ \A p \in (Globs \cup NPs) \ {np} : ws'[p] = snapshot[p]
  BY <1>1, <1>2, <1>3, ResetToInitStatePoint
<1>5. TypeOK'
  BY <1>1, <1>3, <1>4 DEF TypeOK
<1>6. Over' = Over /\ Over \cap VariedFits = {}
  BY <1>1 DEF Over, Study!Before, VariedFits
<1>7. Chosen' /\ Prepared'
  BY <1>1 DEF Chosen, Prepared, Initial
<1>8. Started'
  <2>1. Clip(central'.val + Study!Shift(fit, central)') = central'.val
    BY <1>1, <1>3, WorkspaceAssumption DEF Study!Shift, Estimates
  <2>2. ws'[np'] = [val |-> Clip(central'.val + Study!Shift(fit, central)'),
                    err |-> central'.err, const |-> TRUE]
    BY <1>1, <1>4, <2>1
  <2>3. QED BY <1>1, <1>2, <1>4, <2>2 DEF Started, PoisToFit, Initial
<1>9. Central'
  BY <1>1, <1>3, RankingAssumption DEF Central
<1>10. Ran' /\ Manager' /\ Displaced' /\ Published'
  BY <1>1, <1>6 DEF Ran, Manager, Displaced, Published
<1>11. QED BY <1>5, <1>7, <1>8, <1>9, <1>10

\* The errors change between the fits at the central value and the others.
LEMMA KeepCentralValuesOnlyIInv == ASSUME IInv, KeepCentralValuesOnly PROVE IInv'
<1> USE DEF IInv
<1>1. /\ pc = "set_errors" /\ fit = "prefit_+" /\ pc' = "reset" /\ errors' = "DEFAULT"
      /\ UNCHANGED <<settings, ws, snapshot, np, workerId, central, nll, results,
                     file, fit, launch, runs>>
  BY DEF KeepCentralValuesOnly, Ran, history
<1>2. TypeOK'
  BY <1>1, RankingAssumption DEF TypeOK
<1>3. Over' = Over
  BY <1>1 DEF Over
<1>4. Chosen' /\ Prepared'
  BY <1>1 DEF Chosen, Prepared, Initial
<1>5. Displaced'
  BY <1>1, <1>3 DEF Displaced, Variation
<1>6. Manager'
  BY <1>1 DEF Manager, VariedFits, Fits
<1>7. Ran' /\ Central' /\ Started' /\ Published'
  BY <1>1, <1>3 DEF Ran, Central, Started, Published
<1>8. QED BY <1>2, <1>4, <1>5, <1>6, <1>7

\* The other four fits start from the reset workspace, with the NP moved.
LEMMA RunVariedFitIInv == ASSUME IInv, RunVariedFit PROVE IInv'
<1> USE DEF IInv
<1> DEFINE r == ResetToInitState(ws, central)
<1>1. /\ pc = "reset" /\ fit \in VariedFits /\ pc' = "fit" /\ np \in NPs
      /\ ws' = VaryNp(r, fit)
      /\ UNCHANGED <<settings, snapshot, np, workerId, central, errors, nll,
                     results, file, fit, launch, runs>>
  BY DEF RunVariedFit, Chosen, managerVars, history
<1>2. /\ settings.poi \in POIs /\ settings.poi_init_val \in Int /\ ws \in Workspaces
      /\ snapshot \in [Globs \cup NPs -> Var]
      /\ \A p \in Globs \cup NPs : snapshot[p] = Initial(p)
      /\ Globs \cup NPs \subseteq Params \ POIs /\ POIs \subseteq Params
  BY <1>1, RequestFields, WorkspaceAssumption DEF TypeOK, Params, Prepared
<1>3. /\ fit \notin {"free_fit", "fixed_np_fit"}
      /\ central \in Estimates
      /\ central.val \in Int /\ central.err \in Int
      /\ Variation(fit) = Study!Shift(fit, central) /\ Variation(fit) \in Int
  <2>1. /\ fit \notin {"free_fit", "fixed_np_fit"}
        /\ central \in Estimates
    BY <1>1 DEF TypeOK, Central, VariedFits
  <2>2. central.val \in Int /\ central.err \in Int
    BY <2>1, WorkspaceAssumption DEF Estimates
  <2>3. fit \in {"prefit_+", "prefit_-", "postfit_+", "postfit_-"}
    BY <1>1 DEF VariedFits, Fits
  <2>4. Variation(fit) = Study!Shift(fit, central) /\ Variation(fit) \in Int
    BY <2>2, <2>3 DEF Variation, Study!Shift
  <2>5. QED BY <2>1, <2>2, <2>4
<1>4. /\ r \in Workspaces
      /\ \A p \in POIs :
           /\ r[p].val = Clip(settings.poi_init_val)
           /\ r[p].err = 0
           /\ p \in PoisToFit => r[p].const = FALSE
           /\ p \notin PoisToFit => r[p].const = TRUE
      /\ r[np] = [val |-> central.val, err |-> central.err, const |-> TRUE]
      /\ \A p \in (Globs \cup NPs) \ {np} : r[p] = snapshot[p]
  BY <1>1, <1>2, <1>3, ResetToInitStatePoint
<1> HIDE DEF r
<1>5. /\ ws' \in Workspaces
      /\ \A p \in Params :
           /\ ws'[p].val = IF p \in {np} THEN Clip(central.val + Variation(fit))
                                         ELSE r[p].val
           /\ ws'[p].err = r[p].err
           /\ ws'[p].const = r[p].const
  <2>1. central.val + Variation(fit) \in Int
    BY <1>3
  <2>2. ws' = SetVarVal(r, {np}, central.val + Variation(fit))
    BY <1>1 DEF VaryNp
  <2>3. QED BY <1>4, <2>1, <2>2, SetVarValPoint
<1>6. ASSUME NEW p \in Params \ {np} PROVE ws'[p] = r[p]
  <2>1. ws'[p].val = r[p].val /\ ws'[p].err = r[p].err
    BY <1>5
  <2>2. ws'[p].const = r[p].const
    BY <1>5
  <2>3. QED BY <1>4, <1>5, <2>1, <2>2, WorkspaceField, VarExtensionality
<1>7. ws'[np] = [val |-> Clip(central.val + Study!Shift(fit, central)),
                 err |-> central.err, const |-> TRUE]
  <2>1. np \in Params
    BY <1>1, <1>2
  <2>2. /\ ws'[np].val = Clip(central.val + Study!Shift(fit, central))
        /\ ws'[np].err = central.err
        /\ ws'[np].const = TRUE
    BY <1>3, <1>4, <1>5, <2>1
  <2>3. ws'[np] \in Var
    BY <1>5, <2>1, WorkspaceField
  <2>4. QED BY <2>2, <2>3 DEF Var
<1>8. TypeOK'
  BY <1>1, <1>5 DEF TypeOK
<1>9. Over' = Over
  BY <1>1 DEF Over
<1>10. Chosen' /\ Prepared'
  BY <1>1, <1>3 DEF Chosen, Prepared, Initial
<1>11. Started'
  <2>1. \A p \in POIs : ws'[p] = r[p]
    BY <1>1, <1>2, <1>6
  <2>2. \A p \in (Globs \cup NPs) \ {np} : ws'[p] = Initial(p)
    BY <1>2, <1>4, <1>6
  <2>3. Initial(np)' = Initial(np) /\ PoisToFit' = PoisToFit
    BY <1>1 DEF Initial, PoisToFit
  <2>4. \A p \in (Globs \cup NPs) \ {np} : Initial(p)' = Initial(p)
    BY <1>1 DEF Initial
  <2>5. Study!Shift(fit, central)' = Study!Shift(fit, central)
    BY <1>1 DEF Study!Shift
  <2>6. QED BY <1>1, <1>3, <1>4, <1>7, <2>1, <2>2, <2>3, <2>4, <2>5 DEF Started
<1>12. Displaced'
  BY <1>1, <1>9 DEF Displaced, Variation
<1>13. Ran' /\ Central' /\ Manager' /\ Published'
  BY <1>1, <1>3, <1>9 DEF Ran, Central, Manager, Published
<1>14. QED BY <1>8, <1>10, <1>11, <1>12, <1>13

\* The six fits run in the order of Before.
LEMMA Order ==
  ASSUME fit \in Fits
  PROVE  /\ fit \notin Study!Before(fit)
         /\ Study!Before(fit) \subseteq Fits
         /\ Following(fit)[2] \in Fits \ {"free_fit"}
         /\ Following(fit)[1] \in {"reset", "set_errors", "write"}
         /\ Following(fit)[1] = "write" <=> fit = "postfit_-"
         /\ Following(fit)[1] = "write" => Following(fit)[2] = "postfit_-"
         /\ Following(fit)[1] = "set_errors" <=> fit = "fixed_np_fit"
         /\ Following(fit)[2] = "prefit_+" <=> fit = "fixed_np_fit"
         /\ Following(fit)[2] = "fixed_np_fit" <=> fit = "free_fit"
         /\ fit # "postfit_-" =>
              Study!Before(Following(fit)[2]) = Study!Before(fit) \cup {fit}
         /\ Fits = Study!Before("postfit_-") \cup {"postfit_-"}
<1>1. CASE fit = "free_fit"
  BY <1>1 DEF Fits, Following, Study!Before, Study!Fits
<1>2. CASE fit = "fixed_np_fit"
  BY <1>2 DEF Fits, Following, Study!Before, Study!Fits
<1>3. CASE fit = "prefit_+"
  BY <1>3 DEF Fits, Following, Study!Before, Study!Fits
<1>4. CASE fit = "prefit_-"
  BY <1>4 DEF Fits, Following, Study!Before, Study!Fits
<1>5. CASE fit = "postfit_+"
  BY <1>5 DEF Fits, Following, Study!Before, Study!Fits
<1>6. CASE fit = "postfit_-"
  BY <1>6 DEF Fits, Following, Study!Before, Study!Fits
<1>7. QED BY <1>1, <1>2, <1>3, <1>4, <1>5, <1>6 DEF Fits

\* A fit leaves an estimate in each parameter of the ModelConfig lists.
LEMMA RunFitIInv == ASSUME IInv, RunFit PROVE IInv'
<1> USE DEF IInv
<1> DEFINE poi == [val |-> ws'[settings.poi].val, err |-> ws'[settings.poi].err]
           found == [val |-> ws'[np].val, err |-> ws'[np].err]
           run == [start |-> [p \in Governed |-> ws[p]], errors |-> errors,
                   nll |-> nll', poi |-> poi, np |-> found]
<1>1. /\ pc = "fit" /\ np \in NPs /\ fit \in Fits
      /\ nll' = IF ~ settings.reuse_nll \/ nll = "null" THEN fit ELSE nll
      /\ ws' \in Minimised(ws)
      /\ results' = [results EXCEPT ![fit] = poi]
      /\ pc' = Following(fit)[1] /\ fit' = Following(fit)[2]
      /\ UNCHANGED <<settings, snapshot, np, workerId, central, errors, file, launch>>
  BY DEF RunFit, Chosen, TypeOK
<1>2. /\ settings.poi \in POIs /\ settings.poi \in Params /\ np \in Params
      /\ ws \in Workspaces /\ Governed \subseteq Params /\ np \in Governed
      /\ results \in [Fits -> Estimates \cup {NotRun}]
      /\ runs \in [Fits -> Run \cup {NotRun}]
  BY <1>1, RequestFields DEF TypeOK, Params, Governed
<1>3. ws' \in Workspaces
  BY <1>1, <1>2, MinimisedPoint
<1>4. poi \in Estimates /\ found \in Estimates
  BY <1>2, <1>3, WorkspaceField DEF Estimates
<1>5. results'[fit] = poi /\ \A k \in Fits \ {fit} : results'[k] = results[k]
  BY <1>1, <1>2
<1>6. runs' = [runs EXCEPT ![fit] = run]
  BY <1>1, <1>5 DEF RunFit
<1>7. nll' \in Fits
  BY <1>1 DEF TypeOK, Fits
<1>8. run \in Run
  <2>1. [p \in Governed |-> ws[p]] \in [Governed -> Var]
    BY <1>2, WorkspaceField
  <2>2. errors \in ErrorModes
    BY DEF TypeOK
  <2>3. QED BY <1>4, <1>7, <2>1, <2>2 DEF Run
<1>9. /\ run.start = [p \in Governed |-> ws[p]] /\ run.poi = poi /\ run.np = found
  OBVIOUS
<1> HIDE DEF poi, run, found
<1>10. /\ runs'[fit] = run /\ \A k \in Fits \ {fit} : runs'[k] = runs[k]
       /\ run # NotRun
  BY <1>1, <1>2, <1>6, <1>8, RankingAssumption
<1>11. TypeOK'
  <2>1. results' \in [Fits -> Estimates \cup {NotRun}]
    BY <1>1, <1>2, <1>4
  <2>2. runs' \in [Fits -> Run \cup {NotRun}]
    BY <1>2, <1>6, <1>8
  <2>3. pc' \in {"reset", "set_errors", "write"} /\ fit' \in Fits
    BY <1>1, Order
  <2>4. QED BY <1>1, <1>3, <1>7, <2>1, <2>2, <2>3 DEF TypeOK
<1>12. Over = Study!Before(fit) /\ Over' = Over \cup {fit}
  BY <1>1, Order DEF Over
<1>13. Chosen' /\ Prepared'
  <2>1. pc' \in {"reset", "set_errors", "write"} /\ fit' # "free_fit"
    BY <1>1, Order
  <2>2. \A p \in Globs \cup NPs : Initial(p)' = Initial(p)
    BY <1>1 DEF Initial
  <2>3. QED BY <1>1, <2>1, <2>2 DEF Chosen, Prepared
<1>14. Ran'
  <2>1. \A k \in Fits : runs'[k] # NotRun <=> k \in Over'
    BY <1>10, <1>12 DEF Ran
  <2>2. \A k \in Over' : results'[k] = runs'[k].poi
    <3>1. \A k \in Over : k \in Fits \ {fit}
      BY <1>1, <1>12, Order
    <3>2. QED BY <1>5, <1>9, <1>10, <1>12, <3>1 DEF Ran
  <2>3. QED BY <1>1, <2>1, <2>2, Order DEF Ran
<1>15. Central'
  <2>1. fit' = "fixed_np_fit" <=> fit = "free_fit"
    BY <1>1, Order
  <2>2. fit' # "free_fit" /\ (pc' = "reset" \/ fit' # "fixed_np_fit")
    BY <1>1, Order
  <2>3. central' = NoCentral <=> fit = "free_fit"
    BY <1>1 DEF Central
  <2>4. CASE fit = "free_fit"
    BY <1>1, <1>9, <1>10, <2>1, <2>2, <2>3, <2>4 DEF Central, found
  <2>5. CASE fit # "free_fit"
    BY <2>1, <2>2, <2>3, <2>5 DEF Central
  <2>6. QED BY <2>4, <2>5
<1>16. Manager'
  <2>1. fit' # "free_fit" /\ pc' # "fit"
    BY <1>1, Order
  <2>2. settings.reuse_nll => nll' = "free_fit"
    BY <1>1 DEF Manager, Fits
  <2>3. pc' = "reset" => errors' = IF fit' \in VariedFits THEN "DEFAULT" ELSE settings.errors
    <3>1. CASE fit \in VariedFits
      BY <1>1, <3>1, Order DEF Manager, VariedFits
    <3>2. CASE fit \notin VariedFits
      BY <1>1, <3>2, Order DEF Manager, VariedFits
    <3>3. QED BY <3>1, <3>2
  <2>4. QED BY <1>1, <1>7, <2>1, <2>2, <2>3 DEF Manager
<1>17. Started' /\ Published'
  BY <1>1, Order DEF Started, Published
<1>18. Displaced'
  <2>1. \A k \in Fits : Variation(k)' = Variation(k)
    BY <1>1 DEF Variation
  <2>2. ASSUME NEW k \in Over \cap VariedFits
        PROVE  /\ runs'[k].start[np].const = TRUE
               /\ runs'[k].start[np].val = Clip(central.val + Variation(k))
    BY <1>10, <1>12, Order, <1>1 DEF Displaced, VariedFits
  <2>3. ASSUME fit \in VariedFits
        PROVE  /\ runs'[fit].start[np].const = TRUE
               /\ runs'[fit].start[np].val = Clip(central.val + Variation(fit))
    <3>1. fit \in {"prefit_+", "prefit_-", "postfit_+", "postfit_-"}
      BY <2>3 DEF VariedFits, Fits
    <3>2. Variation(fit) = Study!Shift(fit, central)
      BY <3>1 DEF Variation, Study!Shift
    <3>3. ws[np] = [val |-> Clip(central.val + Variation(fit)),
                    err |-> central.err, const |-> TRUE]
      BY <1>1, <3>1, <3>2 DEF Started
    <3>4. runs'[fit].start[np] = ws[np]
      BY <1>2, <1>9, <1>10
    <3>5. QED BY <3>3, <3>4
  <2>4. VariedFits \subseteq Fits /\ Over' \cap VariedFits \subseteq (Over \cap VariedFits) \cup {fit}
    BY <1>12 DEF VariedFits
  <2>5. QED BY <1>1, <2>1, <2>2, <2>3, <2>4 DEF Displaced
<1>19. QED BY <1>11, <1>13, <1>14, <1>15, <1>16, <1>17, <1>18

\* What is published is what the fits found.
LEMMA WriteResultIInv == ASSUME IInv, WriteResult PROVE IInv'
<1> USE DEF IInv
<1>1. /\ pc = "write" /\ pc' = "done" /\ np \in NPs /\ fit = "postfit_-"
      /\ UNCHANGED <<settings, ws, snapshot, np, workerId, central, errors, nll,
                     results, fit, launch, runs>>
  BY DEF WriteResult, Chosen, Ran, managerVars, history
<1>2. PICK medium \in {"file", "console"} :
        file' = [medium |-> medium, worker |-> workerId, report |-> Report]
  BY DEF WriteResult
<1>3. Report \in Reports
  <2>1. \A k \in Fits : results[k] \in Estimates
    <3>1. \A k \in Fits : runs[k] # NotRun /\ results[k] = runs[k].poi
      BY <1>1 DEF Ran, Over
    <3>2. QED BY <3>1 DEF TypeOK, Run
  <2>2. central \in Estimates
    BY <1>1 DEF Central, TypeOK
  <2>3. settings.poi \in POIs
    BY RequestFields DEF TypeOK
  <2>4. QED BY <1>1, <2>1, <2>2, <2>3 DEF Report, Reports, Fits
<1>4. file' \in Files /\ file' # NoReport
  BY <1>2, <1>3, RankingAssumption DEF Files, TypeOK
<1>5. TypeOK'
  BY <1>1, <1>4 DEF TypeOK
<1>6. Over' = Over
  BY <1>1 DEF Over
<1>7. Chosen' /\ Prepared'
  BY <1>1 DEF Chosen, Prepared, Initial
<1>8. Displaced'
  BY <1>1, <1>6 DEF Displaced, Variation
<1>9. Published'
  <2>1. Report' = Report
    BY <1>1 DEF Report
  <2>2. file'.report = Report
    BY <1>2
  <2>3. QED BY <1>1, <1>4, <2>1, <2>2 DEF Published
<1>10. Ran' /\ Central' /\ Manager' /\ Started'
  BY <1>1, <1>6 DEF Ran, Central, Manager, Started
<1>11. QED BY <1>5, <1>7, <1>8, <1>9, <1>10

\* Every step of a worker keeps the invariant.
LEMMA NextIInv == IInv /\ [Next]_vars => IInv'
<1> SUFFICES ASSUME IInv, [Next]_vars PROVE IInv'
  OBVIOUS
<1>1. CASE SelectNpByWorkerId
  BY <1>1, SelectIInv
<1>2. CASE SelectNpByName
  BY <1>2, SelectIInv
<1>3. CASE SaveInitState
  BY <1>3, SaveInitStateIInv
<1>4. CASE BuildManager
  BY <1>4, BuildManagerIInv
<1>5. CASE RunFreeFit
  BY <1>5, RunFreeFitIInv
<1>6. CASE RunFitFixingNpAtCentralValue
  BY <1>6, RunFitFixingNpIInv
<1>7. CASE KeepCentralValuesOnly
  BY <1>7, KeepCentralValuesOnlyIInv
<1>8. CASE RunVariedFit
  BY <1>8, RunVariedFitIInv
<1>9. CASE RunFit
  BY <1>9, RunFitIInv
<1>10. CASE WriteResult
  BY <1>10, WriteResultIInv
<1>11. CASE UNCHANGED vars
  <2>1. UNCHANGED <<settings, ws, snapshot, np, workerId, central, errors, nll,
                    results, file, pc, fit, launch, runs>>
    BY <1>11 DEF vars, managerVars, history
  <2>2. Over' = Over
    BY <2>1 DEF Over
  <2>3. Displaced'
    BY <2>1, <2>2 DEF IInv, Displaced, Variation
  <2>4. TypeOK' /\ Chosen' /\ Prepared'
    BY <2>1 DEF IInv, TypeOK, Chosen, Prepared, Initial
  <2>5. Ran' /\ Central' /\ Manager'
    BY <2>1, <2>2 DEF IInv, Ran, Central, Manager
  <2>6. Published'
    BY <2>1 DEF IInv, Published, Report
  <2>7. Started'
    <3>1. \A p \in Globs \cup NPs : Initial(p)' = Initial(p)
      BY <2>1 DEF Initial
    <3>2. /\ PoisToFit' = PoisToFit
          /\ Study!Shift(fit, central)' = Study!Shift(fit, central)
      BY <2>1 DEF PoisToFit, Study!Shift
    <3>3. pc = "fit" => np \in Globs \cup NPs
      BY DEF IInv, Chosen
    <3>4. QED BY <2>1, <3>1, <3>2, <3>3 DEF IInv, Started
  <2>8. QED BY <2>3, <2>4, <2>5, <2>6, <2>7 DEF IInv
<1>12. QED BY <1>1, <1>2, <1>3, <1>4, <1>5, <1>6, <1>7, <1>8, <1>9, <1>10, <1>11
           DEF Next

\* The invariant holds in every state a worker reaches.
THEOREM Invariance == Spec => []IInv
BY InitIInv, NextIInv, PTL DEF Spec

\* Every variable keeps its type, in every state of every worker.
THEOREM TypeCorrect == Spec => []TypeOK
<1>1. IInv => TypeOK
  BY DEF IInv
<1>2. QED BY <1>1, Invariance, PTL

-----------------------------------------------------------------------------
(***************************************************************************)
(* The first NP of the lists.                                              *)
(***************************************************************************)
FirstIsNotGamma == PairedNps # <<>> /\ PairedNps[1] \notin Gamma

\* Of the README's two ways to choose an NP, the second is "By specifying
\* name of the nuisance parameters to be ranked: --np_name NP_NAME"
\* (README.md:67-68).  A worker that is given the name of the first NP gives
\* up and never publishes, whatever list it looks in.
FirstNpGivesUp ==
  FirstIsNotGamma /\ settings.np_name = PairedNps[1] =>
    pc \in {"select", "aborted"} /\ file = NoReport

\* The first NP of the one list is that of the other, and the search by name,
\* which reports "found" only if it moved on, finds it in neither.
LEMMA FirstIsNotFound ==
  ASSUME FirstIsNotGamma, NEW noGamma \in BOOLEAN
  PROVE  ByName(noGamma, PairedNps[1]) = {}
<1>1. /\ PairedNps \in Seq(NPs) /\ Len(PairedNps) \in Nat
      /\ \A i, j \in 1 .. Len(PairedNps) : PairedNps[i] = PairedNps[j] => i = j
  BY RankingAssumption
<1>2. \A j \in 2 .. Len(NonGammaNps) :
        \E i \in 2 .. Len(PairedNps) : NonGammaNps[j] = PairedNps[i]
  BY <1>1, NonGammaIsFilter, FilterKeepsFirst DEF FirstIsNotGamma, NonGammaNps
<1>3. \A i \in 2 .. Len(PairedNps) : PairedNps[i] # PairedNps[1]
  BY <1>1
<1>4. NpList(noGamma) = NonGammaNps \/ NpList(noGamma) = PairedNps
  BY DEF NpList
<1>5. {j \in 2 .. Len(NpList(noGamma)) : NpList(noGamma)[j] = PairedNps[1]} = {}
  BY <1>2, <1>3, <1>4
<1> QED
  BY <1>5 DEF ByName

\* It holds as long as the worker runs.
THEOREM FirstNpGivenUp == Spec => []FirstNpGivesUp
<1>1. Init => FirstNpGivesUp
  BY DEF Init, FirstNpGivesUp
<1>2. IInv /\ FirstNpGivesUp /\ [Next]_vars => FirstNpGivesUp'
  <2> SUFFICES ASSUME IInv, FirstNpGivesUp, [Next]_vars,
                      FirstIsNotGamma, settings'.np_name = PairedNps[1]
               PROVE  pc' \in {"select", "aborted"} /\ file' = NoReport
    BY DEF FirstNpGivesUp
  <2>1. settings' = settings
    BY DEF Next, vars, managerVars, history, SelectNpByWorkerId, SelectNpByName,
           SaveInitState, BuildManager, RunFreeFit, RunFitFixingNpAtCentralValue,
           KeepCentralValuesOnly, RunVariedFit, RunFit, WriteResult
  <2>2. pc \in {"select", "aborted"} /\ file = NoReport
    BY <2>1 DEF FirstNpGivesUp
  <2>3. settings.np_name # NoName
    <3>1. PairedNps \in Seq(NPs) /\ NoName \notin NPs
      BY RankingAssumption
    <3>2. PairedNps[1] \in NPs
      BY <3>1 DEF FirstIsNotGamma
    <3> QED
      BY <2>1, <3>1, <3>2
  <2>4. CASE SelectNpByName
    <3>1. PICK noGamma \in BOOLEAN :
            \/ \E c \in ByName(noGamma, settings.np_name) : Selected(c)
            \/ NotSelected(ByName(noGamma, settings.np_name))
      BY <2>4 DEF SelectNpByName
    <3>2. ByName(noGamma, settings.np_name) = {}
      BY <2>1, FirstIsNotFound
    <3> QED
      BY <2>2, <2>4, <3>1, <3>2 DEF SelectNpByName, NotSelected
  <2>5. CASE UNCHANGED vars
    BY <2>2, <2>5 DEF vars
  <2> QED
    BY <2>2, <2>3, <2>4, <2>5
    DEF Next, SelectNpByWorkerId, SaveInitState, BuildManager, RunFreeFit,
        RunFitFixingNpAtCentralValue, KeepCentralValuesOnly, RunVariedFit, RunFit,
        WriteResult
<1> QED
  BY <1>1, <1>2, Invariance, PTL DEF Spec

-----------------------------------------------------------------------------
(***************************************************************************)
(* The properties of the fits.                                             *)
(***************************************************************************)

\* The two modules limit a value in the same way.
LEMMA StudyClip == \A v : Study!Clip(v) = Clip(v)
BY DEF Study!Clip, Clip

\* The invariant's parts put together: the starting point of the study.
LEMMA StartPointOfFit ==
  ASSUME IInv, pc = "fit"
  PROVE  [p \in Governed |-> ws[p]] = Study!StartPoint(fit)
<1>1. /\ ws \in Workspaces /\ Governed \subseteq Params /\ np \in NPs
      /\ launch \in Workspaces /\ Study!Governed = Governed
  BY DEF IInv, TypeOK, Governed, Params, Chosen, Study!Governed
<1>2. /\ JobOfWorker.np = np /\ JobOfWorker.poi = settings.poi
      /\ JobOfWorker.poiInit = settings.poi_init_val
      /\ JobOfWorker.fitAll = settings.fit_all_pois
      /\ JobOfWorker.zeroGlobs = (settings.prePostFit # "POSTFIT")
      /\ Study!Fitted = PoisToFit
  BY <1>1, RankingAssumption DEF JobOfWorker, Study!Fitted, PoisToFit
<1>3. ASSUME NEW p \in Governed
      PROVE  ws[p] = Study!StartPoint(fit)[p]
  <2>1. CASE p \in POIs
    <3>1. /\ ws[p].val = Clip(settings.poi_init_val) /\ ws[p].err = 0
          /\ p \in PoisToFit => ws[p].const = FALSE
          /\ p \notin PoisToFit => ws[p].const = TRUE
          /\ ws[p] \in Var
      BY <1>1, <2>1, WorkspaceField DEF IInv, Started
    <3>2. CASE p \in PoisToFit
      <4>1. Study!StartPoint(fit)[p] =
              [val |-> Clip(settings.poi_init_val), err |-> 0, const |-> FALSE]
        BY <1>1, <1>2, <2>1, <3>2, StudyClip, WorkspaceAssumption
           DEF Study!StartPoint
      <4>2. ws[p] = [val |-> Clip(settings.poi_init_val), err |-> 0, const |-> FALSE]
        BY <3>1, <3>2 DEF Var
      <4>3. QED BY <4>1, <4>2
    <3>3. CASE p \notin PoisToFit
      <4>1. Study!StartPoint(fit)[p] =
              [val |-> Clip(settings.poi_init_val), err |-> 0, const |-> TRUE]
        BY <1>1, <1>2, <2>1, <3>3, StudyClip, WorkspaceAssumption
           DEF Study!StartPoint
      <4>2. ws[p] = [val |-> Clip(settings.poi_init_val), err |-> 0, const |-> TRUE]
        BY <3>1, <3>3 DEF Var
      <4>3. QED BY <4>1, <4>2
    <3>4. QED BY <3>2, <3>3
  <2>2. CASE p = np /\ fit # "free_fit"
    <3>1. Study!StartPoint(fit)[p] =
            [val |-> Clip(central.val + Study!Shift(fit, central)),
             err |-> central.err, const |-> TRUE]
      BY <1>1, <1>2, <2>2, StudyClip, WorkspaceAssumption DEF Study!StartPoint
    <3>2. QED BY <2>2, <3>1 DEF IInv, Started
  <2>3. CASE p \in Globs \cup NPs /\ (p # np \/ fit = "free_fit")
    <3>1. Study!StartPoint(fit)[p] = Initial(p)
      BY <1>1, <1>2, <2>3, StudyClip, WorkspaceAssumption
         DEF Study!StartPoint, Initial
    <3>2. QED BY <2>3, <3>1 DEF IInv, Started
  <2>4. QED BY <2>1, <2>2, <2>3 DEF Governed
<1>4. QED BY <1>1, <1>3 DEF Study!StartPoint

\* No fit starts from what an earlier fit left behind.
THEOREM StartsRight == Spec => []StartsAtStudyPoint
<1>1. IInv => StartsAtStudyPoint
  BY StartPointOfFit DEF StartsAtStudyPoint
<1>2. QED BY <1>1, Invariance, PTL

\* Each published impact was measured at the displacement it is published
\* for, around the central value published with it.
THEOREM ImpactsRight == Spec => []ImpactsBelongToTheirDisplacement
<1>1. ASSUME IInv PROVE ImpactsBelongToTheirDisplacement
  <2>1. SUFFICES ASSUME file # NoReport PROVE ImpactsBelongToTheirDisplacement
    BY DEF ImpactsBelongToTheirDisplacement
  <2>2. pc = "done" /\ file.report = Report
    BY <1>1, <2>1 DEF IInv, Published
  <2>3. ASSUME NEW k \in VariedFits
        PROVE  /\ runs[k].start[np].const
               /\ runs[k].start[np].val = Clip(central.val + Variation(k))
               /\ runs[k].poi = results[k]
    BY <1>1, <2>2, <2>3 DEF IInv, Displaced, Ran, Over, VariedFits
  <2>4. /\ "prefit_+" \in VariedFits /\ Variation("prefit_+") = 1
        /\ "prefit_-" \in VariedFits /\ Variation("prefit_-") = -1
        /\ "postfit_+" \in VariedFits /\ Variation("postfit_+") = central.err
        /\ "postfit_-" \in VariedFits /\ Variation("postfit_-") = -central.err
    BY DEF VariedFits, Fits, Variation
  <2>5. /\ Report.np = np /\ Report.central = central
        /\ Report.poi_plus_one_variation = results["prefit_+"]
        /\ Report.poi_minus_one_variation = results["prefit_-"]
        /\ Report.poi_plus_sigma_variation = results["postfit_+"]
        /\ Report.poi_minus_sigma_variation = results["postfit_-"]
    BY DEF Report
  <2>6. /\ file.report.np = np /\ file.report.central = central
        /\ file.report.poi_plus_one_variation = results["prefit_+"]
        /\ file.report.poi_minus_one_variation = results["prefit_-"]
        /\ file.report.poi_plus_sigma_variation = results["postfit_+"]
        /\ file.report.poi_minus_sigma_variation = results["postfit_-"]
    BY <2>2, <2>5
  <2>7. \E k \in VariedFits :
          /\ runs[k].start[file.report.np].const
          /\ runs[k].start[file.report.np].val = Clip(file.report.central.val + 1)
          /\ runs[k].poi = file.report.poi_plus_one_variation
    <3> "prefit_+" \in VariedFits
      BY <2>4
    <3>1. WITNESS "prefit_+" \in VariedFits
    <3>2. QED BY <2>3, <2>4, <2>6
  <2>8. \E k \in VariedFits :
          /\ runs[k].start[file.report.np].const
          /\ runs[k].start[file.report.np].val = Clip(file.report.central.val + (-1))
          /\ runs[k].poi = file.report.poi_minus_one_variation
    <3> "prefit_-" \in VariedFits
      BY <2>4
    <3>1. WITNESS "prefit_-" \in VariedFits
    <3>2. QED BY <2>3, <2>4, <2>6
  <2>9. \E k \in VariedFits :
          /\ runs[k].start[file.report.np].const
          /\ runs[k].start[file.report.np].val
               = Clip(file.report.central.val + file.report.central.err)
          /\ runs[k].poi = file.report.poi_plus_sigma_variation
    <3> "postfit_+" \in VariedFits
      BY <2>4
    <3>1. WITNESS "postfit_+" \in VariedFits
    <3>2. QED BY <2>3, <2>4, <2>6
  <2>10. \E k \in VariedFits :
          /\ runs[k].start[file.report.np].const
          /\ runs[k].start[file.report.np].val
               = Clip(file.report.central.val + (-file.report.central.err))
          /\ runs[k].poi = file.report.poi_minus_sigma_variation
    <3> "postfit_-" \in VariedFits
      BY <2>4
    <3>1. WITNESS "postfit_-" \in VariedFits
    <3>2. QED BY <2>3, <2>4, <2>6
  <2>11. QED BY <2>7, <2>8, <2>9, <2>10 DEF ImpactsBelongToTheirDisplacement
<1>2. QED BY <1>1, Invariance, PTL

-----------------------------------------------------------------------------
(***************************************************************************)
(* The worker implements the study.                                        *)
(***************************************************************************)

\* The job of a worker that has an NP.
LEMMA JobFields ==
  ASSUME np \in NPs, settings \in Requests
  PROVE  /\ JobOfWorker \in Study!Jobs /\ JobOfWorker # NoNp
         /\ JobOfWorker.np = np /\ JobOfWorker.poi = settings.poi
         /\ JobOfWorker.errors = settings.errors
         /\ JobOfWorker.reuse = settings.reuse_nll
<1>1. /\ JobOfWorker.np = np /\ JobOfWorker.poi = settings.poi
      /\ JobOfWorker.errors = settings.errors
      /\ JobOfWorker.reuse = settings.reuse_nll
  BY RankingAssumption DEF JobOfWorker
<1>2. JobOfWorker \in Study!Jobs
  <2>1. settings \in Settings
    BY RankingAssumption
  <2>2. /\ settings.poi \in POIs /\ settings.poi_init_val \in Int
        /\ settings.errors \in ErrorModes
    BY <2>1 DEF Settings
  <2>3. settings.fit_all_pois \in BOOLEAN /\ settings.reuse_nll \in BOOLEAN
    BY <2>1 DEF Settings
  <2>4. (settings.prePostFit # "POSTFIT") \in BOOLEAN
    OBVIOUS
  <2>5. QED BY <2>2, <2>3, <2>4, RankingAssumption DEF JobOfWorker, Study!Jobs
<1>3. JobOfWorker # NoNp
  BY <1>2, StudyAssumption
<1>4. QED BY <1>1, <1>2, <1>3

LEMMA JobInJobs ==
  np \in NPs /\ settings \in Requests => JobOfWorker \in Study!Jobs
BY JobFields

\* A fit of the worker is a fit of the study.
LEMMA RunFitPerforms == ASSUME IInv, RunFit PROVE Study!Perform(fit)
<1> DEFINE poi == [val |-> ws'[settings.poi].val, err |-> ws'[settings.poi].err]
           found == [val |-> ws'[np].val, err |-> ws'[np].err]
           start == [p \in Governed |-> ws[p]]
<1>1. /\ pc = "fit" /\ np \in NPs /\ fit \in Fits
      /\ settings \in Requests /\ ws \in Workspaces
      /\ ws' \in Minimised(ws)
      /\ nll' = IF ~ settings.reuse_nll \/ nll = "null" THEN fit ELSE nll
      /\ UNCHANGED <<settings, np, central, file, launch>>
  BY DEF RunFit, IInv, Chosen, TypeOK
<1>2. /\ JobOfWorker # NoNp /\ JobOfWorker' = JobOfWorker
      /\ JobOfWorker.np = np /\ JobOfWorker.poi = settings.poi
      /\ JobOfWorker.errors = settings.errors
      /\ JobOfWorker.reuse = settings.reuse_nll
  BY <1>1, JobFields DEF JobOfWorker
<1>3. start = Study!StartPoint(fit)
  BY <1>1, StartPointOfFit
<1>4. errors = Study!ErrorsOf(fit)
  BY <1>1, <1>2 DEF IInv, Manager, Study!ErrorsOf, VariedFits
<1>5. nll' = Study!NllOf(fit)
  BY <1>1, <1>2 DEF IInv, Manager, Study!NllOf, Fits
<1>6. ASSUME NEW p \in POIs \cup NPs
      PROVE  [val |-> ws'[p].val, err |-> ws'[p].err] \in Study!FoundFor(fit, p)
  <2>1. /\ p \in Params \ Globs /\ p \in Governed
        /\ start[p] = ws[p] /\ ws[p].const \in BOOLEAN
    BY <1>1, WorkspaceAssumption, WorkspaceField DEF Params, Governed
  <2>2. CASE ws[p].const = TRUE
    <3>0. p \in Params \ Floating(ws)
      BY <2>1, <2>2 DEF Floating
    <3>1. ws'[p] = ws[p]
      BY <1>1, <3>0, MinimisedPoint
    <3>2. Study!StartPoint(fit)[p] = ws[p]
      BY <1>3, <2>1
    <3>3. Study!FoundFor(fit, p) = {[val |-> ws[p].val, err |-> ws[p].err]}
      BY <2>2, <3>2, Zenon DEF Study!FoundFor
    <3>4. QED BY <3>1, <3>3
  <2>3. CASE ws[p].const = FALSE
    <3>1. [val |-> ws'[p].val, err |-> ws'[p].err] \in Outcomes
      BY <1>1, <2>1, <2>3, MinimisedPoint DEF Floating
    <3>2. QED BY <1>3, <2>1, <2>3, <3>1 DEF Study!FoundFor
  <2>4. QED BY <2>1, <2>2, <2>3
<1>7. poi \in Study!FoundFor(fit, JobOfWorker.poi) /\ found \in Study!FoundFor(fit, JobOfWorker.np)
  BY <1>1, <1>2, <1>6, RequestFields
<1>8. runs' = [runs EXCEPT ![fit] =
                 [start |-> Study!StartPoint(fit), errors |-> Study!ErrorsOf(fit),
                  nll |-> Study!NllOf(fit), poi |-> poi, np |-> found]]
  <2>1. results'[fit] = poi
    BY <1>1 DEF RunFit, IInv, TypeOK
  <2>2. runs' = [runs EXCEPT ![fit] =
                   [start |-> start, errors |-> errors, nll |-> nll',
                    poi |-> results'[fit], np |-> found]]
    BY DEF RunFit
  <2>3. QED BY <1>3, <1>4, <1>5, <2>1, <2>2
<1>9. /\ runs[fit] = NotRun
      /\ \A b \in Study!Before(fit) : runs[b] # NotRun
      /\ fit # "free_fit" => central # NoCentral
  BY <1>1, Order DEF IInv, Ran, Over, Central
<1> HIDE DEF poi, found, start
<1>10. QED BY <1>1, <1>2, <1>7, <1>8, <1>9 DEF Study!Perform

\* A worker's first state is one of the study's.
LEMMA InitRefines == Init => Study!StudyInit
<1> SUFFICES ASSUME Init PROVE Study!StudyInit
  OBVIOUS
<1>1. Study!Workspaces = Workspaces
  BY DEF Study!Workspaces, Workspaces, Study!Params, Params, Study!Var, Var
<1>2. launch \in Workspaces
  BY RankingAssumption DEF Init
<1>3. JobOfWorker = NoNp
  BY DEF Init, JobOfWorker
<1>4. Study!Fits = Fits
  BY DEF Study!Fits, Fits
<1>5. QED BY <1>1, <1>2, <1>3, <1>4 DEF Init, Study!StudyInit

\* A worker's step is a step of the study or leaves the study as it is.
LEMMA NextRefines ==
  IInv /\ IInv' /\ [Next]_vars => [Study!StudyNext]_Study!studyVars
<1> SUFFICES ASSUME IInv, IInv', [Next]_vars
             PROVE  [Study!StudyNext]_Study!studyVars
  OBVIOUS
<1>1. ASSUME UNCHANGED <<launch, settings, np, central, runs, file>>
      PROVE  UNCHANGED Study!studyVars
  BY <1>1 DEF Study!studyVars, JobOfWorker
<1>2. CASE SelectNpByWorkerId \/ SelectNpByName
  <2>1. UNCHANGED <<launch, settings, central, runs, file>> /\ np = NoNp
    BY <1>2 DEF SelectNpByWorkerId, SelectNpByName, managerVars, history, IInv, Chosen
  <2>2. CASE np' = np
    BY <1>1, <2>1, <2>2
  <2>3. CASE np' # np
    <3>1. np' \in NPs /\ settings' \in Requests
      BY <2>1, <2>3 DEF IInv, TypeOK
    <3>2. JobOfWorker' \in Study!Jobs /\ JobOfWorker = NoNp
      <4>1. JobOfWorker = NoNp
        BY <2>1 DEF JobOfWorker
      <4>2. (np \in NPs /\ settings \in Requests => JobOfWorker \in Study!Jobs)'
        BY JobInJobs, PTL
      <4>3. QED BY <3>1, <4>1, <4>2
    <3>3. Study!Accept
      BY <2>1, <3>2 DEF Study!Accept
    <3>4. QED BY <3>3 DEF Study!StudyNext
  <2>4. QED BY <2>2, <2>3
<1>3. CASE \/ SaveInitState \/ BuildManager \/ RunFreeFit
           \/ KeepCentralValuesOnly \/ RunVariedFit \/ UNCHANGED vars
  <2>1. UNCHANGED <<launch, settings, np, central, runs, file>>
    BY <1>3 DEF SaveInitState, BuildManager, RunFreeFit, KeepCentralValuesOnly,
                RunVariedFit, vars, managerVars, history
  <2>2. QED BY <1>1, <2>1
<1>4. CASE RunFitFixingNpAtCentralValue
  <2>1. /\ UNCHANGED <<launch, settings, np, runs, file>>
        /\ central = NoCentral /\ central' = runs["free_fit"].np
        /\ runs["free_fit"] # NotRun
    <3>1. /\ fit = "fixed_np_fit" /\ pc = "reset"
          /\ UNCHANGED <<launch, settings, np, runs, file>>
          /\ central' = [val |-> ws[np].val, err |-> ws[np].err]
      BY <1>4 DEF RunFitFixingNpAtCentralValue, history
    <3>2. "free_fit" \in Over /\ "free_fit" \in Fits
      BY <3>1 DEF Over, Study!Before, Fits
    <3>3. QED BY <3>1, <3>2 DEF IInv, Central, Ran
  <2>2. JobOfWorker' = JobOfWorker
    BY <2>1 DEF JobOfWorker
  <2>3. Study!ReadCentral
    BY <2>1, <2>2 DEF Study!ReadCentral
  <2>4. QED BY <2>3 DEF Study!StudyNext
<1>5. CASE RunFit
  <2>1. Study!Perform(fit) /\ fit \in Study!Fits
    BY <1>5, RunFitPerforms DEF IInv, TypeOK, Fits, Study!Fits
  <2>2. QED BY <2>1 DEF Study!StudyNext
<1>6. CASE WriteResult
  <2>1. /\ UNCHANGED <<launch, settings, np, central, runs>> /\ pc = "write" /\ pc' = "done"
        /\ np \in NPs
    BY <1>6 DEF WriteResult, managerVars, history, IInv, Chosen
  <2>2. /\ file = NoReport /\ file' # NoReport /\ file'.report = Report'
    BY <2>1 DEF IInv, Published
  <2>3. \A k \in Fits : runs[k] # NotRun /\ results[k] = runs[k].poi
    BY <2>1 DEF IInv, Ran, Over
  <2>4. Report' = Study!Report
    <3>1. JobOfWorker.np = np /\ JobOfWorker.poi = settings.poi
      BY <2>1, JobFields DEF IInv, TypeOK
    <3>2. Report' = Report
      BY <1>6 DEF WriteResult, Report, managerVars
    <3>3. QED BY <2>3, <3>1, <3>2 DEF Report, Study!Report, Fits
  <2>5. Study!Publish
    <3>1. JobOfWorker' = JobOfWorker
      BY <2>1 DEF JobOfWorker
    <3>2. Study!Fits = Fits
      BY DEF Study!Fits, Fits
    <3>3. QED BY <2>1, <2>2, <2>3, <2>4, <3>1, <3>2 DEF Study!Publish
  <2>6. QED BY <2>5 DEF Study!StudyNext
<1>7. QED BY <1>2, <1>3, <1>4, <1>5, <1>6 DEF Next

\* The six fits of a worker are the six fits of the study.
THEOREM Refinement == Spec => ImplementsStudy
<1>1. QED BY InitRefines, NextRefines, Invariance, PTL
           DEF Spec, ImplementsStudy, Study!StudySpec
=============================================================================
