--------------------------- MODULE WorkspaceProofs ---------------------------
(***************************************************************************)
(* What the operations of Workspace do, parameter by parameter and field   *)
(* by field.                                                               *)
(***************************************************************************)
EXTENDS Workspace, TLAPS

\* A value that was set is in the range of its variable.
LEMMA ClipInRange == ASSUME NEW v \in Int PROVE Clip(v) \in Lo .. Hi
BY WorkspaceAssumption DEF Clip

\* A value in the range is set as it is.
LEMMA ClipOfValue == ASSUME NEW v \in Lo .. Hi PROVE Clip(v) = v
BY WorkspaceAssumption DEF Clip

\* Two parameters with the same fields are the same.
LEMMA VarExtensionality ==
  ASSUME NEW r \in Var, NEW s \in Var,
         r.val = s.val, r.err = s.err, r.const = s.const
  PROVE  r = s
BY DEF Var

\* What a parameter's fields are.
LEMMA WorkspaceField ==
  ASSUME NEW w \in Workspaces, NEW p \in Params
  PROVE  /\ w[p] \in Var
         /\ w[p].val \in Lo .. Hi /\ w[p].val \in Int
         /\ w[p].err \in Nat
         /\ w[p].const \in BOOLEAN
BY WorkspaceAssumption DEF Workspaces, Var

\* setVal changes the value of the named parameters and nothing else.
LEMMA SetVarValPoint ==
  ASSUME NEW w \in Workspaces, NEW S, NEW v \in Int
  PROVE  /\ SetVarVal(w, S, v) \in Workspaces
         /\ \A p \in Params :
              /\ SetVarVal(w, S, v)[p].val = IF p \in S THEN Clip(v) ELSE w[p].val
              /\ SetVarVal(w, S, v)[p].err = w[p].err
              /\ SetVarVal(w, S, v)[p].const = w[p].const
<1>1. ASSUME NEW p \in Params
      PROVE  [w[p] EXCEPT !.val = Clip(v)]
               = [val |-> Clip(v), err |-> w[p].err, const |-> w[p].const]
  BY <1>1 DEF Workspaces, Var
<1>2. QED BY <1>1, ClipInRange DEF SetVarVal, Workspaces, Var

\* setError changes the error of the named parameters and nothing else.
LEMMA SetVarErrPoint ==
  ASSUME NEW w \in Workspaces, NEW S, NEW e \in Nat
  PROVE  /\ SetVarErr(w, S, e) \in Workspaces
         /\ \A p \in Params :
              /\ SetVarErr(w, S, e)[p].val = w[p].val
              /\ SetVarErr(w, S, e)[p].err = IF p \in S THEN e ELSE w[p].err
              /\ SetVarErr(w, S, e)[p].const = w[p].const
<1>1. ASSUME NEW p \in Params
      PROVE  [w[p] EXCEPT !.err = e]
               = [val |-> w[p].val, err |-> e, const |-> w[p].const]
  BY <1>1 DEF Workspaces, Var
<1>2. QED BY <1>1 DEF SetVarErr, Workspaces, Var

\* setConstant changes the flag of the named parameters and nothing else.
LEMMA FixValConstPoint ==
  ASSUME NEW w \in Workspaces, NEW S
  PROVE  /\ FixValConst(w, S) \in Workspaces
         /\ \A p \in Params :
              /\ FixValConst(w, S)[p].val = w[p].val
              /\ FixValConst(w, S)[p].err = w[p].err
              /\ p \in S => FixValConst(w, S)[p].const = TRUE
              /\ p \notin S => FixValConst(w, S)[p].const = w[p].const
BY DEF FixValConst, SetConstant, Workspaces, Var

LEMMA FloatValsPoint ==
  ASSUME NEW w \in Workspaces, NEW S
  PROVE  /\ FloatVals(w, S) \in Workspaces
         /\ \A p \in Params :
              /\ FloatVals(w, S)[p].val = w[p].val
              /\ FloatVals(w, S)[p].err = w[p].err
              /\ p \in S => FloatVals(w, S)[p].const = FALSE
              /\ p \notin S => FloatVals(w, S)[p].const = w[p].const
BY DEF FloatVals, SetConstant, Workspaces, Var

\* Loading a snapshot brings back what it holds and leaves the rest alone.
LEMMA LoadSnapshotPoint ==
  ASSUME NEW w \in Workspaces, NEW S \in SUBSET Params, NEW s \in [S -> Var]
  PROVE  /\ loadSnapshot(w, s) \in Workspaces
         /\ \A p \in Params : loadSnapshot(w, s)[p] = IF p \in S THEN s[p] ELSE w[p]
BY DEF loadSnapshot, Workspaces

\* A minimisation keeps the types, keeps every constant parameter and every
\* global observable, keeps the constant flags, and leaves an outcome in
\* each parameter that floats.
LEMMA MinimisedPoint ==
  ASSUME NEW w \in Workspaces, NEW w2 \in Minimised(w)
  PROVE  /\ w2 \in Workspaces
         /\ \A p \in Params \ Floating(w) : w2[p] = w[p]
         /\ \A p \in Floating(w) :
              /\ [val |-> w2[p].val, err |-> w2[p].err] \in Outcomes
              /\ w2[p].const = FALSE
<1>1. PICK o \in [Floating(w) -> Outcomes] :
        w2 = [p \in Params |-> IF p \in Floating(w)
                THEN [val |-> o[p].val, err |-> o[p].err, const |-> FALSE]
                ELSE w[p]]
  BY DEF Minimised
<1>2. ASSUME NEW p \in Floating(w)
      PROVE  /\ o[p] \in Outcomes
             /\ o[p] \in [val : Lo .. Hi, err : Nat]
             /\ o[p] = [val |-> o[p].val, err |-> o[p].err]
  BY WorkspaceAssumption
<1>3. ASSUME NEW p \in Floating(w)
      PROVE  /\ w2[p].val = o[p].val /\ w2[p].err = o[p].err
             /\ w2[p].const = FALSE
             /\ w2[p] \in Var
  <2>1. w2[p] = [val |-> o[p].val, err |-> o[p].err, const |-> FALSE]
    BY <1>1 DEF Floating
  <2>2. QED BY <2>1, <1>2 DEF Var
<1>4. ASSUME NEW p \in Params \ Floating(w)
      PROVE  w2[p] = w[p] /\ w2[p] \in Var
  BY <1>1 DEF Workspaces
<1>5. w2 \in Workspaces
  BY <1>1, <1>3, <1>4 DEF Workspaces
<1>6. ASSUME NEW p \in Floating(w)
      PROVE  [val |-> w2[p].val, err |-> w2[p].err] \in Outcomes
  <2>1. w2[p].val = o[p].val /\ w2[p].err = o[p].err
    BY <1>3
  <2>2. [val |-> w2[p].val, err |-> w2[p].err] = o[p]
    BY <2>1, <1>2, Zenon
  <2>3. QED BY <2>2, <1>2
<1>7. QED BY <1>3, <1>4, <1>5, <1>6
=============================================================================
