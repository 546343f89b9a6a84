------------------------------ MODULE Workspace ------------------------------
(***************************************************************************)
(* The RooFit workspace as the eftProfiler code sees it: a table of named  *)
(* parameters, each with a value, an error and a constant flag, reached    *)
(* through WorkspaceWrapper.  The roles of the parameters come from the    *)
(* ModelConfig and from FitUtils::GetPairConstraints: parameters of        *)
(* interest, nuisance parameters that have a constraint, the global        *)
(* observables of those constraints, and Others, the floating parameters   *)
(* of the likelihood that no constraint was found for.                     *)
(*                                                                         *)
(* Doubles are integers in units of a prefit sigma.                        *)
(***************************************************************************)
EXTENDS Integers

CONSTANTS
  POIs,     \* parameters of interest
  NPs,      \* the nuisance parameters of lists_["paired_nps"]
  Globs,    \* the global observables of lists_["paired_globs"]
  Others,   \* floating parameters that are in none of the lists
  Lo, Hi,   \* the range every RooRealVar is limited to
  Outcomes  \* what a minimisation may leave in a floating parameter

Params == POIs \cup NPs \cup Globs \cup Others

ASSUME WorkspaceAssumption ==
  /\ POIs \cap NPs = {} /\ POIs \cap Globs = {} /\ POIs \cap Others = {}
  /\ NPs \cap Globs = {} /\ NPs \cap Others = {} /\ Globs \cap Others = {}
  /\ Lo \in Int /\ Hi \in Int /\ Lo =< Hi
  /\ Outcomes \subseteq [val : Lo .. Hi, err : Nat]

Var == [val : Lo .. Hi, err : Nat, const : BOOLEAN]
Workspaces == [Params -> Var]

\* RooRealVar::setVal limits the value to the range of the variable.
Clip(v) == IF v < Lo THEN Lo ELSE IF v > Hi THEN Hi ELSE v

-----------------------------------------------------------------------------
(***************************************************************************)
(* The setters, over a set S of names.                                     *)
(***************************************************************************)

\* Mutant: the range is not enforced.
SetVarValUnlimited(w, S, v) ==
  [p \in Params |-> IF p \in S THEN [w[p] EXCEPT !.val = v] ELSE w[p]]

SetVarVal(w, S, v) ==
  [p \in Params |-> IF p \in S THEN [w[p] EXCEPT !.val = Clip(v)] ELSE w[p]]

SetVarErr(w, S, e) ==
  [p \in Params |-> IF p \in S THEN [w[p] EXCEPT !.err = e] ELSE w[p]]

SetConstant(w, S, flag) ==
  [p \in Params |-> IF p \in S THEN [val |-> w[p].val, err |-> w[p].err, const |-> flag]
                                ELSE w[p]]
FixValConst(w, S) == SetConstant(w, S, TRUE)
FloatVals(w, S) == SetConstant(w, S, FALSE)

\* RooWorkspace keeps value, error and constant flag of the saved variables,
\* and restores all three; a variable outside the snapshot is left alone.
saveSnapshot(w, S) == [p \in S |-> w[p]]

loadSnapshot(w, snap) ==
  [p \in Params |-> IF p \in DOMAIN snap THEN snap[p] ELSE w[p]]

-----------------------------------------------------------------------------
(***************************************************************************)
(* A minimisation moves the floating parameters and nothing else.  Where   *)
(* it leaves them is the business of Minuit: any of Outcomes, whether or   *)
(* not it converged.  Global observables are data, not parameters.         *)
(***************************************************************************)
Floating(w) == {p \in Params \ Globs : ~ w[p].const}

Minimised(w) ==
  {[p \in Params |-> IF p \in Floating(w)
                     THEN [val |-> o[p].val, err |-> o[p].err, const |-> FALSE]
                     ELSE w[p]] : o \in [Floating(w) -> Outcomes]}
=============================================================================
