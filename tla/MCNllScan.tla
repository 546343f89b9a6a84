------------------------------ MODULE MCNllScan ------------------------------
(***************************************************************************)
(* Two POIs, of which mu is scanned, two nuisance parameters, the global   *)
(* observable of one of them, and a parameter in no list.                  *)
(***************************************************************************)
EXTENDS NllScan

CONSTANTS mu, eta, sys, held, globSys, free

MCLo == -4
MCHi == 4

MCOutcomes == {[val |-> 1, err |-> 1], [val |-> -1, err |-> 2]}

Real(n) == [unit |-> "real", amount |-> n]
Sigma(n) == [unit |-> "sigma", amount |-> n]

Description(val, grid, range, at) ==
  [val |-> val, grid |-> grid, range |-> range, at |-> at]

Steps == Description(<<1, 1>>, <<3>>, <<Real(-2), Real(2)>>, <<>>)
\* A number 0 beside a number of sigmas.
ZeroBeside == Description(<<1, 1>>, <<4>>, <<Real(0), Sigma(1)>>, <<>>)
\* A range that exceeds that of the POI.
Sigmas == Description(<<1, 2>>, <<5>>, <<Sigma(-3), Sigma(1)>>, <<>>)
OneEnd == Description(<<0, 1>>, <<3>>, <<Sigma(3)>>, <<>>)
AtPoint == Description(<<>>, <<>>, <<>>, <<3>>)
AtTooFar == Description(<<>>, <<2>>, <<Real(0), Real(4)>>, <<6>>)
NoError == Description(<<1>>, <<3>>, <<Real(0), Real(2)>>, <<>>)
GridType == Description(<<1, 1>>, <<3, 1>>, <<Real(0), Real(2)>>, <<>>)

MCDescriptions ==
  {Steps, ZeroBeside, Sigmas, OneEnd, AtPoint, AtTooFar, NoError, GridType}

\* Values nobody resets to, so that one that should have changed shows.  In
\* the first workspace the POIs are constant, in the second one they float.
MCLaunch(poiConst) ==
  [p \in Params |->
     CASE p = mu        -> [val |-> 3, err |-> 1, const |-> poiConst]
       [] p = eta       -> [val |-> 2, err |-> 1, const |-> poiConst]
       [] p = held      -> [val |-> -3, err |-> 0, const |-> TRUE]
       [] p \in Globs   -> [val |-> 2, err |-> 1, const |-> TRUE]
       [] OTHER         -> [val |-> 3, err |-> 1, const |-> FALSE]]

MCLaunches == {MCLaunch(TRUE), MCLaunch(FALSE)}

\* A snapshot that floats one POI and moves an NP.
MCSnapshots ==
  [s \in {"nominal"} |->
     [p \in {eta, sys} |-> [val |-> -2, err |-> 1, const |-> p = sys]]]

MCAsimovGlobs == {[g \in Globs |-> 3], [g \in Globs |-> -1]}

\* No --pois_float.
NoPois == {"absent"}

Request(d, worker, one, all, pois, stat, study) ==
  [poi |-> mu, description |-> d, worker_id |-> worker, one_at_time |-> one,
   fit_all_pois |-> all, user_defined |-> pois # NoPois,
   pois_float |-> IF pois = NoPois THEN {} ELSE pois, stat_only |-> stat,
   prePostFit |-> study, force_data |-> FALSE, snapshot |-> ""]

\* Every way to choose what floats, with and without NPs, on every dataset.
Studies ==
  {Request(Steps, 2, one, all, pois, stat, study) :
     one \in BOOLEAN, all \in BOOLEAN, pois \in {NoPois, {}, {mu, eta}},
     stat \in BOOLEAN, study \in StudyTypes}

\* Points of the grid, of a given value, past the grid and past the range;
\* descriptions that cannot be read; a snapshot, one that does not exist,
\* and a dataset by name.
MCRequests ==
  Studies
  \cup {Request(d, w, TRUE, FALSE, NoPois, FALSE, "OBSERVED") :
          d \in MCDescriptions, w \in {0, 1, 2, 3, 5, NotGiven}}
  \cup {[Request(AtPoint, 0, one, FALSE, NoPois, stat, study)
           EXCEPT !.snapshot = name] :
          one \in BOOLEAN, stat \in BOOLEAN, study \in {"OBSERVED", "POSTFIT"},
          name \in {"nominal", "misspelt"}}
  \cup {[Request(AtPoint, 0, TRUE, FALSE, NoPois, FALSE, "OBSERVED")
           EXCEPT !.force_data = TRUE]}
=============================================================================
