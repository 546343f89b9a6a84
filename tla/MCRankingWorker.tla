--------------------------- MODULE MCRankingWorker ---------------------------
(***************************************************************************)
(* A workspace with two POIs, a gamma and a normal NP (the gamma one comes *)
(* first), their global observables, and one unconstrained parameter.      *)
(***************************************************************************)
EXTENDS RankingWorker

CONSTANTS mu, eta, gam, sys, globGam, globSys, free

MCLo == -2
MCHi == 2

MCPairedNps == <<gam, sys>>
\* The NP that is asked for by name comes first, in either list.
MCPairedNpsSysFirst == <<sys, gam>>
MCGamma == {gam, globGam}

MCOutcomes == {[val |-> 1, err |-> 1], [val |-> -1, err |-> 2]}

\* Values nobody resets to, so that a reset that is missing shows.
MCLaunch(npConst) ==
  [p \in Params |->
     CASE p \in POIs  -> [val |-> 2, err |-> 3, const |-> FALSE]
       [] p \in NPs   -> [val |-> 0, err |-> 3, const |-> npConst]
       [] p \in Globs -> [val |-> 2, err |-> 1, const |-> TRUE]
       [] OTHER       -> [val |-> 0, err |-> 3, const |-> FALSE]]

MCLaunches == {MCLaunch(FALSE), MCLaunch(TRUE)}

Request(name, id, noGamma, all, reuse, study) ==
  [np_name |-> name, worker_id |-> id, no_gamma |-> noGamma, poi |-> mu,
   poi_init_val |-> 1, errors |-> "HESSE", reuse_nll |-> reuse,
   fit_all_pois |-> all, prePostFit |-> study]

\* By number and by name, in and out of the lists; one and all POIs; with
\* and without reuse of the likelihood; every study type.
MCRequests ==
  {Request(NoName, 0, TRUE, FALSE, TRUE, "OBSERVED"),
   Request(NoName, 1, FALSE, TRUE, FALSE, "OBSERVED"),
   Request(NoName, 2, FALSE, FALSE, TRUE, "OBSERVED"),
   Request(sys, 0, FALSE, FALSE, TRUE, "OBSERVED"),
   Request(gam, 0, FALSE, FALSE, FALSE, "OBSERVED"),
   Request(NoName, 0, FALSE, FALSE, TRUE, "PREFIT"),
   Request(NoName, 1, FALSE, FALSE, TRUE, "POSTFIT")}
=============================================================================
