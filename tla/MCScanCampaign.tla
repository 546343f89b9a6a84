---------------------------- MODULE MCScanCampaign ----------------------------
(***************************************************************************)
(* One script: a stat-only scan of the observed data, for one POI, on a    *)
(* grid of two points, which makes three workers.  From the start there    *)
(* are in the directory a full result of an older version, at the first    *)
(* point of the scan, and a result of another POI.                         *)
(***************************************************************************)
EXTENDS ScanCampaign

CONSTANTS mu, eta, old, alien

MCDescription ==
  [val |-> <<0, 1>>, grid |-> <<2>>, at |-> <<>>,
   range |-> <<[unit |-> "real", amount |-> 0], [unit |-> "real", amount |-> 4]>>]

MCDescriptions == {MCDescription}

MCScripts ==
  {[pois |-> {mu}, stat_only |-> {TRUE}, prePostFit |-> {"OBSERVED"},
    description |-> MCDescription]}

\* The first job may find either of two minima; the old result is the twin of
\* the lower one.  The lowest point of the scan is not its first.
MCLikelihoods(job) == IF job.worker_id = 0 THEN {6, 7} ELSE {6 - job.worker_id}

MCOldContent(f) ==
  CASE f = old ->
         [version |-> "v1", poi |-> mu, value |-> 0, nll_val |-> 6, fit_status |-> 0,
          stat_only |-> FALSE, prePostFit |-> "OBSERVED"]
    [] f = alien ->
         [version |-> "v2", poi |-> eta, value |-> 0, nll_val |-> 3, fit_status |-> 0,
          stat_only |-> TRUE, prePostFit |-> "OBSERVED"]
=============================================================================
