-------------------------- MODULE MCRankingCampaign --------------------------
(***************************************************************************)
(* Three NPs, the first of them a gamma: the full and the non-gamma list   *)
(* differ in length, in every position, and in their first element.        *)
(***************************************************************************)
EXTENDS RankingCampaign, TLC

CONSTANTS mu, eta, gam, sys, theory

MCPairedNps == <<gam, sys, theory>>

\* Nothing tells one parameter of interest from another.
MCSymmetry == Permutations(POIs)
=============================================================================
