------------------------------ MODULE MCFitter -------------------------------
(***************************************************************************)
(* Three settings: no retry and errors of one kind; three retries from the *)
(* highest strategy a byte holds, with a set missing; and a number of      *)
(* retries that does not fit a byte.                                       *)
(***************************************************************************)
EXTENDS Fitter

CONSTANT list

Request(r, level, mode, n, g, p, user) ==
  [retry |-> r, strategy |-> level, errors |-> mode, globalObs |-> g, nps |-> n,
   pois |-> p, pois_to_estimate_errors |-> user]

MCRequests ==
  {Request(0, 1, "DEFAULT", NoSet, list, list, NoSet),
   Request(3, 255, "MINOS_ALL", list, list, list, NoSet),
   Request(2, 1, "USER_DEFINED", NoSet, NoSet, list, NoSet),
   Request(257, 0, "HESSE", list, list, NoSet, NoSet)}
=============================================================================
