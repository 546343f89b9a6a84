----------------------------- MODULE NpSelection -----------------------------
(***************************************************************************)
(* How a ranking worker turns its request into a nuisance parameter (NP):  *)
(* by its place in a list, or by its name.                                 *)
(***************************************************************************)
EXTENDS Naturals, Sequences

CONSTANTS
  PairedNps,  \* lists_["paired_nps"], in the order of the workspace
  Gamma,      \* parameters whose title holds "gamma"
  NoName      \* no --np_name on the command line

\* FitManager::ExtractNotGammaNps: lists_["non_gamma_nps"], from the first n
\* of the paired NPs and from all of them.
NonGammaOf[n \in 0 .. Len(PairedNps)] ==
  IF n = 0 THEN <<>>
  ELSE IF PairedNps[n] \in Gamma THEN NonGammaOf[n - 1]
  ELSE Append(NonGammaOf[n - 1], PairedNps[n])

NonGammaNps == NonGammaOf[Len(PairedNps)]

NpList(noGamma) == IF noGamma THEN NonGammaNps ELSE PairedNps

\* Places are counted from 0.  A place past the end of the list is read all
\* the same.
ByWorkerId(noGamma, id) ==
  LET list == NpList(noGamma)
  IN IF id < Len(list) THEN {[np |-> list[id + 1], number |-> id]} ELSE {}

\* Mutant: counts the places from 1.
ByNameFromOne(noGamma, name) ==
  LET list == NpList(noGamma)
  IN {[np |-> name, number |-> i] : i \in {j \in 2 .. Len(list) : list[j] = name}}

\* The search starts at index 0 and reports "found" only if it moved on: for
\* the first NP of the list it throws, for an absent one it reads past the end.
ByName(noGamma, name) ==
  LET list == NpList(noGamma)
  IN {[np |-> name, number |-> i - 1] : i \in {j \in 2 .. Len(list) : list[j] = name}}
=============================================================================
