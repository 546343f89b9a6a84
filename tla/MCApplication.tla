---------------------------- MODULE MCApplication ----------------------------
(***************************************************************************)
(* Two POIs, two nuisance parameters, one of them constant, a global       *)
(* observable, and command lines: every way to ask for a free fit, every   *)
(* documented option of every task and some that are not, and short lines  *)
(* of keys and words in every order, for the parser.                       *)
(***************************************************************************)
EXTENDS Application

CONSTANTS sys, held, globSys

MCPOIs == {"mu", "eta"}

MCLo == -2
MCHi == 2

MCOutcomes == {[val |-> 1, err |-> 1], [val |-> -1, err |-> 2]}

\* Values nobody resets to, so that one that should have changed shows.
MCLaunch(poiConst) ==
  [p \in Params |->
     CASE p \in POIs  -> [val |-> 2, err |-> 1, const |-> poiConst]
       [] p = held    -> [val |-> -2, err |-> 0, const |-> TRUE]
       [] p \in Globs -> [val |-> 2, err |-> 1, const |-> TRUE]
       [] OTHER       -> [val |-> 2, err |-> 1, const |-> FALSE]]

MCLaunches == {MCLaunch(TRUE), MCLaunch(FALSE)}

MCAsimovGlobs == {[g \in Globs |-> 1]}

-----------------------------------------------------------------------------
\* --task task --key 1
Option(task, key) == <<Key("task"), Word(task), Key(key), Word("1")>>

Undocumented ==
  {"out", "label_font", "task", "silent", "weighted", "sep", "help", "test", "pois"}

Options ==
  {Option(task, key) : task \in Tasks \cup {"misspelt"}, key \in Undocumented}
  \cup UNION {{Option(task, key) : key \in DocumentedOptions(task)} : task \in Tasks}

\* Lists of POIs, of which the last counts.
PoiLists ==
  {<<>>, <<Key("pois_float")>>, <<Key("pois_float"), Word("mu")>>,
   <<Key("pois_float"), Word("mu"), Word("eta")>>,
   <<Key("pois_float"), Word("mu"), Key("pois_float"), Word("eta")>>,
   <<Key("pois_float"), Word("mew")>>}

FreeFits ==
  {<<Key("task"), Word("free_fit")>> \o pois \o study \o stat \o errors :
     pois \in PoiLists,
     study \in {<<>>, <<Key("prefit")>>, <<Key("postfit")>>, <<Key("postfit"), Key("prefit")>>},
     stat \in {<<>>, <<Key("stat_only")>>},
     errors \in {<<>>, <<Key("errors"), Word("Hesse")>>,
                 <<Key("errors"), Word("Minos"), Key("errors_for"), Word("eta")>>,
                 <<Key("errors"), Word("user"), Key("errors_for"), Word("eta")>>,
                 <<Key("errors"), Word("user"), Key("errors_for"), Word("mew")>>,
                 <<Key("errors")>>}}

\* Numbers that are none; keys without values.
Malformations ==
  {<<Key("task"), Word(task), Key("rmul"), Word("low")>> :
     task \in {"plot_scan", "plot_ranking", "compute_ranking"}}
  \cup {<<Key("task"), Word("compute_ranking"), Key("worker_id")>>, <<Key("task")>>, <<>>}

Words ==
  {Key("task"), Word("get"), Key("poi"), Word("task")}

Shuffles == UNION {[1 .. n -> Words] : n \in 1 .. 4}

\* The first word is a key even without dashes.
FirstWords ==
  {<<Word("pois_float")>> \o pois \o <<Key("task"), Word("free_fit")>> \o again :
     pois \in {<<>>, <<Word("mu")>>, <<Word("mew")>>},
     again \in {<<>>, <<Key("prefit")>>, <<Key("pois_float"), Word("eta")>>}}
  \cup {<<Word(key), Key("task"), Word("free_fit"), Key("pois_float"), Word("mu")>> :
          key \in {"mu", "prefit", "postfit", "stat_only"}}

MCCommandLines == Options \cup FreeFits \cup Malformations \cup Shuffles \cup FirstWords

Texts(line) == {line[i].text : i \in DOMAIN line}

MCNames == POIs \cup UNION {Texts(line) : line \in MCCommandLines}

MCErrorNames == {"hesse", "minos", "user", ""} \cup {ToLowCase(name) : name \in MCNames}
=============================================================================
