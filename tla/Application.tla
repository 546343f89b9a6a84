----------------------------- MODULE Application -----------------------------
(***************************************************************************)
(* The program: main, and Application, which reads the command line and    *)
(* the config file, runs one task and ends with an exit status.  A task    *)
(* reads its options, which ends the program when the command line holds a *)
(* key that nobody has asked for, and then does its work.  The free fit is *)
(* modelled step by step; the work of any other task returns or throws.    *)
(***************************************************************************)
EXTENDS FreeFit, CommandLine

CONSTANTS
  CommandLines,  \* what the program may be started with
  Numbers        \* words that std::stod and std::stoi understand

ApplicationStates ==
  {"INITIALISING", "WAITING_REQUEST", "TEST", "FINISHED", "APP_ERROR"}

\* Hesse, hesse, ...: the spellings at hand.
ToLowCase(name) ==
  CASE name = "Hesse" -> "hesse" [] name = "Minos" -> "minos" [] OTHER -> name

\* Every word may stand where the name of a POI is read, and where the way to
\* estimate errors is.
ASSUME ApplicationAssumption ==
  /\ CommandLines \subseteq Seq(Token)
  /\ \A line \in CommandLines : \A i \in DOMAIN line :
       line[i].text \in Names /\ ToLowCase(line[i].text) \in ErrorNames
  /\ "" \in ErrorNames

VARIABLES
  argv,
  configFile,        \* config.toml: "good", "missing" or "broken"
  args,              \* commandLineArgs_
  requested,         \* _requested_keys
  applicationState,  \* applicationState_
  at,                \* where main is
  exit,              \* how the process ends: status 0, status 1, or "aborted"
  \* history, read by properties only
  reported,          \* ReportStatus has found unknown keys
  finished           \* the task has returned

appVars ==
  <<argv, configFile, args, requested, applicationState, at, exit, reported, finished>>

-----------------------------------------------------------------------------
(***************************************************************************)
(* Keys.                                                                   *)
(***************************************************************************)

\* Init, InitDebugLevel, Logger::Init and Run ask for these.
ApplicationKeys ==
  {"log_path", "logger_name", "task", "release", "debug", "silent", "test",
   "help", "h"}

\* ReadConfigFromCommandLine: the options that are numbers, the first value
\* of which is converted ...
NumericKeys ==
  {"worker_id", "top", "eps", "error_level", "poi_init_val", "rmul", "rmuh",
   "np_scale", "label_size", "lmargin", "rmargin", "tmargin", "bmargin",
   "retry", "strategy", "energy", "np_offset", "mu_offset", "text_size",
   "text_font", "dy", "empty_bins", "dx_legend", "dy_legend", "max_digits"}

\* ... and all of them.
ConfigKeys ==
  NumericKeys \cup
  {"res_path", "np_name", "poi", "ws_path", "ws_name", "model_config",
   "comb_pdf", "comb_data", "study_type", "snapshot", "color_prefit_plus",
   "color_prefit_minus", "color_postfit_plus", "color_postfit_minus",
   "out_dir", "output", "input", "ds_title", "lumi", "experiment",
   "res_status", "mu_latex", "suggestions", "no_gamma", "fit_all_pois",
   "fit_single_poi", "vertical", "reuse_nll", "silent", "release",
   "save_prelim", "draw_impact", "weighted", "errors", "fileformat",
   "ignore_name", "match_names", "replace", "remove_prefix",
   "remove_suffix", "np_names", "add_text", "add_text_ndc", "get",
   "h_draw_options", "plt_size"}

\* Mutant: the keys of a scan lack one that is read after the check.
ScanKeysForgetful ==
  {"pois", "pois_float", "prefit", "postfit", "out", "one_at_time",
   "fit_all_pois", "force_data"}

ScanKeys ==
  {"pois", "pois_float", "prefit", "postfit", "stat_only", "out",
   "one_at_time", "fit_all_pois", "force_data"}

\* RegisterKey, before the task reads its configuration.
TaskKeys(task) ==
  CASE task = "nll_scan" -> ScanKeys
    [] task = "free_fit" ->
         {"pois_float", "postfit", "prefit", "errors_for", "error_level", "stat_only"}
    [] task = "get_missing_nps" -> {"out", "sep"}
    [] OTHER -> {}

\* The tasks that read a FitManagerConfig.
ConfiguredTasks ==
  {"compute_ranking", "plot_ranking", "free_fit", "nll_scan",
   "compare_ratings", "get", "compute_hesse_nps", "get_missing_nps"}

Tasks == ConfiguredTasks \cup {"plot_scan", "compute_unconstrained"}

Task == GetVal(args, "task")

\* std::stod and std::stoi throw.
Malformed(keys) ==
  \E key \in keys : HasKey(args, key) /\ GetVal(args, key) \notin Numbers

-----------------------------------------------------------------------------
(***************************************************************************)
(* Application::Init                                                       *)
(***************************************************************************)

\* The arguments, then config.toml: a missing or a broken one is an error.
ParseAndReadConfig ==
  /\ at = "start"
  /\ args' = ParseInput(argv)
  /\ applicationState' = IF configFile = "good" THEN applicationState ELSE "APP_ERROR"
  /\ at' = "logger"
  /\ UNCHANGED <<argv, configFile, requested, exit, reported, finished, freeFitVars>>

Abort ==
  /\ at' = "end"
  /\ exit' = "aborted"

\* Mutant: an error of the config file is kept.
StateAfterInitKeepsError ==
  IF HasKey(args, "test") THEN "TEST"
  ELSE IF HasKey(args, "help") \/ HasKey(args, "h") THEN "FINISHED"
  ELSE IF applicationState = "APP_ERROR" THEN "APP_ERROR"
  ELSE "WAITING_REQUEST"

\* What the config file was like is forgotten.
StateAfterInit ==
  IF HasKey(args, "test") THEN "TEST"
  ELSE IF HasKey(args, "help") \/ HasKey(args, "h") THEN "FINISHED"
  ELSE "WAITING_REQUEST"

\* Logger::Init names the log of a ranking after its options.
LoggerThrows ==
  HasKey(args, "task") /\ Task = "compute_ranking" /\ Malformed({"worker_id"})

InitLoggerAndState ==
  /\ at = "logger"
  /\ requested' = requested \cup ApplicationKeys
  /\ \/ /\ LoggerThrows
        /\ Abort
        /\ UNCHANGED applicationState
     \/ /\ ~ LoggerThrows
        /\ applicationState' = StateAfterInit
        /\ at' = IF HasKey(args, "test") THEN "test" ELSE "run"
        /\ UNCHANGED exit
  /\ UNCHANGED <<argv, configFile, args, reported, finished, freeFitVars>>

ProcessTest ==
  /\ at = "test"
  /\ \/ /\ applicationState' = "FINISHED"
        /\ at' = "run"
        /\ UNCHANGED exit
     \/ /\ Abort
        /\ UNCHANGED applicationState
  /\ UNCHANGED <<argv, configFile, args, requested, reported, finished, freeFitVars>>

-----------------------------------------------------------------------------
(***************************************************************************)
(* Application::Run and ProcessRequest                                     *)
(***************************************************************************)
isReady == applicationState = "WAITING_REQUEST"

HasTask == HasKey(args, "task")

\* Without a task, or with one that is unknown, the error that is set first
\* is gone when PrintHelp has ended.
Run ==
  /\ at = "run"
  /\ \/ /\ ~ isReady
        /\ at' = "finalize"
        /\ UNCHANGED applicationState
     \/ /\ isReady /\ HasTask /\ Task \in Tasks \ {"compute_unconstrained"}
        /\ at' = "options"
        /\ UNCHANGED applicationState
     \/ /\ isReady /\ HasTask /\ Task = "compute_unconstrained"
        /\ at' = "finalize"
        /\ applicationState' = "APP_ERROR"
     \/ /\ isReady /\ (HasTask => Task \notin Tasks)
        /\ at' = "finalize"
        /\ applicationState' = "FINISHED"
  /\ UNCHANGED <<argv, configFile, args, requested, exit, reported, finished, freeFitVars>>

\* Mutant: the keys that are unknown are printed, and the program goes on.
ReportStatusWarns(unknown) ==
  /\ at' = "work"
  /\ reported' = (unknown # {})
  /\ UNCHANGED exit

\* It may not throw, and does: the program ends at once.
ReportStatus(unknown) ==
  \/ /\ unknown # {}
     /\ Abort
     /\ reported' = TRUE
  \/ /\ unknown = {}
     /\ at' = "work"
     /\ UNCHANGED <<exit, reported>>

\* The keys of the task, and ReadConfigFromCommandLine, which may not throw
\* either and ends with ReportStatus.
ReadOptions ==
  /\ at = "options" /\ Task \in ConfiguredTasks
  /\ requested' = requested \cup TaskKeys(Task) \cup ConfigKeys
  /\ \/ Malformed(NumericKeys) /\ Abort /\ UNCHANGED reported
     \/ ~ Malformed(NumericKeys) /\ ReportStatus(UnknownKeys(args, requested'))
  /\ UNCHANGED <<argv, configFile, args, applicationState, finished, freeFitVars>>

\* plot_scan has options of its own and checks no keys.
ReadOptionsPlotScan ==
  /\ at = "options" /\ Task = "plot_scan"
  /\ \/ Malformed({"rmul", "rmuh", "yl", "yh"}) /\ Abort
     \/ ~ Malformed({"rmul", "rmuh", "yl", "yh"}) /\ at' = "work" /\ UNCHANGED exit
  /\ UNCHANGED <<argv, configFile, args, requested, applicationState, reported,
                 finished, freeFitVars>>

-----------------------------------------------------------------------------
(***************************************************************************)
(* The work of the tasks.                                                  *)
(***************************************************************************)

\* The ranking and get set the state; after the others it is as it was.
Work ==
  /\ at = "work" /\ Task # "free_fit"
  /\ \/ /\ finished' = TRUE
        /\ applicationState' = IF Task \in {"compute_ranking", "get"} THEN "FINISHED"
                               ELSE applicationState
        /\ at' = "finalize"
        /\ UNCHANGED exit
     \/ /\ Abort
        /\ UNCHANGED <<applicationState, finished>>
  /\ UNCHANGED <<argv, configFile, args, requested, reported, freeFitVars>>

\* Mutant: post-fit wins.
StudyPostfitFirst ==
  IF HasKey(args, "postfit") THEN "POSTFIT"
  ELSE IF HasKey(args, "prefit") THEN "PREFIT" ELSE "OBSERVED"

Study ==
  IF HasKey(args, "prefit") THEN "PREFIT"
  ELSE IF HasKey(args, "postfit") THEN "POSTFIT" ELSE "OBSERVED"

Named(key) ==
  IF HasKey(args, key)
  THEN {GetVals(args, key)[i] : i \in DOMAIN GetVals(args, key)}
  ELSE {}

\* What FreeFitManager::InitFromCommandLine reads.
FreeFitSettings ==
  [pois_float |-> Named("pois_float"), prePostFit |-> Study,
   stat_only |-> HasKey(args, "stat_only"),
   errors |-> IF HasKey(args, "errors") THEN ToLowCase(GetVal(args, "errors")) ELSE NoErrors,
   errors_for |-> Named("errors_for")]

StartFreeFit ==
  /\ at = "work" /\ Task = "free_fit"
  /\ InitFromCommandLine(FreeFitSettings)
  /\ UNCHANGED appVars

\* The workspace cannot be read.
FailToReadWorkspace ==
  /\ at = "work" /\ Task = "free_fit" /\ pc = "off"
  /\ Abort
  /\ UNCHANGED <<argv, configFile, args, requested, applicationState, reported,
                 finished, freeFitVars>>

FreeFitStep ==
  /\ at = "work" /\ Task = "free_fit"
  /\ RunFit
  /\ UNCHANGED appVars

FreeFitReturns ==
  /\ at = "work" /\ Task = "free_fit" /\ pc \in {"done", "aborted"}
  /\ \/ /\ pc = "done"
        /\ finished' = TRUE
        /\ at' = "finalize"
        /\ UNCHANGED exit
     \/ /\ pc = "aborted"
        /\ Abort
        /\ UNCHANGED finished
  /\ UNCHANGED <<argv, configFile, args, requested, applicationState, reported, freeFitVars>>

\* Finalize, and the end of main.
Finalize ==
  /\ at = "finalize"
  /\ exit' = IF applicationState = "APP_ERROR" THEN "failure" ELSE "success"
  /\ at' = "end"
  /\ UNCHANGED <<argv, configFile, args, requested, applicationState, reported,
                 finished, freeFitVars>>

-----------------------------------------------------------------------------
AppInit ==
  /\ FreeFitInit
  /\ argv \in CommandLines
  /\ configFile \in {"good", "missing", "broken"}
  /\ args = NoArguments
  /\ requested = {}
  /\ applicationState = "INITIALISING"
  /\ at = "start"
  /\ exit = "running"
  /\ reported = FALSE /\ finished = FALSE

AppNext ==
  \/ ParseAndReadConfig
  \/ InitLoggerAndState
  \/ ProcessTest
  \/ Run
  \/ ReadOptions
  \/ ReadOptionsPlotScan
  \/ Work
  \/ StartFreeFit
  \/ FailToReadWorkspace
  \/ FreeFitStep
  \/ FreeFitReturns
  \/ Finalize

AppSpec == AppInit /\ [][AppNext]_<<appVars, freeFitVars>>

-----------------------------------------------------------------------------
\* Every key that somebody may ask for.
Requestable ==
  ApplicationKeys \cup ConfigKeys \cup UNION {TaskKeys(task) : task \in ConfiguredTasks}

\* Every variable has its type.
AppTypeOK ==
  /\ FreeFitTypeOK
  /\ argv \in CommandLines /\ configFile \in {"good", "missing", "broken"}
  /\ DOMAIN args.ops = args.keys /\ args.parsed \subseteq args.keys
  /\ \A key \in args.keys : args.ops[key] \in Seq(STRING)
  /\ requested \subseteq Requestable
  /\ applicationState \in ApplicationStates
  /\ at \in {"start", "logger", "test", "run", "options", "work", "finalize", "end"}
  /\ exit \in {"running", "aborted", "success", "failure"}
  /\ reported \in BOOLEAN /\ finished \in BOOLEAN

\* Whatever the order of the words and however often a key is repeated, the
\* values of a key are the words behind its last occurrence, and the check
\* sees every key (CommandLineArgs::ParseInput).
ParsedAsWritten == at # "start" => SaysWhatIsWritten(argv, args)

\* "Unknown command line options. Use the ones above"
\* (CommandLineArgs.cpp:194): no work begins on a command line that holds a
\* key, misspelt say, that nobody reads; and the check runs late enough for
\* the keys that the task itself registers.  plot_scan does not check.
UnknownKeysStopTheTask ==
  at = "work" /\ Task # "plot_scan" =>
    \A i \in DOMAIN argv :
      argv[i].dashed => argv[i].text \in ApplicationKeys \cup ConfigKeys \cup TaskKeys(Task)

\* The options that README.md documents for each task, the common ones of the
\* fits among them.
DocumentedOptions(task) ==
  LET common == {"ws_path", "ws_name", "model_config", "comb_data", "comb_pdf",
                 "eps", "strategy", "retry"}
  IN CASE task = "compute_ranking" ->
            common \cup {"poi", "worker_id", "np_name", "errors", "no_gamma",
                       "poi_init_val", "res_path"}
       [] task = "plot_ranking" ->
            {"input", "poi", "top", "color_prefit_plus", "color_prefit_minus",
             "color_postfit_plus", "color_postfit_minus", "vertical",
             "h_draw_options", "rmargin", "lmargin", "tmargin", "bmargin",
             "mu_offset", "plt_size", "fileformat", "ignore_name"}
       [] task = "nll_scan" ->
            common \cup {"pois", "pois_float", "prefit", "postfit", "stat_only",
                       "one_at_time", "fit_all_pois", "force_data", "snapshot"}
       [] task = "free_fit" ->
            common \cup {"pois_float", "prefit", "postfit", "out", "errors",
                       "error_level", "errors_for"}
       [] task = "get_missing_nps" -> {"out", "sep", "input", "poi", "ws_path"}
       [] task = "compute_hesse_nps" -> {"poi", "ws_path"}
       [] OTHER -> {}

OnlyDocumented ==
  \A i \in DOMAIN argv :
    argv[i].dashed => argv[i].text \in DocumentedOptions(Task) \cup {"task"}

\* "| out | string | ... | path of the output ROOT file |" of a free fit
\* (README.md:242), and every other option of its tables: a command line that
\* holds nothing but documented options passes the check.
DocumentedOptionsPass == reported => ~ OnlyDocumented

\* A command line that holds nothing but documented options is rejected for
\* one reason only, which is --out of the free fit: an option that is read
\* after the check, by the work of a task, has been asked for before it
\* (ProcessFreeFitComputation, ReadConfigFromCommandLine, ReportStatus).
OnlyFreeFitOutIsRejected ==
  reported /\ OnlyDocumented =>
    Task = "free_fit" /\ \E i \in DOMAIN argv : argv[i] = Key("out")

\* A script that looks at the exit status can rely on it, with any config
\* file: success says that the task has done its work, unless there was no task to
\* do, help or the tests were asked for, or the task was unknown, which all
\* end like it; failure is left to a task that is not implemented (Application::Run,
\* main.cpp:43).
ExitStatusTellsTheTruth ==
  /\ exit = "success" =>
       \/ finished
       \/ {"test", "help", "h"} \cap args.keys # {}
       \/ ~ HasKey(args, "task") \/ Task \notin Tasks
  /\ exit = "failure" => HasKey(args, "task") /\ Task = "compute_unconstrained"

\* The fit that was made is the one of the command line: when the free fit
\* has ended, each POI that is named behind the last --pois_float, or behind
\* a first word pois_float, floated in the last fit and no other did, with
\* the dataset that the flags ask for, pre-fit before post-fit
\* (ProcessFreeFitComputation, InitFromCommandLine).
FreeFitIsTheOneAskedFor ==
  finished /\ Task = "free_fit" =>
    LET has(key) == argv[1].text = key \/ \E i \in DOMAIN argv : argv[i] = Key(key)
        named(p) == \E i, j \in DOMAIN argv :
                      /\ i =< j /\ argv[i].text = "pois_float" /\ argv[j] = Word(p)
                      /\ argv[i].dashed \/ i = 1
                      /\ \A k \in i + 1 .. j : ~ argv[k].dashed
                      /\ \A k \in j .. Len(argv) : argv[k] # Key("pois_float")
    IN /\ \A p \in POIs : fits[Len(fits)].start[p].const = ~ named(p)
       /\ (data = Observed) = ~ (has("prefit") \/ has("postfit"))
       /\ Len(fits) = IF has("stat_only") THEN 2 ELSE 1
       /\ has("prefit") => settings.prePostFit = "PREFIT"
=============================================================================
