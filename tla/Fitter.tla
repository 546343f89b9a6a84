------------------------------- MODULE Fitter --------------------------------
(***************************************************************************)
(* fit::Fitter: builds a likelihood and minimises it with Minuit, again    *)
(* with a higher strategy if that fails, and then estimates errors.  One   *)
(* object serves the calls of its owner one after the other: Fit, or       *)
(* CreatNll and Minimize.  What Minuit answers is its own business: each   *)
(* minimisation returns any of Statuses.                                   *)
(***************************************************************************)
EXTENDS Integers, Sequences

CONSTANTS
  ArgSets,    \* sets of parameters the owner may hand over, by pointer
  NoSet,      \* nullptr
  Statuses,   \* what minimize() may return
  Requests,   \* calls an owner may make
  NoErrors,   \* no error has been estimated
  MaxCalls    \* bound: calls of Minimize

Pointers == ArgSets \cup {NoSet}

ErrorModes ==
  {"DEFAULT", "HESSE", "MINOS_NPS", "MINOS_POIS", "MINOS_ALL", "USER_DEFINED"}

\* FitSettings, with retry and strategy as the command line gives them.
Settings ==
  [retry : Nat, strategy : Nat, errors : ErrorModes, globalObs : Pointers,
   nps : Pointers, pois : Pointers, pois_to_estimate_errors : Pointers]

ASSUME FitterAssumption ==
  /\ Statuses \subseteq Int
  /\ Requests \subseteq Settings
  /\ NoSet \notin ArgSets
  /\ MaxCalls \in Nat

\* Mutant: wide enough for what the command line may hold.
Wide(n) == n

\* FitSettings keeps them in a uint8_t.
Narrow(n) == n % 256

Failed(s) == s \notin {0, 1}

VARIABLES
  nps, globs,     \* nps_ and globs_
  lastFitStatus,  \* last_fit_status_
  nll,            \* the owner's likelihood: the sets it was made with, or NoSet
  settings,       \* of the call at hand
  strategy,       \* the strategy set in the minimiser
  retry, status,  \* locals of Minimize
  estimated,      \* errors estimated in this call: what for, which strategy
  pc,
  calls,          \* calls of Minimize so far
  \* history, read by properties only
  attempts        \* minimisations of the call at hand: strategy and status

members == <<nps, globs, lastFitStatus>>
locals == <<strategy, retry, status, estimated, attempts>>
vars == <<members, nll, settings, locals, pc, calls>>

\* FitSettings::retry and FitSettings::strategy of the call at hand.
Retries == Narrow(settings.retry)
FirstStrategy == Narrow(settings.strategy)

-----------------------------------------------------------------------------
(***************************************************************************)
(* Calls of the owner.                                                     *)
(***************************************************************************)

\* A new object: every fit of a ranking has one; the likelihood may stay.
New ==
  /\ pc = "idle"
  /\ nps' = NoSet /\ globs' = NoSet /\ lastFitStatus' = -999
  /\ estimated' = NoErrors /\ attempts' = <<>>
  /\ UNCHANGED <<nll, settings, strategy, retry, status, pc, calls>>

SetNpsAndGlobs(n, g) ==
  /\ pc = "idle"
  /\ nps' = n /\ globs' = g
  /\ UNCHANGED <<lastFitStatus, nll, settings, locals, pc, calls>>

\* Sets of an earlier call stay; a null one is dereferenced.
CreatNll(s) ==
  /\ nps' = IF nps = NoSet THEN s.nps ELSE nps
  /\ globs' = IF globs = NoSet THEN s.globalObs ELSE globs
  /\ \/ /\ NoSet \notin {nps', globs'}
        /\ nll' = <<nps', globs'>>
     \/ /\ NoSet \in {nps', globs'}
        /\ UNCHANGED nll

Begin(s) ==
  /\ calls < MaxCalls
  /\ calls' = calls + 1
  /\ settings' = s
  /\ estimated' = NoErrors
  /\ attempts' = <<>>
  /\ pc' = "minimize"
  /\ UNCHANGED <<strategy, retry, status>>

Throw ==
  /\ pc' = "thrown"
  /\ UNCHANGED <<settings, locals, calls>>

CallCreatNll(s) ==
  /\ pc = "idle"
  /\ CreatNll(s)
  /\ pc' = IF NoSet \in {nps', globs'} THEN "thrown" ELSE "idle"
  /\ UNCHANGED <<lastFitStatus, settings, locals, calls>>

CallMinimize(s) ==
  /\ pc = "idle"
  /\ \/ nll # NoSet /\ Begin(s)
     \/ nll = NoSet /\ Throw
  /\ UNCHANGED <<members, nll>>

\* Fit overwrites the sets of its settings with those of the object.
Fit(s) ==
  /\ pc = "idle"
  /\ \/ /\ NoSet \notin {nps, globs}
        /\ CreatNll(s)
        /\ Begin([s EXCEPT !.nps = nps, !.globalObs = globs])
     \/ /\ NoSet \in {nps, globs}
        /\ Throw
        /\ UNCHANGED <<nps, globs, nll>>
  /\ UNCHANGED lastFitStatus

-----------------------------------------------------------------------------
(***************************************************************************)
(* Minimize.                                                               *)
(***************************************************************************)
\* Mutant: the status of a retry is added to that of the attempt before it.
AttemptAccumulates(level) ==
  /\ strategy' = level
  /\ \E s \in Statuses :
       /\ status' = status + s
       /\ attempts' = Append(attempts, [strategy |-> level, status |-> s])

Attempt(level) ==
  /\ strategy' = level
  /\ status' \in Statuses
  /\ attempts' = Append(attempts, [strategy |-> level, status |-> status'])

FirstAttempt ==
  /\ pc = "minimize"
  /\ Attempt(FirstStrategy)
  /\ retry' = Retries
  /\ pc' = "loop"
  /\ UNCHANGED <<members, nll, settings, estimated, calls>>

\* Mutant: the loop is left only when the minimisation succeeds.
LeavesLoopOnSuccess == ~ Failed(status)

LeavesLoop == ~ (Failed(status) /\ retry > 0)

\* Mutant: every retry starts again from the strategy of the settings.
RetryAtSettings ==
  /\ pc = "loop" /\ Failed(status) /\ retry > 0
  /\ retry' = retry - 1
  /\ Attempt(FirstStrategy + 1)
  /\ UNCHANGED <<members, nll, settings, estimated, pc, calls>>

Retry ==
  /\ pc = "loop" /\ Failed(status) /\ retry > 0
  /\ retry' = retry - 1
  /\ Attempt(strategy + 1)
  /\ UNCHANGED <<members, nll, settings, estimated, pc, calls>>

\* Mutant: the strategy of the last attempt stays.
RestoreStrategyForgotten ==
  /\ pc = "loop" /\ LeavesLoop
  /\ lastFitStatus' = status
  /\ pc' = "errors"
  /\ UNCHANGED <<nps, globs, nll, settings, locals, calls>>

RestoreStrategy ==
  /\ pc = "loop" /\ LeavesLoop
  /\ strategy' = FirstStrategy
  /\ lastFitStatus' = status
  /\ pc' = "errors"
  /\ UNCHANGED <<nps, globs, nll, settings, retry, status, estimated, attempts,
                 calls>>

\* The sets whose errors a mode estimates.
ErrorSets(s) ==
  CASE s.errors = "MINOS_NPS"    -> {s.nps}
    [] s.errors = "MINOS_POIS"   -> {s.pois}
    [] s.errors = "MINOS_ALL"    -> {s.nps, s.pois}
    [] s.errors = "USER_DEFINED" -> {s.pois_to_estimate_errors}
    [] OTHER                     -> {}

\* The switch over settings.errors, reached whether or not the fit
\* converged.  A set that is null fails an assertion or throws.
EstimateErrors ==
  /\ pc = "errors"
  /\ \/ /\ settings.errors = "DEFAULT"
        /\ pc' = "idle"
        /\ UNCHANGED estimated
     \/ /\ settings.errors # "DEFAULT" /\ NoSet \notin ErrorSets(settings)
        /\ estimated' = [sets |-> ErrorSets(settings), strategy |-> strategy]
        /\ pc' = "idle"
     \/ /\ settings.errors # "DEFAULT" /\ NoSet \in ErrorSets(settings)
        /\ pc' = "thrown"
        /\ UNCHANGED estimated
  /\ UNCHANGED <<members, nll, settings, strategy, retry, status, attempts, calls>>

-----------------------------------------------------------------------------
Init ==
  /\ nps = NoSet /\ globs = NoSet /\ lastFitStatus = -999
  /\ nll = NoSet
  /\ settings \in Requests
  /\ strategy = 0 /\ retry = 0 /\ status = 0
  /\ estimated = NoErrors
  /\ attempts = <<>>
  /\ pc = "idle"
  /\ calls = 0

MinimizeStep == FirstAttempt \/ Retry \/ RestoreStrategy \/ EstimateErrors

Next ==
  \/ New
  \/ \E n, g \in Pointers : SetNpsAndGlobs(n, g)
  \/ \E s \in Requests : CallCreatNll(s) \/ CallMinimize(s) \/ Fit(s)
  \/ MinimizeStep

Spec == Init /\ [][Next]_vars

\* Minimize runs on once it is called.
FairSpec == Spec /\ WF_vars(MinimizeStep)

-----------------------------------------------------------------------------
\* Every variable has its type.
TypeOK ==
  /\ nps \in Pointers /\ globs \in Pointers
  /\ lastFitStatus \in Int
  /\ nll \in (ArgSets \X ArgSets) \cup {NoSet}
  /\ settings \in Settings
  /\ strategy \in Nat /\ retry \in 0 .. 255 /\ status \in Statuses \cup {0}
  /\ estimated = NoErrors \/ estimated.sets \subseteq ArgSets
  /\ attempts \in Seq([strategy : Nat, status : Statuses])
  /\ pc \in {"idle", "minimize", "loop", "errors", "thrown"}
  /\ calls \in 0 .. MaxCalls

\* A minimisation is tried again only after a failure, each time one strategy
\* higher and at most retry times; and Minimize gives up on a failure only
\* when it has made all of them (the loop in Minimize, uint8_t retry).
RetryPolicy ==
  /\ \A i \in 1 .. Len(attempts) :
       attempts[i].strategy = FirstStrategy + i - 1
  /\ \A i \in 1 .. Len(attempts) - 1 : Failed(attempts[i].status)
  /\ Len(attempts) =< Retries + 1
  /\ pc = "errors" /\ Failed(attempts[Len(attempts)].status) =>
       Len(attempts) = Retries + 1

\* The errors are estimated with the strategy that was asked for, however
\* many retries have raised it (RestoreStrategy before the switch).
ErrorsAtRequestedStrategy ==
  estimated # NoErrors => estimated.strategy = FirstStrategy

\* What GetLastFitStatus answers after a call is how the last of its attempts
\* ended, and a failure only if every attempt of the call failed; the scan
\* stores it in its result (last_fit_status_, NllScanManager::RunScan).
LastFitStatusIsOfThisCall ==
  pc = "idle" /\ attempts # <<>> =>
    /\ lastFitStatus = attempts[Len(attempts)].status
    /\ Failed(lastFitStatus) => \A i \in 1 .. Len(attempts) : Failed(attempts[i].status)

\* Minimize returns or throws, even if Minuit never converges.
MinimizeEnds == [](pc = "minimize" => <>(pc \in {"idle", "thrown"}))
=============================================================================
