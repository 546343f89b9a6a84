---------------------------- MODULE FitterProofs -----------------------------
(***************************************************************************)
(* The retry policy, the strategy used for the errors and the status that  *)
(* is reported, proved for every set of requests and of statuses, and for  *)
(* every number of retries.                                                *)
(***************************************************************************)
EXTENDS Fitter, TLAPS

AttemptRec == [strategy : Nat, status : Statuses]

Last == attempts[Len(attempts)]

\* What is known of the attempts at every point of Minimize.
Progress ==
  /\ pc = "minimize" => attempts = <<>>
  /\ pc = "loop" =>
       /\ attempts # <<>>
       /\ Last.status = status
       /\ Last.strategy = strategy
       /\ Len(attempts) + retry = Retries + 1
  /\ pc = "errors" =>
       /\ attempts # <<>>
       /\ strategy = FirstStrategy
  /\ pc \in {"errors", "idle"} /\ attempts # <<>> =>
       /\ lastFitStatus = Last.status
       /\ Failed(Last.status) => Len(attempts) = Retries + 1

\* The inductive invariant: the properties, and the progress of the loop that
\* links what is left of retry to the attempts already made.
IInv ==
  /\ TypeOK
  /\ RetryPolicy
  /\ ErrorsAtRequestedStrategy
  /\ Progress

-----------------------------------------------------------------------------
\* What is left of the numbers of a request is a byte.
LEMMA Bytes ==
  ASSUME settings \in Settings
  PROVE  Retries \in 0 .. 255 /\ FirstStrategy \in 0 .. 255
<1>1. \A n \in Nat : Narrow(n) \in 0 .. 255
  BY DEF Narrow
<1>2. settings.retry \in Nat /\ settings.strategy \in Nat
  BY DEF Settings
<1> QED
  BY <1>1, <1>2 DEF Retries, FirstStrategy

\* They depend on the request only.
LEMMA BytesKept ==
  ASSUME settings' = settings
  PROVE  Retries' = Retries /\ FirstStrategy' = FirstStrategy
BY DEF Retries, FirstStrategy

\* What appending an attempt does to the sequence.
LEMMA AppendAttempt ==
  ASSUME NEW s \in Seq(AttemptRec), NEW r \in AttemptRec
  PROVE  /\ Append(s, r) \in Seq(AttemptRec)
         /\ Append(s, r) # <<>>
         /\ Len(Append(s, r)) = Len(s) + 1
         /\ Append(s, r)[Len(s) + 1] = r
         /\ \A i \in 1 .. Len(s) : Append(s, r)[i] = s[i]
OBVIOUS

\* The initial states satisfy the invariant.
LEMMA InitIInv == Init => IInv
<1> SUFFICES ASSUME Init PROVE IInv
  OBVIOUS
<1>1. attempts = <<>> /\ Len(attempts) = 0
  BY DEF Init
<1>2. TypeOK
  BY FitterAssumption DEF Init, TypeOK, Pointers
<1>3. Retries \in 0 .. 255
  BY <1>2, Bytes DEF TypeOK
<1>4. RetryPolicy
  <2>1. 1 .. Len(attempts) = {} /\ 1 .. Len(attempts) - 1 = {}
    BY <1>1
  <2> QED
    BY <1>1, <1>3, <2>1 DEF Init, RetryPolicy
<1> QED
  BY <1>1, <1>2, <1>4 DEF Init, IInv, ErrorsAtRequestedStrategy, Progress

\* A step that leaves the call at hand alone keeps the invariant.
LEMMA QuietStep ==
  ASSUME IInv, TypeOK', UNCHANGED <<lastFitStatus, settings, locals, pc>>
  PROVE  IInv'
BY BytesKept DEF IInv, RetryPolicy, ErrorsAtRequestedStrategy, Progress, Last, locals

\* A step with which a call begins.
LEMMA BeginStep ==
  ASSUME IInv, NEW s \in Settings, Begin(s), TypeOK'
  PROVE  IInv'
<1>1. attempts' = <<>> /\ Len(attempts') = 0 /\ settings' = s /\ pc' = "minimize"
      /\ estimated' = NoErrors
  BY DEF Begin
<1>2. Retries' \in 0 .. 255
  <2>1. \A n \in Nat : Narrow(n) \in 0 .. 255
    BY DEF Narrow
  <2>2. s.retry \in Nat /\ Retries' = Narrow(s.retry)
    BY <1>1 DEF Settings, Retries
  <2> QED
    BY <2>1, <2>2
<1>3. RetryPolicy'
  <2>1. 1 .. Len(attempts') = {} /\ 1 .. Len(attempts') - 1 = {}
    BY <1>1
  <2>2. Len(attempts') =< Retries' + 1
    <3>1. \A n \in 0 .. 255 : 0 =< n + 1
      OBVIOUS
    <3>2. 0 =< Retries' + 1
      BY <3>1, <1>2, Zenon
    <3> QED
      BY ONLY <1>1, <3>2, Zenon
  <2> QED
    BY <1>1, <2>1, <2>2 DEF RetryPolicy
<1> QED
  BY <1>1, <1>3 DEF IInv, ErrorsAtRequestedStrategy, Progress

\* A throw between two calls.
LEMMA ThrowStep ==
  ASSUME IInv, pc = "idle", Throw, TypeOK'
  PROVE  IInv'
BY BytesKept DEF IInv, Throw, locals, RetryPolicy, ErrorsAtRequestedStrategy, Progress, Last

\* An attempt, first or not, that the loop is entitled to make.
LEMMA AttemptStep ==
  ASSUME IInv, NEW level \in Nat, Attempt(level), TypeOK',
         level = FirstStrategy + Len(attempts),
         attempts # <<>> => Failed(Last.status),
         UNCHANGED <<settings, estimated>>, pc' = "loop",
         Len(attempts) + 1 + retry' = Retries + 1
  PROVE  IInv'
<1> DEFINE r == [strategy |-> level, status |-> status']
<1>1. r \in AttemptRec /\ attempts \in Seq(AttemptRec)
  BY DEF Attempt, AttemptRec, IInv, TypeOK
<1>2. attempts' = Append(attempts, r)
  BY DEF Attempt
<1>3. /\ Len(attempts') = Len(attempts) + 1 /\ attempts' # <<>>
      /\ attempts'[Len(attempts) + 1] = r
      /\ \A i \in 1 .. Len(attempts) : attempts'[i] = attempts[i]
  BY <1>1, <1>2, AppendAttempt, Zenon
<1>4. Len(attempts) \in Nat /\ (attempts # <<>> => Len(attempts) > 0)
  BY <1>1
<1>5. retry' \in 0 .. 255
  BY DEF TypeOK
<1>6. Retries \in 0 .. 255 /\ FirstStrategy \in 0 .. 255
  BY Bytes DEF IInv, TypeOK
<1>k. Retries' = Retries /\ FirstStrategy' = FirstStrategy
  BY BytesKept
<1>7. RetryPolicy'
  <2>1. \A i \in 1 .. Len(attempts') :
          attempts'[i].strategy = FirstStrategy' + i - 1
    BY <1>3, <1>4, <1>6, <1>k DEF IInv, RetryPolicy
  <2>2. \A i \in 1 .. Len(attempts') - 1 : Failed(attempts'[i].status)
    <3> SUFFICES ASSUME NEW i \in 1 .. Len(attempts') - 1
                 PROVE  Failed(attempts'[i].status)
      OBVIOUS
    <3>1. i \in 1 .. Len(attempts) /\ attempts'[i] = attempts[i]
      BY <1>3, <1>4
    <3>2. CASE i \in 1 .. Len(attempts) - 1
      BY <3>1, <3>2 DEF IInv, RetryPolicy
    <3>3. CASE i = Len(attempts)
      BY <3>1, <3>3, <1>4 DEF Last
    <3> QED
      BY <3>1, <3>2, <3>3, <1>4
  <2>3. Len(attempts') =< Retries' + 1
    BY <1>3, <1>4, <1>5, <1>6, <1>k
  <2> QED
    BY <2>1, <2>2, <2>3 DEF RetryPolicy
<1>8. ErrorsAtRequestedStrategy'
  BY <1>k DEF IInv, ErrorsAtRequestedStrategy
<1>9. Progress'
  BY <1>3, <1>4, <1>k DEF Progress, Last, Attempt
<1> QED
  BY <1>7, <1>8, <1>9 DEF IInv

\* Every step of Minimize and every call keeps the types.
LEMMA TypeStep == IInv /\ [Next]_vars => TypeOK'
<1> SUFFICES ASSUME TypeOK, [Next]_vars PROVE TypeOK'
  BY DEF IInv
<1> USE FitterAssumption
<1>1. CASE New
  BY <1>1 DEF New, TypeOK, Pointers
<1>2. ASSUME NEW n \in Pointers, NEW g \in Pointers, SetNpsAndGlobs(n, g)
      PROVE  TypeOK'
  BY <1>2 DEF SetNpsAndGlobs, TypeOK, locals
<1>3. ASSUME NEW s \in Requests, CreatNll(s)
      PROVE  /\ nps' \in Pointers /\ globs' \in Pointers
             /\ nll' \in (ArgSets \X ArgSets) \cup {NoSet}
  BY <1>3 DEF CreatNll, TypeOK, Settings, Pointers
<1>4. ASSUME NEW s \in Requests, CallCreatNll(s)
      PROVE  TypeOK'
  BY <1>3, <1>4 DEF CallCreatNll, TypeOK, locals
<1>5. ASSUME NEW s \in Settings, Begin(s)
      PROVE  /\ settings' \in Settings /\ calls' \in 0 .. MaxCalls
             /\ estimated' = NoErrors /\ attempts' \in Seq(AttemptRec)
             /\ pc' = "minimize"
             /\ UNCHANGED <<strategy, retry, status>>
  <2>1. <<>> \in Seq(AttemptRec)
    OBVIOUS
  <2> QED
    BY <1>5, <2>1 DEF Begin, TypeOK
<1>6. ASSUME NEW s \in Requests, CallMinimize(s)
      PROVE  TypeOK'
  <2>1. CASE Begin(s)
    <3>1. s \in Settings /\ UNCHANGED <<members, nll>>
      BY <1>6 DEF CallMinimize
    <3> QED
      BY <1>5, <2>1, <3>1 DEF TypeOK, members, AttemptRec
  <2>2. CASE Throw
    BY <1>6, <2>2 DEF CallMinimize, Throw, TypeOK, members, locals
  <2> QED
    BY <1>6, <2>1, <2>2 DEF CallMinimize
<1>7. ASSUME NEW s \in Requests, Fit(s)
      PROVE  TypeOK'
  <2>1. CASE Throw
    <3>1. NoSet \in {nps, globs} /\ UNCHANGED <<nps, globs, nll, lastFitStatus>>
      BY <1>7, <2>1 DEF Fit, Throw, Begin
    <3> QED
      BY <2>1, <3>1 DEF Throw, TypeOK, locals
  <2>2. CASE NoSet \notin {nps, globs}
    <3>1. CreatNll(s) /\ Begin([s EXCEPT !.nps = nps, !.globalObs = globs])
          /\ lastFitStatus' = lastFitStatus
      BY <1>7, <2>2 DEF Fit
    <3>2. [s EXCEPT !.nps = nps, !.globalObs = globs] \in Settings
      BY DEF Settings, TypeOK
    <3> QED
      BY <1>3, <1>5, <3>1, <3>2 DEF TypeOK, AttemptRec
  <2> QED
    BY <1>7, <2>1, <2>2 DEF Fit
<1>8. ASSUME NEW level \in Nat, Attempt(level)
      PROVE  /\ strategy' \in Nat /\ status' \in Statuses
             /\ attempts' \in Seq([strategy : Nat, status : Statuses])
  <2>1. attempts \in Seq(AttemptRec)
    BY DEF TypeOK, AttemptRec
  <2>2. strategy' = level /\ status' \in Statuses
        /\ attempts' = Append(attempts, [strategy |-> level, status |-> status'])
    BY <1>8 DEF Attempt
  <2>3. [strategy |-> level, status |-> status'] \in AttemptRec
    BY <2>2 DEF AttemptRec
  <2>4. attempts' \in Seq(AttemptRec)
    BY <2>1, <2>2, <2>3, AppendAttempt
  <2> QED
    BY <2>2, <2>4 DEF AttemptRec
<1>8a. FirstStrategy \in Nat /\ Retries \in 0 .. 255
  <2>1. FirstStrategy \in 0 .. 255 /\ Retries \in 0 .. 255
    BY Bytes DEF TypeOK
  <2> QED
    BY <2>1
<1>9. CASE FirstAttempt
  <2> QED
    BY <1>8, <1>8a, <1>9 DEF FirstAttempt, TypeOK, members
<1>10. CASE Retry
  <2>1. strategy + 1 \in Nat /\ retry - 1 \in 0 .. 255
    BY <1>10 DEF Retry, TypeOK
  <2> QED
    BY <1>8, <1>10, <2>1 DEF Retry, TypeOK, members
<1>11. CASE RestoreStrategy
  <2> QED
    BY <1>11, <1>8a DEF RestoreStrategy, TypeOK
<1>12. CASE EstimateErrors
  <2>1. ErrorSets(settings) \subseteq Pointers
    BY DEF ErrorSets, TypeOK, Settings
  <2>2. NoSet \notin ErrorSets(settings) => ErrorSets(settings) \subseteq ArgSets
    BY <2>1 DEF Pointers
  <2>3. estimated' = NoErrors \/ estimated'.sets \subseteq ArgSets
    BY <1>12, <2>2 DEF EstimateErrors, TypeOK
  <2> QED
    BY <1>12, <2>3 DEF EstimateErrors, TypeOK, members
<1>13. CASE UNCHANGED vars
  BY <1>13 DEF vars, members, locals, TypeOK
<1> QED
  BY <1>1, <1>2, <1>4, <1>6, <1>7, <1>9, <1>10, <1>11, <1>12, <1>13
     DEF Next, MinimizeStep

\* Every step keeps the invariant.
LEMMA NextIInv == IInv /\ [Next]_vars => IInv'
<1> SUFFICES ASSUME IInv, [Next]_vars PROVE IInv'
  OBVIOUS
<1>0. TypeOK'
  BY TypeStep
<1>t. /\ attempts \in Seq(AttemptRec)
      /\ Retries \in 0 .. 255 /\ FirstStrategy \in 0 .. 255
  BY Bytes DEF IInv, TypeOK, AttemptRec
<1>l. Len(attempts) \in Nat /\ (attempts # <<>> => Len(attempts) > 0)
  BY <1>t
<1>1. CASE New
  <2>1. attempts' = <<>> /\ Len(attempts') = 0 /\ estimated' = NoErrors
        /\ pc' = "idle" /\ settings' = settings
    BY <1>1 DEF New
  <2> QED
    <3>1. 1 .. Len(attempts') = {} /\ 1 .. Len(attempts') - 1 = {}
      BY <2>1
    <3>2. RetryPolicy'
      BY <2>1, <3>1, <1>t, BytesKept DEF RetryPolicy
    <3> QED
      BY <2>1, <3>2, <1>0 DEF IInv, ErrorsAtRequestedStrategy, Progress
<1>2. ASSUME NEW n \in Pointers, NEW g \in Pointers, SetNpsAndGlobs(n, g)
      PROVE  IInv'
  BY <1>0, <1>2, QuietStep DEF SetNpsAndGlobs
<1>3. ASSUME NEW s \in Requests, CallCreatNll(s)
      PROVE  IInv'
  <2>1. UNCHANGED <<lastFitStatus, settings, locals>> /\ pc' \in {"idle", "thrown"} /\ pc = "idle"
    BY <1>3 DEF CallCreatNll
  <2> QED
    BY <1>0, <2>1, BytesKept DEF IInv, locals, RetryPolicy, ErrorsAtRequestedStrategy, Progress, Last
<1>4. ASSUME NEW s \in Requests, CallMinimize(s)
      PROVE  IInv'
  <2>1. s \in Settings /\ pc = "idle" /\ (Begin(s) \/ Throw)
    BY <1>4, FitterAssumption DEF CallMinimize
  <2> QED
    BY <1>0, <2>1, BeginStep, ThrowStep
<1>5. ASSUME NEW s \in Requests, Fit(s)
      PROVE  IInv'
  <2>1. [s EXCEPT !.nps = nps, !.globalObs = globs] \in Settings
    BY FitterAssumption DEF IInv, TypeOK, Settings
  <2>2. pc = "idle" /\ (Throw \/ Begin([s EXCEPT !.nps = nps, !.globalObs = globs]))
    BY <1>5 DEF Fit
  <2> QED
    BY <1>0, <2>1, <2>2, BeginStep, ThrowStep
<1>6. CASE FirstAttempt
  <2>1. attempts = <<>> /\ Len(attempts) = 0
    BY <1>6 DEF FirstAttempt, IInv, Progress
  <2>2. Attempt(FirstStrategy) /\ retry' = Retries
        /\ pc' = "loop" /\ UNCHANGED <<settings, estimated>>
    BY <1>6 DEF FirstAttempt
  <2> QED
    BY <1>0, <1>t, <2>1, <2>2, AttemptStep
<1>7. CASE Retry
  <2>1. /\ Attempt(strategy + 1) /\ retry' = retry - 1 /\ retry \in 0 .. 255
        /\ pc = "loop" /\ pc' = "loop" /\ UNCHANGED <<settings, estimated>>
        /\ Failed(status)
    BY <1>7 DEF Retry, IInv, TypeOK
  <2>2. /\ attempts # <<>> /\ Last.status = status /\ Last.strategy = strategy
        /\ Len(attempts) + retry = Retries + 1
    BY <2>1 DEF IInv, Progress
  <2>3. strategy = FirstStrategy + Len(attempts) - 1
    BY <2>2, <1>l DEF IInv, RetryPolicy, Last
  <2>4. strategy + 1 = FirstStrategy + Len(attempts) /\ strategy + 1 \in Nat
    BY <2>3, <1>l, <1>t
  <2>5. Len(attempts) + 1 + retry' = Retries + 1
    BY <2>1, <2>2, <1>l, <1>t
  <2> QED
    BY <1>0, <2>1, <2>2, <2>4, <2>5, AttemptStep
<1>8. CASE RestoreStrategy
  <2>1. /\ pc = "loop" /\ pc' = "errors" /\ strategy' = FirstStrategy
        /\ lastFitStatus' = status
        /\ UNCHANGED <<settings, retry, status, estimated, attempts>>
        /\ ~ (Failed(status) /\ retry > 0)
    BY <1>8 DEF RestoreStrategy, LeavesLoop
  <2>2. /\ attempts # <<>> /\ Last.status = status
        /\ Len(attempts) + retry = Retries + 1
        /\ retry \in 0 .. 255
    BY <2>1 DEF IInv, Progress, TypeOK
  <2>3. Failed(Last.status) => Len(attempts) = Retries + 1
    BY <2>1, <2>2, <1>l, <1>t
  <2>k. Retries' = Retries /\ FirstStrategy' = FirstStrategy
    BY <2>1, BytesKept
  <2>4. RetryPolicy'
    BY <2>1, <2>2, <2>3, <2>k DEF IInv, RetryPolicy, Last
  <2>5. ErrorsAtRequestedStrategy'
    BY <2>1, <2>k DEF IInv, ErrorsAtRequestedStrategy
  <2>6. Progress'
    BY <2>1, <2>2, <2>3, <2>k DEF Progress, Last
  <2> QED
    BY <1>0, <2>4, <2>5, <2>6 DEF IInv
<1>9. CASE EstimateErrors
  <2>1. /\ pc = "errors" /\ pc' \in {"idle", "thrown"}
        /\ UNCHANGED <<members, settings, strategy, attempts>>
        /\ estimated' = estimated \/ estimated' = [sets |-> ErrorSets(settings), strategy |-> strategy]
    BY <1>9 DEF EstimateErrors
  <2>2. strategy = FirstStrategy
    BY <2>1 DEF IInv, Progress
  <2>k. Retries' = Retries /\ FirstStrategy' = FirstStrategy
    BY <2>1, BytesKept
  <2>3. ErrorsAtRequestedStrategy'
    BY <2>1, <2>2, <2>k DEF IInv, ErrorsAtRequestedStrategy
  <2>4. RetryPolicy'
    BY <2>1, <2>k DEF IInv, RetryPolicy
  <2>5. Progress'
    BY <2>1, <2>k DEF IInv, Progress, Last, members
  <2> QED
    BY <1>0, <2>3, <2>4, <2>5 DEF IInv
<1>10. CASE UNCHANGED vars
  BY <1>10, <1>0, QuietStep DEF vars, members
<1> QED
  BY <1>1, <1>2, <1>3, <1>4, <1>5, <1>6, <1>7, <1>8, <1>9, <1>10
     DEF Next, MinimizeStep

-----------------------------------------------------------------------------
\* The invariant holds in every reachable state.
THEOREM Invariance == Spec => []IInv
BY InitIInv, NextIInv, PTL DEF Spec

\* Types, whatever the owner asks for and Minuit answers.
THEOREM TypeCorrect == Spec => []TypeOK
<1>1. IInv => TypeOK
  BY DEF IInv
<1> QED
  BY <1>1, Invariance, PTL

\* The loop of Minimize keeps its policy for every number of retries.
THEOREM RetriesRight == Spec => []RetryPolicy
<1>1. IInv => RetryPolicy
  BY DEF IInv
<1> QED
  BY <1>1, Invariance, PTL

\* Errors are estimated with the strategy of the settings.
THEOREM ErrorsRight == Spec => []ErrorsAtRequestedStrategy
<1>1. IInv => ErrorsAtRequestedStrategy
  BY DEF IInv
<1> QED
  BY <1>1, Invariance, PTL

\* The status reported after a call is that of its last attempt, and a
\* failure only after all attempts have failed.
THEOREM StatusRight == Spec => []LastFitStatusIsOfThisCall
<1>1. IInv => LastFitStatusIsOfThisCall
  <2> SUFFICES ASSUME IInv, pc = "idle", attempts # <<>>
               PROVE  /\ lastFitStatus = Last.status
                      /\ Failed(lastFitStatus) =>
                           \A i \in 1 .. Len(attempts) : Failed(attempts[i].status)
    BY DEF LastFitStatusIsOfThisCall, Last
  <2>1. Len(attempts) \in Nat
    BY DEF IInv, TypeOK
  <2>2. lastFitStatus = Last.status
    BY DEF IInv, Progress
  <2>3. \A i \in 1 .. Len(attempts) - 1 : Failed(attempts[i].status)
    BY DEF IInv, RetryPolicy
  <2>4. \A i \in 1 .. Len(attempts) : i \in 1 .. Len(attempts) - 1 \/ i = Len(attempts)
    BY <2>1
  <2> QED
    BY <2>2, <2>3, <2>4 DEF Last
<1> QED
  BY <1>1, Invariance, PTL

-----------------------------------------------------------------------------
\* What a call of Minimize has left to do, at most.
InMinimize == pc \in {"minimize", "loop", "errors"}

StepsLeft ==
  CASE pc = "minimize" -> Retries + 3
    [] pc = "loop"     -> retry + 2
    [] pc = "errors"   -> 1
    [] OTHER           -> 0

EveryStepCounts == [][InMinimize => StepsLeft' < StepsLeft]_vars

\* Each step of Minimize brings it nearer to its end, and from the first one
\* it is at most 258 steps away, however Minuit fails and whatever number of
\* retries is asked for: retry is a byte that is only ever counted down.
THEOREM MinimizeDescends == Spec => [](StepsLeft \in 0 .. 258) /\ EveryStepCounts
<1>1. IInv => StepsLeft \in 0 .. 258
  <2> SUFFICES ASSUME IInv PROVE StepsLeft \in 0 .. 258
    OBVIOUS
  <2>1. Retries \in 0 .. 255 /\ retry \in 0 .. 255
    BY Bytes DEF IInv, TypeOK
  <2> QED
    BY <2>1 DEF StepsLeft
<1>2. IInv /\ [Next]_vars => (InMinimize => StepsLeft' < StepsLeft) \/ UNCHANGED vars
  <2> SUFFICES ASSUME IInv, Next, InMinimize PROVE StepsLeft' < StepsLeft
    OBVIOUS
  <2>1. Retries \in 0 .. 255 /\ retry \in 0 .. 255
    BY Bytes DEF IInv, TypeOK
  <2>2. MinimizeStep
    BY DEF Next, New, SetNpsAndGlobs, CallCreatNll, CallMinimize, Fit, InMinimize
  <2>3. CASE FirstAttempt
    BY <2>1, <2>3 DEF FirstAttempt, StepsLeft
  <2>4. CASE Retry
    BY <2>1, <2>4 DEF Retry, StepsLeft
  <2>5. CASE RestoreStrategy
    BY <2>1, <2>5 DEF RestoreStrategy, StepsLeft
  <2>6. CASE EstimateErrors
    BY <2>6 DEF EstimateErrors, StepsLeft
  <2> QED
    BY <2>2, <2>3, <2>4, <2>5, <2>6 DEF MinimizeStep
<1> QED
  BY <1>1, <1>2, Invariance, PTL DEF Spec, EveryStepCounts
=============================================================================
