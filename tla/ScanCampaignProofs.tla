-------------------------- MODULE ScanCampaignProofs --------------------------
(***************************************************************************)
(* The curves of a scan are made of good results of their own kind, proved *)
(* for every grid, every set of scripts and files, any number of failures  *)
(* and any order in which jobs write and the plotter reads.                *)
(***************************************************************************)
EXTENDS ScanCampaign, TLAPS

Contents == Results \cup {Absent, Empty, NotAResult}

\* A set of results that is not empty has a lowest one, as long as results
\* come one by one.
HasLowest(entries) ==
  entries = {} \/ \E s \in entries : \A q \in entries : s.nll_val =< q.nll_val

AllHaveLowest(results) ==
  \A poi \in POIs, kind \in Kinds : HasLowest(Entries(results, poi, kind))

\* What the plotter has kept was written by some job, and converged.
Kept(results) == \A r \in results : r \in published /\ Converged(r)

\* The inductive invariant.
IInv ==
  /\ TypeOK
  /\ pending \subseteq AllJobs /\ writing \subseteq AllJobs
  /\ \A f \in Files : dir[f] \in Results => dir[f] \in published
  /\ Kept(results1D) /\ AllHaveLowest(results1D)
  /\ CurvesHoldGoodResults

-----------------------------------------------------------------------------
(***************************************************************************)
(* Jobs and their results.                                                 *)
(***************************************************************************)

\* The point of a job of a script is a number.
LEMMA PointIsInt ==
  ASSUME NEW d \in Descriptions, ~ ReadThrows(d), ~ IsGridPointKnown(d), NEW w \in Nat
  PROVE  PointOf(d, w) \in Int
<1>1. /\ d.val \in Seq(Int) /\ d.grid \in Seq(Nat) /\ d.range \in Seq(End)
  BY PoiConfigAssumption DEF DescriptionType
<1>2. /\ CentralValue(d) \in Int /\ CentralError(d) \in Int
      /\ GridSize(d) \in Int /\ GridSize(d) >= 2
  BY <1>1, PoiConfigAssumption DEF CentralValue, CentralError, GridSize
<1>3. LowEnd(d) \in End /\ HighEnd(d) \in End
  <2>1. [unit |-> "real", amount |-> 0] \in End
    BY DEF End
  <2>2. d.range # <<>> => d.range[1] \in End
    BY <1>1
  <2>3. Len(d.range) = 2 => d.range[2] \in End
    BY <1>1
  <2> QED
    BY <2>1, <2>2, <2>3 DEF LowEnd, HighEnd
<1>4. \A e \in End : RealOf(e) \in Int /\ SigmasOf(e) \in Int
  BY DEF End, RealOf, SigmasOf
<1>5. ScanRangeLow(d) \in Int /\ ScanRangeHigh(d) \in Int
  <2> DEFINE l == LowEnd(d)
             h == HighEnd(d)
  <2>1. /\ RealOf(l) \in Int /\ SigmasOf(l) \in Int
        /\ RealOf(h) \in Int /\ SigmasOf(h) \in Int
    BY <1>3, <1>4
  <2>2. SigmasOf(l) * CentralError(d) \in Int /\ SigmasOf(h) * CentralError(d) \in Int
    BY <1>2, <2>1
  <2> QED
    BY <1>2, <2>1, <2>2 DEF ScanRangeLow, ScanRangeHigh
<1>6. GridStep(d) \in Int
  <2> DEFINE span == ScanRangeHigh(d) - ScanRangeLow(d)
             n == GridSize(d) - 1
  <2>1. span \in Int /\ n \in Int /\ n > 0
    BY <1>2, <1>5
  <2> HIDE DEF span, n
  <2>2. span \div n \in Int
    BY <2>1
  <2> QED
    BY <2>2 DEF GridStep, span, n
<1>7. w * GridStep(d) \in Int
  BY <1>6
<1> QED
  BY <1>5, <1>7 DEF PointOf, PointAtGrid

\* What the jobs of the scripts are.
LEMMA JobTypes ==
  ASSUME NEW job \in AllJobs
  PROVE  /\ job \in Jobs
         /\ FileName(job) \in Files
         /\ PointOf(job.description, job.worker_id) \in Int
         /\ Likelihoods(job) \subseteq Int
<1>1. PICK script \in Scripts : job \in JobsOf(script)
  BY DEF AllJobs
<1>2. /\ script \in ScriptType
      /\ ~ ReadThrows(script.description) /\ ~ IsGridPointKnown(script.description)
      /\ Likelihoods(job) \subseteq Int
  BY ScanCampaignAssumption
<1>3. /\ script.pois \subseteq POIs /\ script.stat_only \subseteq BOOLEAN
      /\ script.prePostFit \subseteq StudyTypes /\ script.description \in Descriptions
  BY <1>2 DEF ScriptType
<1>4. GridSize(script.description) \in Int
  BY <1>3, PoiConfigAssumption DEF DescriptionType, GridSize
<1>5. 0 .. GridSize(script.description) \subseteq Nat
  BY <1>4
<1>6. /\ job \in [poi : POIs, stat_only : BOOLEAN, prePostFit : StudyTypes,
                  description : Descriptions, worker_id : Nat]
      /\ job.description = script.description /\ job.worker_id \in Nat
  BY <1>1, <1>3, <1>5 DEF JobsOf
<1>7. PointOf(job.description, job.worker_id) \in Int
  BY <1>2, <1>3, <1>6, PointIsInt
<1> QED
  BY <1>2, <1>6, <1>7 DEF Jobs, Files

LEMMA JobsOfScript ==
  ASSUME NEW script \in Scripts
  PROVE  JobsOf(script) \subseteq AllJobs
BY DEF AllJobs

\* A job writes a result.
LEMMA ResultType ==
  ASSUME NEW job \in AllJobs, NEW nll_val \in Likelihoods(job) \cup {0},
         NEW status \in Statuses
  PROVE  ResultOf(job, nll_val, status) \in Results
<1>1. job \in Jobs /\ PointOf(job.description, job.worker_id) \in Int /\ nll_val \in Int
  BY JobTypes
<1> QED
  BY <1>1 DEF Jobs, Results, ResultOf

-----------------------------------------------------------------------------
(***************************************************************************)
(* What the plotter makes of results.                                      *)
(***************************************************************************)

\* A result that comes in leaves each kind of entries with a lowest one.
LEMMA InsertHasLowest ==
  ASSUME NEW results, \A s \in results : s \in Results, AllHaveLowest(results),
         NEW r \in Results
  PROVE  AllHaveLowest(results \cup {r})
<1> SUFFICES ASSUME NEW poi \in POIs, NEW kind \in Kinds
             PROVE  HasLowest(Entries(results \cup {r}, poi, kind))
  BY DEF AllHaveLowest
<1> DEFINE before == Entries(results, poi, kind)
           after == Entries(results \cup {r}, poi, kind)
<1>1. HasLowest(before)
  BY DEF AllHaveLowest
<1>2. \A s \in before : s \in Results /\ s.nll_val \in Int
  BY DEF Entries, Results
<1>3. r.nll_val \in Int
  BY DEF Results
<1>4. after = before \/ after = before \cup {r}
  BY DEF Entries
<1> SUFFICES HasLowest(after)
  OBVIOUS
<1> HIDE DEF before, after
<1>5. CASE after = before
  BY <1>1, <1>5
<1>6. CASE after = before \cup {r}
  <2>1. CASE before = {}
    <3>1. after = {r} /\ r.nll_val =< r.nll_val
      BY <1>3, <1>6, <2>1
    <3> QED
      BY <3>1 DEF HasLowest
  <2>2. CASE before # {}
    <3>1. PICK s \in before : \A q \in before : s.nll_val =< q.nll_val
      BY <1>1, <2>2 DEF HasLowest
    <3>2. CASE s.nll_val =< r.nll_val
      BY <1>6, <3>1, <3>2 DEF HasLowest
    <3>3. CASE ~ s.nll_val =< r.nll_val
      <4>1. \A q \in before : r.nll_val =< q.nll_val
        BY <1>2, <1>3, <3>1, <3>3
      <4> QED
        <5>1. r \in after /\ \A q \in after : r.nll_val =< q.nll_val
          BY <1>3, <1>6, <4>1
        <5> QED
          BY <5>1 DEF HasLowest
    <3> QED
      BY <3>2, <3>3
  <2> QED
    BY <2>1, <2>2
<1> QED
  BY <1>4, <1>5, <1>6

\* RegisterRes keeps what was kept, and may add the new result if its fit
\* converged.
LEMMA RegisterPoint ==
  ASSUME NEW results, NEW r
  PROVE  \/ RegisterRes(results, r) = results
         \/ RegisterRes(results, r) = results \cup {r} /\ Converged(r)
BY DEF RegisterRes, Insert

\* The heights of a curve are differences to its lowest entry.
LEMMA PreparePoint ==
  ASSUME NEW entries, \A s \in entries : s \in Results, HasLowest(entries)
  PROVE  entries # {} =>
           \E lowest \in entries :
             /\ [mu |-> lowest.value, dnll |-> 0] \in PrepareMuNllValues(entries)
             /\ \A p \in PrepareMuNllValues(entries) :
                  /\ p.dnll >= 0
                  /\ \E r \in entries : r.value = p.mu /\ r.nll_val - lowest.nll_val = p.dnll
<1> SUFFICES ASSUME entries # {}
             PROVE  \E lowest \in entries :
                      /\ [mu |-> lowest.value, dnll |-> 0]
                           \in PrepareMuNllValues(entries)
                      /\ \A p \in PrepareMuNllValues(entries) :
                           /\ p.dnll >= 0
                           /\ \E r \in entries :
                                r.value = p.mu /\ r.nll_val - lowest.nll_val = p.dnll
  OBVIOUS
<1> DEFINE lowest == CHOOSE s \in entries : \A q \in entries : s.nll_val =< q.nll_val
<1>1. lowest \in entries /\ \A q \in entries : lowest.nll_val =< q.nll_val
  BY DEF HasLowest
<1>2. \A q \in entries : q.nll_val \in Int
  BY DEF Results
<1>3. PrepareMuNllValues(entries)
        = {[mu |-> r.value, dnll |-> r.nll_val - lowest.nll_val] : r \in entries}
  BY DEF PrepareMuNllValues
<1> HIDE DEF lowest
<1>4. ASSUME NEW p \in PrepareMuNllValues(entries)
      PROVE  /\ p.dnll >= 0
             /\ \E r \in entries : r.value = p.mu /\ r.nll_val - lowest.nll_val = p.dnll
  <2>1. PICK r \in entries : p = [mu |-> r.value, dnll |-> r.nll_val - lowest.nll_val]
    BY <1>3
  <2>2. r.nll_val - lowest.nll_val >= 0
    BY <1>1, <1>2
  <2> QED
    BY <2>1, <2>2
<1>5. [mu |-> lowest.value, dnll |-> 0] \in PrepareMuNllValues(entries)
  <2>1. lowest.nll_val - lowest.nll_val = 0
    BY <1>1, <1>2
  <2> QED
    BY <1>1, <1>3, <2>1
<1> QED
  BY <1>1, <1>4, <1>5

-----------------------------------------------------------------------------
(***************************************************************************)
(* Every step keeps the inductive invariant.                               *)
(***************************************************************************)

\* Results that are published stay published, so a curve that was good is.
LEMMA CurvesStayGood ==
  ASSUME CurvesHoldGoodResults, plotter' = plotter, askedPoi' = askedPoi,
         curves' = curves, published \subseteq published'
  PROVE  CurvesHoldGoodResults'
BY DEF CurvesHoldGoodResults

\* The directory with one file changed.
LEMMA DirPoint ==
  ASSUME TypeOK, NEW name \in Files, NEW content \in Contents,
         dir' = [dir EXCEPT ![name] = content]
  PROVE  /\ DOMAIN dir' = Files
         /\ dir'[name] = content
         /\ \A f \in Files : f # name => dir'[f] = dir[f]
         /\ \A f \in Files : dir'[f] \in Contents
<1>1. DOMAIN dir = Files /\ \A f \in Files : dir[f] \in Contents
  BY DEF TypeOK, Contents
<1>2. /\ DOMAIN dir' = Files
      /\ \A f \in Files : dir'[f] = IF f = name THEN content ELSE dir[f]
  BY <1>1, Zenon
<1> QED
  BY <1>1, <1>2

LEMMA InitIInv == Init => IInv
<1> SUFFICES ASSUME Init PROVE IInv
  OBVIOUS
<1>1. /\ pending = {} /\ writing = {} /\ failures = 0 /\ submissions = 0
      /\ plotter = "idle" /\ askedPoi = NoPoi /\ atStart = dir
      /\ seen = {} /\ results1D = {} /\ curves = NoCurves /\ touched = {}
      /\ published = {OldContent(f) : f \in OldFiles} \cap Results
      /\ dir = [f \in Files |-> IF f \in OldFiles THEN OldContent(f) ELSE Absent]
  BY DEF Init
<1>2. /\ DOMAIN dir = Files
      /\ \A f \in Files : dir[f] = IF f \in OldFiles THEN OldContent(f) ELSE Absent
  BY <1>1
<1>3. ASSUME NEW f \in Files
      PROVE  dir[f] \in Contents /\ (dir[f] \in Results => dir[f] \in published)
  <2>1. CASE f \in OldFiles
    <3>1. dir[f] = OldContent(f) /\ OldContent(f) \in Results \cup {NotAResult}
      BY <1>2, <2>1, ScanCampaignAssumption
    <3> QED
      BY <1>1, <2>1, <3>1 DEF Contents
  <2>2. CASE f \notin OldFiles
    BY <1>2, <2>2, ScanCampaignAssumption DEF Contents
  <2> QED
    BY <2>1, <2>2
<1>4. \A r \in results1D \cup published : r \in Results
  BY <1>1
<1>5. DOMAIN curves = Kinds
  BY <1>1 DEF NoCurves
<1>6. MaxFailures \in Nat /\ MaxSubmissions \in Nat
  BY ScanCampaignAssumption
<1>7. failures \in 0 .. MaxFailures /\ submissions \in 0 .. MaxSubmissions
  BY <1>1, <1>6
<1>8. TypeOK
  BY <1>1, <1>2, <1>3, <1>4, <1>5, <1>7 DEF TypeOK, Contents
<1>9. Kept(results1D) /\ AllHaveLowest(results1D)
  BY <1>1 DEF Kept, AllHaveLowest, HasLowest, Entries
<1>10. CurvesHoldGoodResults
  BY <1>1 DEF CurvesHoldGoodResults
<1> QED
  BY <1>1, <1>3, <1>8, <1>9, <1>10 DEF IInv

LEMMA SubmitKeeps ==
  ASSUME IInv, NEW script \in Scripts, Submit(script)
  PROVE  IInv'
<1>1. /\ submissions < MaxSubmissions /\ submissions' = submissions + 1
      /\ pending' = JobsOf(script)
      /\ UNCHANGED <<writing, dir, failures, published, plotterVars, touched>>
  BY DEF Submit
<1>2. pending' \subseteq AllJobs
  BY <1>1, JobsOfScript
<1>3. pending' \subseteq Jobs
  BY <1>2, JobTypes
<1>4. submissions' \in 0 .. MaxSubmissions
  BY <1>1, ScanCampaignAssumption DEF IInv, TypeOK
<1>5. TypeOK'
  BY <1>1, <1>3, <1>4 DEF IInv, TypeOK, plotterVars
<1>6. CurvesHoldGoodResults'
  BY <1>1, CurvesStayGood DEF IInv, plotterVars
<1> QED
  BY <1>1, <1>2, <1>5, <1>6 DEF IInv, plotterVars, Kept

\* OpenFile and the failures leave what the plotter has, and what was
\* published.
LEMMA OpenFileKeeps ==
  ASSUME IInv, NEW job \in pending, OpenFile(job)
  PROVE  IInv'
<1>1. /\ pending' = pending \ {job} /\ writing' = writing \cup {job}
      /\ dir' = [dir EXCEPT ![FileName(job)] = Empty]
      /\ touched' = touched \cup {FileName(job)}
      /\ UNCHANGED <<failures, published, submissions, plotterVars>>
  BY DEF OpenFile
<1>2. job \in AllJobs /\ job \in Jobs /\ FileName(job) \in Files /\ TypeOK
  BY JobTypes DEF IInv
<1>3. Empty \in Contents /\ Empty \notin Results
  BY ScanCampaignAssumption DEF Contents
<1>4. /\ DOMAIN dir' = Files
      /\ dir'[FileName(job)] = Empty
      /\ \A f \in Files : f # FileName(job) => dir'[f] = dir[f]
      /\ \A f \in Files : dir'[f] \in Contents
  BY <1>1, <1>2, <1>3, DirPoint
<1>5. TypeOK'
  BY <1>1, <1>2, <1>4 DEF TypeOK, Contents, plotterVars
<1>6. \A f \in Files : dir'[f] \in Results => dir'[f] \in published'
  BY <1>1, <1>3, <1>4 DEF IInv
<1>7. CurvesHoldGoodResults'
  BY <1>1, CurvesStayGood DEF IInv, plotterVars
<1> QED
  BY <1>1, <1>2, <1>5, <1>6, <1>7 DEF IInv, plotterVars, Kept

LEMMA WriteFileKeeps ==
  ASSUME IInv, NEW job \in writing, WriteFile(job)
  PROVE  IInv'
<1>1. PICK nll_val \in Likelihoods(job) \cup {0}, status \in Statuses :
        LET result == ResultOf(job, nll_val, status)
        IN /\ \/ /\ Converged(result)
                 /\ UNCHANGED failures
              \/ /\ ~ Converged(result)
                 /\ failures < MaxFailures
                 /\ failures' = failures + 1
           /\ dir' = [dir EXCEPT ![FileName(job)] = result]
           /\ published' = published \cup {result}
  BY DEF WriteFile
<1> DEFINE result == ResultOf(job, nll_val, status)
<1>2. /\ \/ failures' = failures
         \/ failures < MaxFailures /\ failures' = failures + 1
      /\ dir' = [dir EXCEPT ![FileName(job)] = result]
      /\ published' = published \cup {result}
  BY <1>1
<1>3. /\ writing' = writing \ {job}
      /\ UNCHANGED <<pending, submissions, plotterVars, touched>>
  BY DEF WriteFile
<1>4. job \in AllJobs /\ FileName(job) \in Files /\ TypeOK
  BY JobTypes DEF IInv
<1>5. result \in Results
  BY <1>4, ResultType
<1> HIDE DEF result
<1>6. /\ DOMAIN dir' = Files
      /\ dir'[FileName(job)] = result
      /\ \A f \in Files : f # FileName(job) => dir'[f] = dir[f]
      /\ \A f \in Files : dir'[f] \in Contents
  BY <1>2, <1>4, <1>5, DirPoint DEF Contents
<1>7. failures' \in 0 .. MaxFailures
  BY <1>2, <1>4, ScanCampaignAssumption DEF TypeOK
<1>8. \A r \in results1D' \cup published' : r \in Results
  BY <1>2, <1>3, <1>4, <1>5 DEF TypeOK, plotterVars
<1>9. TypeOK'
  BY <1>3, <1>4, <1>6, <1>7, <1>8 DEF TypeOK, Contents, plotterVars
<1>10. \A f \in Files : dir'[f] \in Results => dir'[f] \in published'
  BY <1>2, <1>6 DEF IInv
<1>11. CurvesHoldGoodResults'
  BY <1>2, <1>3, CurvesStayGood DEF IInv, plotterVars
<1>12. Kept(results1D)'
  BY <1>2, <1>3 DEF IInv, Kept, plotterVars
<1>13. AllHaveLowest(results1D)'
  BY <1>3 DEF IInv, AllHaveLowest, plotterVars
<1> QED
  BY <1>3, <1>9, <1>10, <1>11, <1>12, <1>13 DEF IInv

LEMMA FailBeforeOpenKeeps ==
  ASSUME IInv, NEW job \in pending, FailBeforeOpen(job)
  PROVE  IInv'
<1>1. /\ failures < MaxFailures /\ failures' = failures + 1
      /\ pending' = pending \ {job}
      /\ UNCHANGED <<writing, dir, published, submissions, plotterVars, touched>>
  BY DEF FailBeforeOpen
<1>2. failures' \in 0 .. MaxFailures
  BY <1>1, ScanCampaignAssumption DEF IInv, TypeOK
<1>3. TypeOK'
  BY <1>1, <1>2 DEF IInv, TypeOK, plotterVars
<1>4. CurvesHoldGoodResults'
  BY <1>1, CurvesStayGood DEF IInv, plotterVars
<1> QED
  BY <1>1, <1>3, <1>4 DEF IInv, plotterVars, Kept

LEMMA FailToWriteKeeps ==
  ASSUME IInv, NEW job \in writing, FailToWrite(job)
  PROVE  IInv'
<1>1. /\ failures < MaxFailures /\ failures' = failures + 1
      /\ writing' = writing \ {job}
      /\ UNCHANGED <<pending, dir, published, submissions, plotterVars, touched>>
  BY DEF FailToWrite
<1>2. failures' \in 0 .. MaxFailures
  BY <1>1, ScanCampaignAssumption DEF IInv, TypeOK
<1>3. TypeOK'
  BY <1>1, <1>2 DEF IInv, TypeOK, plotterVars
<1>4. CurvesHoldGoodResults'
  BY <1>1, CurvesStayGood DEF IInv, plotterVars
<1> QED
  BY <1>1, <1>3, <1>4 DEF IInv, plotterVars, Kept

LEMMA PlotKeeps ==
  ASSUME IInv, NEW poi \in ScannedPois, Plot(poi)
  PROVE  IInv'
<1>1. /\ plotter' = "reading" /\ askedPoi' = poi
      /\ seen' = {} /\ results1D' = {} /\ curves' = NoCurves
      /\ atStart' = dir /\ touched' = {}
      /\ UNCHANGED <<pending, writing, dir, failures, published, submissions>>
  BY DEF Plot, StartPlot, jobVars
<1>2. poi \in POIs
  BY ScanCampaignAssumption DEF ScannedPois, ScriptType
<1>3. DOMAIN curves' = Kinds
  BY <1>1 DEF NoCurves
<1>4. TypeOK'
  BY <1>1, <1>2, <1>3 DEF IInv, TypeOK
<1>5. Kept(results1D)' /\ AllHaveLowest(results1D)'
  BY <1>1 DEF Kept, AllHaveLowest, HasLowest, Entries
<1>6. CurvesHoldGoodResults'
  BY <1>1 DEF CurvesHoldGoodResults
<1> QED
  BY <1>1, <1>4, <1>5, <1>6 DEF IInv

LEMMA ReadFileKeeps ==
  ASSUME IInv, NEW f \in Files, ReadFile(f)
  PROVE  IInv'
<1>1. /\ plotter = "reading" /\ seen' = seen \cup {f}
      /\ plotter' \in {"reading", "aborted"}
      /\ UNCHANGED <<pending, writing, dir, failures, published, submissions,
                     askedPoi, curves, atStart, touched>>
  BY DEF ReadFile, jobVars
<1>2. \/ results1D' = results1D
      \/ dir[f] \in Results /\ results1D' = RegisterRes(results1D, dir[f])
  <2>1. dir[f] \in Results \cup {Absent, Empty, NotAResult} /\ dir[f] # Absent
    BY DEF IInv, TypeOK, ReadFile
  <2>2. CASE dir[f] \in {Empty, NotAResult}
    BY <2>2 DEF ReadFile
  <2>3. CASE dir[f] \in Results
    BY <2>3, ScanCampaignAssumption DEF ReadFile
  <2> QED
    BY <2>1, <2>2, <2>3
<1>3. /\ TypeOK /\ Kept(results1D) /\ AllHaveLowest(results1D)
      /\ \A s \in results1D : s \in Results
  BY DEF IInv, TypeOK
<1>4. \/ results1D' = results1D
      \/ /\ dir[f] \in Results /\ Converged(dir[f])
         /\ results1D' = results1D \cup {dir[f]}
  BY <1>2, RegisterPoint
<1>5. dir[f] \in Results => dir[f] \in published
  BY DEF IInv
<1>6. AllHaveLowest(results1D')
  <2>1. CASE results1D' = results1D
    BY <1>3, <2>1
  <2>2. CASE dir[f] \in Results /\ results1D' = results1D \cup {dir[f]}
    BY <1>3, <2>2, InsertHasLowest
  <2> QED
    BY <1>4, <2>1, <2>2
<1>7. AllHaveLowest(results1D)'
  BY <1>6 DEF AllHaveLowest
<1>8. Kept(results1D)'
  BY <1>1, <1>3, <1>4, <1>5 DEF Kept
<1>9. \A r \in results1D' \cup published' : r \in Results
  BY <1>1, <1>3, <1>4 DEF TypeOK
<1>10. askedPoi' \in IF plotter' = "idle" THEN {NoPoi} ELSE POIs
  BY <1>1, <1>3 DEF TypeOK
<1>11. TypeOK'
  BY <1>1, <1>3, <1>9, <1>10 DEF TypeOK
<1>12. CurvesHoldGoodResults'
  BY <1>1 DEF CurvesHoldGoodResults
<1> QED
  BY <1>1, <1>7, <1>8, <1>11, <1>12 DEF IInv

LEMMA PlotNll1DKeeps == ASSUME IInv, PlotNll1D PROVE IInv'
<1>1. /\ plotter = "reading" /\ plotter' = "drawn"
      /\ curves' = [k \in Kinds |-> PrepareMuNllValues(Entries(results1D, askedPoi, k))]
      /\ UNCHANGED <<pending, writing, dir, failures, published, submissions,
                     askedPoi, seen, results1D, atStart, touched>>
  BY DEF PlotNll1D, jobVars
<1>2. /\ TypeOK /\ Kept(results1D) /\ AllHaveLowest(results1D)
      /\ \A s \in results1D : s \in Results
      /\ askedPoi \in POIs
  BY <1>1 DEF IInv, TypeOK
<1>3. DOMAIN curves' = Kinds
  BY <1>1
<1>4. TypeOK'
  BY <1>1, <1>2, <1>3 DEF TypeOK
<1>5. ASSUME NEW kind \in Kinds, curves'[kind] # {}
      PROVE  /\ \A p \in curves'[kind] : p.dnll >= 0
             /\ \E lowest \in published' :
                  /\ [mu |-> lowest.value, dnll |-> 0] \in curves'[kind]
                  /\ \A p \in curves'[kind] : \E r \in published' :
                       /\ Converged(r) /\ r.poi = askedPoi' /\ KindOf(r) = kind
                       /\ r.value = p.mu /\ r.nll_val - lowest.nll_val = p.dnll
  <2> DEFINE entries == Entries(results1D, askedPoi, kind)
  <2>1. curves'[kind] = PrepareMuNllValues(entries)
    BY <1>1
  <2>2. \A r \in entries :
          /\ r \in Results /\ r \in published /\ Converged(r)
          /\ r.poi = askedPoi /\ KindOf(r) = kind
    BY <1>2 DEF Entries, Kept
  <2>3. HasLowest(entries)
    BY <1>2 DEF AllHaveLowest
  <2> HIDE DEF entries
  <2>4. entries # {}
    BY <1>5, <2>1 DEF PrepareMuNllValues
  <2>5. PICK lowest \in entries :
          /\ [mu |-> lowest.value, dnll |-> 0] \in PrepareMuNllValues(entries)
          /\ \A p \in PrepareMuNllValues(entries) :
               /\ p.dnll >= 0
               /\ \E r \in entries : r.value = p.mu /\ r.nll_val - lowest.nll_val = p.dnll
    BY <2>2, <2>3, <2>4, PreparePoint
  <2> QED
    BY <1>1, <2>1, <2>2, <2>5
<1>6. CurvesHoldGoodResults'
  BY <1>5 DEF CurvesHoldGoodResults
<1>7. AllHaveLowest(results1D)' /\ Kept(results1D)'
  BY <1>1, <1>2 DEF AllHaveLowest, Kept
<1> QED
  BY <1>1, <1>4, <1>6, <1>7 DEF IInv

LEMMA StutterKeeps == ASSUME IInv, UNCHANGED vars PROVE IInv'
<1>1. UNCHANGED <<pending, writing, dir, failures, published, submissions, plotter,
                  askedPoi, seen, results1D, curves, atStart, touched>>
  BY DEF vars, jobVars, plotterVars
<1>2. TypeOK'
  BY <1>1 DEF IInv, TypeOK
<1>3. CurvesHoldGoodResults'
  BY <1>1, CurvesStayGood DEF IInv
<1> QED
  BY <1>1, <1>2, <1>3 DEF IInv, Kept, AllHaveLowest

THEOREM ScanInvariance == Spec => []IInv
<1>1. Init => IInv
  BY InitIInv
<1>2. IInv /\ [Next]_vars => IInv'
  BY SubmitKeeps, OpenFileKeeps, WriteFileKeeps, FailBeforeOpenKeeps, FailToWriteKeeps,
     PlotKeeps, ReadFileKeeps, PlotNll1DKeeps, StutterKeeps
  DEF Next, JobStep, PlotterStep
<1> QED
  BY <1>1, <1>2, PTL DEF Spec

-----------------------------------------------------------------------------
\* The variables of a scan and of its plot have their types.
THEOREM TypeCorrect == Spec => []TypeOK
<1>1. IInv => TypeOK
  BY DEF IInv
<1> QED
  BY <1>1, ScanInvariance, PTL

\* Each curve is made of results of its own POI and kind whose fits have
\* converged, measured from the lowest of them.
THEOREM CurvesAreGood == Spec => []CurvesHoldGoodResults
<1>1. IInv => CurvesHoldGoodResults
  BY DEF IInv
<1> QED
  BY <1>1, ScanInvariance, PTL

-----------------------------------------------------------------------------
(***************************************************************************)
(* Good points are drawn: no result that lies in the directory is lost on  *)
(* its way to a curve.                                                     *)
(***************************************************************************)

\* No two jobs that are on their way share a file.
OwnFiles ==
  \A j, k \in pending \cup writing : FileName(j) = FileName(k) => j = k

\* A file that is being written is empty.
WritingEmpty == \A job \in writing : dir[FileName(job)] = Empty

\* A result that was there when the plotter began, and that no job has
\* opened since, is still there, and was published.
StillThere ==
  \A f \in Files :
    atStart[f] \in Results =>
      /\ atStart[f] \in published
      /\ f \notin touched => dir[f] = atStart[f]

\* What has been read of such results, or a twin, is kept.
ReadAndKept(f) ==
  f \notin touched /\ atStart[f] \in Results /\ Converged(atStart[f]) =>
    \E s \in results1D : AreTwins(atStart[f], s)

DrawnInv ==
  /\ OwnFiles /\ WritingEmpty /\ StillThere
  /\ plotter = "reading" => \A f \in seen : ReadAndKept(f)
  /\ GoodPointsAreDrawn

\* Of the jobs of one script no two share a file.
LEMMA OwnFilesOfScript ==
  ASSUME NEW script \in Scripts, NEW j \in JobsOf(script), NEW k \in JobsOf(script),
         FileName(j) = FileName(k)
  PROVE  j = k
<1>1. /\ j.description = script.description /\ k.description = script.description
      /\ j = [poi |-> j.poi, stat_only |-> j.stat_only, prePostFit |-> j.prePostFit,
              description |-> j.description, worker_id |-> j.worker_id]
      /\ k = [poi |-> k.poi, stat_only |-> k.stat_only, prePostFit |-> k.prePostFit,
              description |-> k.description, worker_id |-> k.worker_id]
  BY DEF JobsOf
<1>2. /\ j.poi = k.poi /\ j.stat_only = k.stat_only /\ j.prePostFit = k.prePostFit
      /\ j.worker_id = k.worker_id
  BY DEF FileName
<1> QED
  BY <1>1, <1>2

\* What is shown goes on being shown while the plot stays as it is.
LEMMA ShownStays ==
  ASSUME GoodPointsAreDrawn, plotter' = plotter, askedPoi' = askedPoi,
         curves' = curves, results1D' = results1D, atStart' = atStart,
         published \subseteq published', touched \subseteq touched'
  PROVE  GoodPointsAreDrawn'
<1>1. ASSUME NEW poi, NEW kind, NEW value, IsShown(poi, kind, value)
      PROVE  IsShown(poi, kind, value)'
  BY <1>1 DEF IsShown
<1>2. ASSUME NEW f \in Files, plotter = "drawn",
             atStart[f] \in Results, f \notin touched, Converged(atStart[f]),
             atStart[f].poi = askedPoi
      PROVE  IsShown(askedPoi, KindOf(atStart[f]), atStart[f].value)'
  BY <1>1, <1>2 DEF GoodPointsAreDrawn
<1> QED
  BY <1>2 DEF GoodPointsAreDrawn

\* The steps of jobs and of the user let the plotter be.
LEMMA PlotterUntouched ==
  ASSUME DrawnInv, UNCHANGED plotterVars,
         published \subseteq published', touched \subseteq touched'
  PROVE  /\ plotter' = "reading" => \A f \in seen' : ReadAndKept(f)'
         /\ GoodPointsAreDrawn'
<1>1. /\ plotter' = plotter /\ askedPoi' = askedPoi /\ seen' = seen
      /\ results1D' = results1D /\ curves' = curves /\ atStart' = atStart
  BY DEF plotterVars
<1>2. ASSUME plotter = "reading", NEW f \in seen
      PROVE  ReadAndKept(f)'
  BY <1>1, <1>2 DEF DrawnInv, ReadAndKept
<1>3. GoodPointsAreDrawn'
  BY <1>1, ShownStays DEF DrawnInv
<1> QED
  BY <1>1, <1>2, <1>3

LEMMA InitDrawnInv == Init => DrawnInv
<1> SUFFICES ASSUME Init PROVE DrawnInv
  OBVIOUS
<1>1. IInv
  BY InitIInv
<1>2. /\ pending = {} /\ writing = {} /\ plotter = "idle" /\ atStart = dir
  BY DEF Init
<1>3. StillThere
  BY <1>1, <1>2 DEF IInv, StillThere
<1> QED
  BY <1>2, <1>3 DEF DrawnInv, OwnFiles, WritingEmpty, GoodPointsAreDrawn

LEMMA SubmitDraws ==
  ASSUME IInv, DrawnInv, NEW script \in Scripts, Submit(script)
  PROVE  DrawnInv'
<1>1. /\ writing = {} /\ writing' = writing /\ pending' = JobsOf(script)
      /\ UNCHANGED <<dir, published, touched>> /\ UNCHANGED plotterVars
  BY DEF Submit
<1>2. OwnFiles'
  BY <1>1, OwnFilesOfScript DEF OwnFiles
<1>3. WritingEmpty' /\ StillThere'
  BY <1>1 DEF DrawnInv, WritingEmpty, StillThere, plotterVars
<1>4. /\ plotter' = "reading" => \A f \in seen' : ReadAndKept(f)'
      /\ GoodPointsAreDrawn'
  BY <1>1, PlotterUntouched
<1> QED
  BY <1>2, <1>3, <1>4 DEF DrawnInv

LEMMA OpenFileDraws ==
  ASSUME IInv, DrawnInv, NEW job \in pending, OpenFile(job)
  PROVE  DrawnInv'
<1>1. /\ pending' = pending \ {job} /\ writing' = writing \cup {job}
      /\ dir' = [dir EXCEPT ![FileName(job)] = Empty]
      /\ touched' = touched \cup {FileName(job)}
      /\ published' = published /\ UNCHANGED plotterVars
  BY DEF OpenFile
<1>2. FileName(job) \in Files /\ TypeOK /\ Empty \in Contents
  BY JobTypes DEF IInv, Contents
<1>3. /\ dir'[FileName(job)] = Empty
      /\ \A f \in Files : f # FileName(job) => dir'[f] = dir[f]
  BY <1>1, <1>2, DirPoint
<1>4. OwnFiles'
  BY <1>1 DEF DrawnInv, OwnFiles
<1>5. WritingEmpty'
  <2>1. \A k \in writing : FileName(k) \in Files /\ dir[FileName(k)] = Empty
    BY JobTypes DEF IInv, DrawnInv, WritingEmpty
  <2>2. \A k \in writing : dir'[FileName(k)] = Empty
    BY <1>3, <2>1
  <2> QED
    BY <1>1, <1>3, <2>2 DEF WritingEmpty
<1>6. StillThere'
  <2>1. atStart' = atStart
    BY <1>1 DEF plotterVars
  <2> QED
    BY <1>1, <1>3, <2>1 DEF DrawnInv, StillThere
<1>7. /\ plotter' = "reading" => \A f \in seen' : ReadAndKept(f)'
      /\ GoodPointsAreDrawn'
  BY <1>1, PlotterUntouched
<1> QED
  BY <1>4, <1>5, <1>6, <1>7 DEF DrawnInv

LEMMA WriteFileDraws ==
  ASSUME IInv, DrawnInv, NEW job \in writing, WriteFile(job)
  PROVE  DrawnInv'
<1>1. PICK nll_val \in Likelihoods(job) \cup {0}, status \in Statuses :
        /\ dir' = [dir EXCEPT ![FileName(job)] = ResultOf(job, nll_val, status)]
        /\ published' = published \cup {ResultOf(job, nll_val, status)}
  BY DEF WriteFile
<1>2. /\ writing' = writing \ {job} /\ pending' = pending /\ touched' = touched
      /\ UNCHANGED plotterVars
  BY DEF WriteFile
<1>3. job \in AllJobs /\ FileName(job) \in Files /\ TypeOK
  BY JobTypes DEF IInv
<1> DEFINE result == ResultOf(job, nll_val, status)
<1>4. result \in Contents
  BY <1>3, ResultType DEF Contents
<1> HIDE DEF result
<1>5. \A f \in Files : f # FileName(job) => dir'[f] = dir[f]
  BY <1>1, <1>3, <1>4, DirPoint DEF result
<1>6. OwnFiles'
  BY <1>2 DEF DrawnInv, OwnFiles
<1>7. WritingEmpty'
  <2>1. ASSUME NEW k \in writing, k # job
        PROVE  dir'[FileName(k)] = Empty
    <3>1. FileName(k) \in Files /\ dir[FileName(k)] = Empty
      BY JobTypes DEF IInv, DrawnInv, WritingEmpty
    <3>2. FileName(k) # FileName(job)
      BY <2>1 DEF DrawnInv, OwnFiles
    <3> QED
      BY <1>5, <3>1, <3>2
  <2> QED
    BY <1>2, <2>1 DEF WritingEmpty
<1>8. StillThere'
  <2>1. dir[FileName(job)] \notin Results
    BY ScanCampaignAssumption DEF DrawnInv, WritingEmpty
  <2>2. atStart' = atStart /\ published \subseteq published'
    BY <1>1, <1>2 DEF plotterVars
  <2>3. ASSUME NEW f \in Files, atStart[f] \in Results
        PROVE  atStart[f] \in published' /\ (f \notin touched => dir'[f] = atStart[f])
    <3>1. atStart[f] \in published /\ (f \notin touched => dir[f] = atStart[f])
      BY <2>3 DEF DrawnInv, StillThere
    <3>2. f \notin touched => f # FileName(job)
      BY <2>1, <2>3, <3>1
    <3> QED
      BY <1>5, <2>2, <3>1, <3>2
  <2> QED
    BY <1>2, <2>2, <2>3 DEF StillThere
<1>9. /\ plotter' = "reading" => \A f \in seen' : ReadAndKept(f)'
      /\ GoodPointsAreDrawn'
  BY <1>1, <1>2, PlotterUntouched
<1> QED
  BY <1>6, <1>7, <1>8, <1>9 DEF DrawnInv

\* A job that fails leaves its file as it is.
LEMMA FailureDraws ==
  ASSUME IInv, DrawnInv, pending' \subseteq pending, writing' \subseteq writing,
         UNCHANGED <<dir, published, touched>>, UNCHANGED plotterVars
  PROVE  DrawnInv'
<1>1. OwnFiles' /\ WritingEmpty'
  BY DEF DrawnInv, OwnFiles, WritingEmpty
<1>2. StillThere'
  BY DEF DrawnInv, StillThere, plotterVars
<1>3. /\ plotter' = "reading" => \A f \in seen' : ReadAndKept(f)'
      /\ GoodPointsAreDrawn'
  BY PlotterUntouched
<1> QED
  BY <1>1, <1>2, <1>3 DEF DrawnInv

LEMMA PlotDraws ==
  ASSUME IInv, DrawnInv, NEW poi \in ScannedPois, Plot(poi)
  PROVE  DrawnInv'
<1>1. /\ plotter' = "reading" /\ seen' = {} /\ atStart' = dir
      /\ UNCHANGED <<pending, writing, dir, published>>
  BY DEF Plot, StartPlot, jobVars
<1>2. OwnFiles' /\ WritingEmpty'
  BY <1>1 DEF DrawnInv, OwnFiles, WritingEmpty
<1>3. StillThere'
  BY <1>1 DEF IInv, StillThere
<1> QED
  BY <1>1, <1>2, <1>3 DEF DrawnInv, GoodPointsAreDrawn

\* A converged result that comes in finds its twin or is added.
LEMMA InsertedOrTwin ==
  ASSUME NEW results, NEW r, Converged(r)
  PROVE  /\ results \subseteq RegisterRes(results, r)
         /\ \E s \in RegisterRes(results, r) : AreTwins(r, s)
BY DEF RegisterRes, Insert, AreTwins

LEMMA ReadFileDraws ==
  ASSUME IInv, DrawnInv, NEW f \in Files, ReadFile(f)
  PROVE  DrawnInv'
<1>1. /\ plotter = "reading" /\ seen' = seen \cup {f}
      /\ plotter' \in {"reading", "aborted"}
      /\ UNCHANGED <<pending, writing, dir, published, atStart, touched>>
  BY DEF ReadFile, jobVars
<1>2. OwnFiles' /\ WritingEmpty' /\ StillThere'
  BY <1>1 DEF DrawnInv, OwnFiles, WritingEmpty, StillThere
<1>3. results1D \subseteq results1D'
  <2>1. \/ results1D' = results1D
        \/ results1D' = RegisterRes(results1D, dir[f])
    BY DEF ReadFile
  <2> QED
    BY <2>1, RegisterPoint
<1>4. ASSUME NEW g \in seen
      PROVE  ReadAndKept(g)'
  BY <1>1, <1>3 DEF DrawnInv, ReadAndKept
<1>5. ReadAndKept(f)'
  <2> SUFFICES ASSUME f \notin touched, atStart[f] \in Results, Converged(atStart[f])
               PROVE  \E s \in results1D' : AreTwins(atStart[f], s)
    BY <1>1 DEF ReadAndKept
  <2>1. dir[f] = atStart[f]
    BY DEF DrawnInv, StillThere
  <2>2. dir[f] # Empty /\ dir[f] # NotAResult
    BY <2>1, ScanCampaignAssumption
  <2>3. results1D' = RegisterRes(results1D, dir[f])
    BY <2>2 DEF ReadFile
  <2>4. \E s \in RegisterRes(results1D, dir[f]) : AreTwins(dir[f], s)
    BY <2>1, InsertedOrTwin
  <2> QED
    BY <2>1, <2>3, <2>4
<1>6. \A g \in seen' : ReadAndKept(g)'
  BY <1>1, <1>4, <1>5
<1>7. GoodPointsAreDrawn'
  BY <1>1 DEF GoodPointsAreDrawn
<1> QED
  BY <1>2, <1>6, <1>7 DEF DrawnInv

\* Every entry has its point on the curve.
LEMMA PointOfEntry ==
  ASSUME NEW entries, NEW s \in entries
  PROVE  \E p \in PrepareMuNllValues(entries) : p.mu = s.value
<1> DEFINE low == (CHOOSE q \in entries : \A t \in entries : q.nll_val =< t.nll_val).nll_val
           height(r) == r.nll_val - low
<1>1. PrepareMuNllValues(entries) = {[mu |-> r.value, dnll |-> height(r)] : r \in entries}
  BY DEF PrepareMuNllValues
<1> HIDE DEF height
<1>2. [mu |-> s.value, dnll |-> height(s)] \in PrepareMuNllValues(entries)
  BY <1>1
<1> QED
  BY <1>2

LEMMA PlotNll1DDraws ==
  ASSUME IInv, DrawnInv, PlotNll1D
  PROVE  DrawnInv'
<1>1. /\ plotter = "reading" /\ plotter' = "drawn"
      /\ {f \in Files : atStart[f] # Absent} \subseteq seen
      /\ curves' = [k \in Kinds |-> PrepareMuNllValues(Entries(results1D, askedPoi, k))]
      /\ UNCHANGED <<pending, writing, dir, published, askedPoi, results1D, atStart, touched>>
  BY DEF PlotNll1D, jobVars
<1>2. OwnFiles' /\ WritingEmpty' /\ StillThere'
  BY <1>1 DEF DrawnInv, OwnFiles, WritingEmpty, StillThere
<1>3. ASSUME NEW f \in Files, atStart[f] \in Results, f \notin touched,
             Converged(atStart[f]), atStart[f].poi = askedPoi
      PROVE  IsShown(askedPoi, KindOf(atStart[f]), atStart[f].value)'
  <2> DEFINE r == atStart[f]
             kind == KindOf(r)
  <2>1. f \in seen
    BY <1>1, <1>3, ScanCampaignAssumption
  <2>2. PICK s \in results1D : AreTwins(r, s)
    BY <1>1, <1>3, <2>1 DEF DrawnInv, ReadAndKept
  <2>3. r \in published
    BY <1>3 DEF DrawnInv, StillThere
  <2>4. kind \in Kinds
    BY <1>3 DEF Kinds, KindOf, Results, StudyTypes
  <2>5. CASE KindOf(s) = kind
    <3>1. s \in Entries(results1D, askedPoi, kind)
      BY <1>3, <2>2, <2>5 DEF Entries, AreTwins
    <3>2. \E p \in PrepareMuNllValues(Entries(results1D, askedPoi, kind)) : p.mu = s.value
      BY <3>1, PointOfEntry
    <3>3. curves'[kind] = PrepareMuNllValues(Entries(results1D, askedPoi, kind))
      BY <1>1, <2>4
    <3>4. s.value = r.value
      BY <2>2 DEF AreTwins
    <3>5. \E p \in curves'[kind] : p.mu = r.value
      BY <3>2, <3>3, <3>4
    <3> QED
      BY <1>1, <3>5 DEF IsShown
  <2>6. CASE KindOf(s) # kind
    BY <1>1, <1>3, <2>2, <2>3, <2>6 DEF IsShown
  <2> QED
    BY <2>5, <2>6
<1>4. GoodPointsAreDrawn'
  BY <1>1, <1>3 DEF GoodPointsAreDrawn
<1> QED
  BY <1>1, <1>2, <1>4 DEF DrawnInv

LEMMA NextDraws ==
  ASSUME IInv, DrawnInv, [Next]_vars
  PROVE  DrawnInv'
<1>1. ASSUME NEW job \in pending, FailBeforeOpen(job)
      PROVE  DrawnInv'
  BY <1>1, FailureDraws DEF FailBeforeOpen
<1>2. ASSUME NEW job \in writing, FailToWrite(job)
      PROVE  DrawnInv'
  BY <1>2, FailureDraws DEF FailToWrite
<1>3. CASE UNCHANGED vars
  BY <1>3, FailureDraws DEF vars, jobVars
<1> QED
  BY <1>1, <1>2, <1>3, SubmitDraws, OpenFileDraws, WriteFileDraws, PlotDraws,
     ReadFileDraws, PlotNll1DDraws
  DEF Next, JobStep, PlotterStep

\* Every good result that was there when the plotter began, and that no job
\* has opened since, is on its curve or has its twin on another.
THEOREM GoodPointsDrawn == Spec => []GoodPointsAreDrawn
<1>1. Init => DrawnInv
  BY InitDrawnInv
<1>2. IInv /\ DrawnInv /\ [Next]_vars => DrawnInv'
  BY NextDraws
<1>3. DrawnInv => GoodPointsAreDrawn
  BY DEF DrawnInv
<1> QED
  BY <1>1, <1>2, <1>3, ScanInvariance, PTL DEF Spec

-----------------------------------------------------------------------------
(***************************************************************************)
(* What lets a scan get complete: ScanGetsComplete without its fairness.   *)
(***************************************************************************)
HasGoodResult(f) == dir[f] \in Results /\ Converged(dir[f])

\* A file holds a good result, or a job that will write it is on its way.
Secured(f) ==
  \/ \E job \in pending \cup writing : FileName(job) = f
  \/ HasGoodResult(f)

SubmissionSecures ==
  [][\A script \in Scripts :
       Submit(script) => \A job \in JobsOf(script) : Secured(FileName(job))']_vars

OnlyFailuresLose ==
  [][\A f \in Files : Secured(f) /\ ~ Secured(f)' => failures' = failures + 1]_vars

\* Once a script has been submitted all its files are secured, and of those
\* only a job that fails can lose one, although every job that runs again
\* empties its file before it has a result (Submit, OpenFile, WriteFile).
THEOREM OnlyFailuresLoseFiles == Spec => SubmissionSecures /\ OnlyFailuresLose
<1>1. ASSUME NEW script \in Scripts, Submit(script), NEW job \in JobsOf(script)
      PROVE  Secured(FileName(job))'
  BY <1>1 DEF Submit, Secured
<1>2. ASSUME IInv, [Next]_vars, NEW f \in Files, Secured(f), ~ Secured(f)'
      PROVE  failures' = failures + 1
  <2>1. ASSUME UNCHANGED dir, pending \cup writing \subseteq pending' \cup writing'
        PROVE  FALSE
    BY <1>2, <2>1 DEF Secured, HasGoodResult
  <2>2. ASSUME NEW script \in Scripts, Submit(script)
        PROVE  FALSE
    BY <2>1, <2>2 DEF Submit
  <2>3. ASSUME NEW job \in pending, OpenFile(job)
        PROVE  FALSE
    <3>1. /\ pending' \cup writing' = pending \cup writing
          /\ job \in writing'
          /\ dir' = [dir EXCEPT ![FileName(job)] = Empty]
      BY <2>3 DEF OpenFile
    <3>2. f # FileName(job)
      BY <1>2, <3>1 DEF Secured
    <3>3. FileName(job) \in Files /\ TypeOK /\ Empty \in Contents
      BY <1>2, JobTypes DEF IInv, Contents
    <3>4. dir'[f] = dir[f]
      BY <3>1, <3>2, <3>3, DirPoint
    <3> QED
      BY <1>2, <3>1, <3>4 DEF Secured, HasGoodResult
  <2>4. ASSUME NEW job \in writing, WriteFile(job)
        PROVE  failures' = failures + 1
    <3>1. PICK nll_val \in Likelihoods(job) \cup {0}, status \in Statuses :
            /\ Converged(ResultOf(job, nll_val, status)) \/ failures' = failures + 1
            /\ dir' = [dir EXCEPT ![FileName(job)] = ResultOf(job, nll_val, status)]
      BY <2>4 DEF WriteFile
    <3>2. pending' = pending /\ writing' = writing \ {job}
      BY <2>4 DEF WriteFile
    <3> DEFINE result == ResultOf(job, nll_val, status)
    <3>3. job \in AllJobs /\ FileName(job) \in Files /\ TypeOK
      BY <1>2, JobTypes DEF IInv
    <3>4. result \in Results
      BY <3>3, ResultType
    <3> HIDE DEF result
    <3>5. /\ dir'[FileName(job)] = result
          /\ \A g \in Files : g # FileName(job) => dir'[g] = dir[g]
      BY <3>1, <3>3, <3>4, DirPoint DEF Contents, result
    <3>6. CASE f = FileName(job)
      BY <1>2, <3>1, <3>4, <3>5, <3>6 DEF Secured, HasGoodResult, result
    <3>7. CASE f # FileName(job)
      BY <1>2, <3>2, <3>5, <3>7 DEF Secured, HasGoodResult
    <3> QED
      BY <3>6, <3>7
  <2>5. ASSUME NEW job \in pending, FailBeforeOpen(job)
        PROVE  failures' = failures + 1
    BY <2>5 DEF FailBeforeOpen
  <2>6. ASSUME NEW job \in writing, FailToWrite(job)
        PROVE  failures' = failures + 1
    BY <2>6 DEF FailToWrite
  <2>7. ASSUME NEW poi \in ScannedPois, Plot(poi)
        PROVE  FALSE
    BY <2>1, <2>7 DEF Plot, StartPlot, jobVars
  <2>8. CASE PlotterStep
    BY <2>1, <2>8 DEF PlotterStep, ReadFile, PlotNll1D, jobVars
  <2>9. CASE UNCHANGED vars
    BY <2>1, <2>9 DEF vars, jobVars
  <2> QED
    BY <1>2, <2>2, <2>3, <2>4, <2>5, <2>6, <2>7, <2>8, <2>9 DEF Next, JobStep
<1>3. IInv /\ [Next]_vars =>
        \/ \A f \in Files : Secured(f) /\ ~ Secured(f)' => failures' = failures + 1
        \/ UNCHANGED vars
  BY <1>2
<1>4. \A script \in Scripts :
        Submit(script) => \A job \in JobsOf(script) : Secured(FileName(job))'
  BY <1>1
<1> QED
  BY <1>3, <1>4, ScanInvariance, PTL DEF Spec, SubmissionSecures, OnlyFailuresLose

-----------------------------------------------------------------------------
\* The name of a file of a scan tells whose result is in it.
IsTold(f, r) ==
  /\ r.poi = f.poi /\ r.value = f.value
  /\ KindOf(r) = [stat_only |-> f.stat_only, prePostFit |-> f.prePostFit]

NamesTell == \A f \in Files \cap Names : dir[f] \in Results => IsTold(f, dir[f])

LEMMA NameOfJob ==
  ASSUME NEW job \in AllJobs
  PROVE  FileName(job) \in Names
<1>1. job \in Jobs /\ PointOf(job.description, job.worker_id) \in Int
  BY JobTypes
<1> QED
  BY <1>1 DEF Jobs, Names, FileName

LEMMA OwnNameTells ==
  ASSUME NEW job, NEW nll_val, NEW status
  PROVE  IsTold(FileName(job), ResultOf(job, nll_val, status))
BY DEF IsTold, FileName, ResultOf, KindOf

LEMMA InitNamesTell == Init => NamesTell
<1> SUFFICES ASSUME Init, NEW f \in Files \cap Names PROVE dir[f] \notin Results
  BY DEF NamesTell
<1>1. f \notin OldFiles
  BY ScanCampaignAssumption
<1>2. dir[f] = Absent
  BY <1>1 DEF Init
<1> QED
  BY <1>2, ScanCampaignAssumption

LEMMA NextNamesTell ==
  ASSUME IInv, NamesTell, [Next]_vars
  PROVE  NamesTell'
<1>1. ASSUME UNCHANGED dir
      PROVE  NamesTell'
  BY <1>1 DEF NamesTell
<1>2. ASSUME NEW job \in pending, OpenFile(job)
      PROVE  NamesTell'
  <2>1. dir' = [dir EXCEPT ![FileName(job)] = Empty]
    BY <1>2 DEF OpenFile
  <2>2. FileName(job) \in Files /\ TypeOK /\ Empty \in Contents
    BY JobTypes DEF IInv, Contents
  <2>3. /\ dir'[FileName(job)] = Empty
        /\ \A f \in Files : f # FileName(job) => dir'[f] = dir[f]
    BY <2>1, <2>2, DirPoint
  <2> QED
    BY <2>3, ScanCampaignAssumption DEF NamesTell
<1>3. ASSUME NEW job \in writing, WriteFile(job)
      PROVE  NamesTell'
  <2>1. PICK nll_val \in Likelihoods(job) \cup {0}, status \in Statuses :
          dir' = [dir EXCEPT ![FileName(job)] = ResultOf(job, nll_val, status)]
    BY <1>3 DEF WriteFile
  <2> DEFINE result == ResultOf(job, nll_val, status)
  <2>2. job \in AllJobs /\ FileName(job) \in Files /\ TypeOK
    BY JobTypes DEF IInv
  <2>3. result \in Contents /\ IsTold(FileName(job), result)
    BY <2>2, ResultType, OwnNameTells DEF Contents
  <2> HIDE DEF result
  <2>4. /\ dir'[FileName(job)] = result
        /\ \A f \in Files : f # FileName(job) => dir'[f] = dir[f]
    BY <2>1, <2>2, <2>3, DirPoint DEF result
  <2> QED
    BY <2>3, <2>4 DEF NamesTell
<1> QED
  BY <1>1, <1>2, <1>3
     DEF Next, JobStep, PlotterStep, Submit, FailBeforeOpen, FailToWrite, Plot,
         StartPlot, ReadFile, PlotNll1D, vars, jobVars

\* A plot shows the directory as it is, and each job has left a good result.
GoodScansAreComplete ==
  \A script \in Scripts :
    (/\ plotter = "drawn" /\ HasPlotted /\ askedPoi \in script.pois
     /\ \A job \in JobsOf(script) : HasGoodResult(FileName(job)))
    => IsComplete(script, askedPoi)

\* Once every job of a script has left a good result, the next plot has all
\* points of the grid, the ends of the range included, whatever else is in
\* the directory (FileName, GetSelectedEntries, PrepareMuNllValues).
THEOREM GoodScansComplete == Spec => []GoodScansAreComplete
<1>1. Init => NamesTell
  BY InitNamesTell
<1>2. IInv /\ NamesTell /\ [Next]_vars => NamesTell'
  BY NextNamesTell
<1>3. ASSUME NamesTell, GoodPointsAreDrawn PROVE GoodScansAreComplete
  <2> SUFFICES ASSUME NEW script \in Scripts, plotter = "drawn", HasPlotted,
                      askedPoi \in script.pois,
                      \A job \in JobsOf(script) : HasGoodResult(FileName(job)),
                      NEW stat \in script.stat_only, NEW type \in script.prePostFit,
                      NEW value \in GridOf(script.description)
               PROVE  IsShown(askedPoi, [stat_only |-> stat, prePostFit |-> type], value)
    BY DEF GoodScansAreComplete, IsComplete
  <2> DEFINE d == script.description
  <2>1. /\ d \in Descriptions /\ ~ IsGridPointKnown(d)
    BY ScanCampaignAssumption DEF ScriptType
  <2>2. GridSize(d) \in Int
    BY <2>1, PoiConfigAssumption DEF DescriptionType, GridSize
  <2> HIDE DEF d
  <2>3. PICK i \in 0 .. GridSize(d) - 1 : value = ScanRangeLow(d) + i * GridStep(d)
    BY DEF GridOf, d
  <2>4. PointOf(d, i) = value
    BY <2>1, <2>3 DEF PointOf, PointAtGrid
  <2> DEFINE job == [poi |-> askedPoi, stat_only |-> stat, prePostFit |-> type,
                     description |-> d, worker_id |-> i]
             f == FileName(job)
             r == dir[f]
  <2>5. job \in JobsOf(script)
    <3>1. i \in 0 .. GridSize(d)
      BY <2>2
    <3> QED
      BY <3>1 DEF JobsOf, d
  <2>6. /\ f.poi = askedPoi /\ f.stat_only = stat /\ f.prePostFit = type
        /\ f.value = value
    BY <2>4 DEF FileName
  <2>7. job \in AllJobs
    BY <2>5, JobsOfScript
  <2> HIDE DEF job
  <2>8. f \in Files \cap Names
    BY <2>7, JobTypes, NameOfJob
  <2>9. r \in Results /\ Converged(r)
    BY <2>5 DEF HasGoodResult
  <2> HIDE DEF f
  <2>10. /\ r.poi = askedPoi /\ r.value = value
         /\ KindOf(r) = [stat_only |-> stat, prePostFit |-> type]
    BY <1>3, <2>6, <2>8, <2>9 DEF NamesTell, IsTold
  <2>11. atStart[f] = r /\ f \notin touched
    BY DEF HasPlotted
  <2> QED
    BY <1>3, <2>8, <2>9, <2>10, <2>11 DEF GoodPointsAreDrawn
<1> QED
  BY <1>1, <1>2, <1>3, ScanInvariance, GoodPointsDrawn, PTL DEF Spec
=============================================================================
