------------------------ MODULE RankingCampaignProofs ------------------------
(***************************************************************************)
(* The list of missing NPs is right for every number of parameters, jobs,  *)
(* failures and searches, however the steps of the jobs fall between those *)
(* of the search.                                                          *)
(***************************************************************************)
EXTENDS RankingCampaign, Induction

Entries == Results \cup {Absent, Unreadable}

\* A file holds the NP that its name says, and what it holds was published.
Contents ==
  \A f \in Files : dir[f] \in Results => dir[f].np = f.np /\ dir[f] \in published

\* Every file that was complete when the search began and has been returned
\* by the iterator has been counted.
Counted ==
  reader \in {"reading", "listed"} =>
    \A f \in Files : atStart[f] \in Results =>
      /\ atStart[f].np = f.np
      /\ f \in seen => f.np \in present

\* Only published results are counted, and nothing before a search.
PresentPublished ==
  /\ \A n \in present : \E r \in published : r.np = n
  /\ reader = "idle" => seen = {} /\ present = {}

\* The list is what is left when the directory has been read.
ListComplete ==
  reader = "listed" =>
    /\ missing = NPs \ present
    /\ \A f \in Files : atStart[f] # Absent => f \in seen

\* The inductive invariant.  MissingListIsRight alone says nothing of the
\* states before the list is there.
IInv == TypeOK /\ Contents /\ Counted /\ PresentPublished /\ ListComplete

-----------------------------------------------------------------------------
\* The list without gammas is a list of NPs, not longer than the list it comes
\* from, and has each NP that is no gamma.
LEMMA NonGammaNpsType ==
  /\ NonGammaNps \in Seq(NPs) /\ Len(NonGammaNps) =< Len(PairedNps)
  /\ \A i \in 1 .. Len(PairedNps) : PairedNps[i] \notin Gamma =>
       \E j \in 1 .. Len(NonGammaNps) : NonGammaNps[j] = PairedNps[i]
<1>1. PairedNps \in Seq(NPs) /\ Len(PairedNps) \in Nat
  BY CampaignAssumption
<1>2. IsFilter(PairedNps, Gamma, NonGammaOf, Len(PairedNps))
  <2>1. \E f : IsFilter(PairedNps, Gamma, f, Len(PairedNps))
    BY <1>1, FilterExists
  <2>2. NonGammaOf = CHOOSE f : IsFilter(PairedNps, Gamma, f, Len(PairedNps))
    BY Zenon DEF NonGammaOf, IsFilter
  <2> QED
    BY <2>1, <2>2, Zenon
<1> QED
  BY <1>1, <1>2, FilterKeeps DEF NonGammaNps

\* What a job picks, by number or by name, is in the lists.
LEMMA ChoicesType ==
  ASSUME NEW job \in Jobs, NEW noGamma \in BOOLEAN, NEW c \in Choices(job, noGamma)
  PROVE  c.np \in NPs /\ c.number \in Numbers
<1> DEFINE list == NpList(noGamma)
<1>1. list \in Seq(NPs) /\ Len(list) =< Len(PairedNps)
      /\ Len(list) \in Nat /\ Len(PairedNps) \in Nat
  <2>1. list = NonGammaNps \/ list = PairedNps
    BY DEF NpList
  <2> QED
    BY <2>1, CampaignAssumption, NonGammaNpsType
<1> HIDE DEF list
<1>2. CASE job.np_name = NoName
  <2>1. c \in ByWorkerId(noGamma, job.worker_id) /\ job.worker_id \in Nat
    BY <1>2 DEF Choices, Jobs
  <2>2. /\ job.worker_id < Len(list)
        /\ c = [np |-> list[job.worker_id + 1], number |-> job.worker_id]
    BY <2>1 DEF ByWorkerId, list
  <2>3. job.worker_id + 1 \in 1 .. Len(list) /\ job.worker_id \in 0 .. Len(PairedNps) - 1
    BY <1>1, <2>1, <2>2
  <2>4. list[job.worker_id + 1] \in NPs
    BY <1>1, <2>3
  <2> QED
    BY <2>2, <2>3, <2>4 DEF Numbers
<1>3. CASE job.np_name # NoName
  <2>1. job.np_name \in NPs /\ c \in ByName(noGamma, job.np_name)
    BY <1>3 DEF Choices, Jobs
  <2>2. PICK i \in 2 .. Len(list) : c = [np |-> job.np_name, number |-> i - 1]
    BY <2>1 DEF ByName, list
  <2>3. i - 1 \in 0 .. Len(PairedNps) - 1
    BY <1>1
  <2> QED
    BY <2>1, <2>2, <2>3 DEF Numbers
<1> QED
  BY <1>2, <1>3

\* The name of a job's file is a file name, for its POI and NP.
LEMMA FileNameType ==
  ASSUME NEW c \in Chosen
  PROVE  /\ FileName(c) \in Files /\ FileName(c).np = c.np
         /\ [poi |-> c.job.poi, np |-> c.np] \in Results
BY DEF Chosen, FileName, Files, Results, Jobs

\* The initial states satisfy the invariant.
LEMMA InitIInv == Init => IInv
<1> SUFFICES ASSUME Init PROVE IInv
  OBVIOUS
<1> USE CampaignAssumption
<1>1. TypeOK
  BY DEF Init, TypeOK
<1>2. \A f \in Files : dir[f] = Absent
  BY DEF Init
<1> QED
  BY <1>1, <1>2 DEF Init, IInv, Contents, Counted, PresentPublished, ListComplete

\* A step of the jobs or of the user that changes no file and no result.
LEMMA QuietStep ==
  ASSUME IInv, TypeOK', UNCHANGED <<dir, published, readerVars>>
  PROVE  IInv'
BY DEF IInv, Contents, Counted, PresentPublished, ListComplete, readerVars

\* A step that writes one file and may publish a result.
LEMMA FileStep ==
  ASSUME IInv, TypeOK', UNCHANGED readerVars, published \subseteq published',
         NEW g \in Files, NEW entry,
         dir' = [dir EXCEPT ![g] = entry],
         entry \in Results => entry.np = g.np /\ entry \in published'
  PROVE  IInv'
<1>1. \A f \in Files : dir'[f] = IF f = g THEN entry ELSE dir[f]
  BY DEF IInv, TypeOK
<1>2. Contents'
  BY <1>1 DEF IInv, Contents
<1>3. Counted' /\ ListComplete'
  BY DEF IInv, Counted, ListComplete, readerVars
<1>4. PresentPublished'
  BY DEF IInv, PresentPublished, readerVars
<1> QED
  BY <1>2, <1>3, <1>4 DEF IInv

\* Every step keeps the types.
LEMMA TypeStep == TypeOK /\ [Next]_vars => TypeOK'
<1> SUFFICES ASSUME TypeOK, [Next]_vars PROVE TypeOK'
  OBVIOUS
<1> USE CampaignAssumption DEF readerVars, userVars
<1>1. ASSUME NEW job \in pending, StartJob(job)
      PROVE  TypeOK'
  <2>1. job \in Jobs
    BY DEF TypeOK
  <2>2. fitting' \subseteq Chosen
    <3>1. PICK noGamma \in BOOLEAN :
            \/ \E c \in Choices(job, noGamma) :
                 fitting' = fitting \cup {[job |-> job, number |-> c.number, np |-> c.np]}
            \/ fitting' = fitting
      BY <1>1 DEF StartJob
    <3>2. CASE fitting' = fitting
      BY <3>2 DEF TypeOK
    <3>3. ASSUME NEW c \in Choices(job, noGamma),
                 fitting' = fitting \cup {[job |-> job, number |-> c.number, np |-> c.np]}
          PROVE  fitting' \subseteq Chosen
      <4>1. c.np \in NPs /\ c.number \in Numbers
        BY <2>1, ChoicesType
      <4>2. [job |-> job, number |-> c.number, np |-> c.np] \in Chosen
        BY <2>1, <4>1 DEF Chosen
      <4> QED
        BY <3>3, <4>2 DEF TypeOK
    <3> QED
      BY <3>1, <3>2, <3>3
  <2> QED
    BY <1>1, <2>2 DEF StartJob, TypeOK
<1>2. ASSUME NEW c \in fitting, OpenFile(c)
      PROVE  TypeOK'
  <2>1. dir' \in [Files -> Entries]
    BY <1>2 DEF OpenFile, TypeOK, Entries
  <2> QED
    BY <1>2, <2>1 DEF OpenFile, TypeOK, Entries
<1>3. ASSUME NEW c \in writing, WriteFile(c)
      PROVE  TypeOK'
  <2>1. [poi |-> c.job.poi, np |-> c.np] \in Results
    BY FileNameType DEF TypeOK
  <2>2. dir' \in [Files -> Entries]
    BY <1>3, <2>1 DEF WriteFile, TypeOK, Entries
  <2> QED
    BY <1>3, <2>1, <2>2 DEF WriteFile, TypeOK, Entries
<1>4. ASSUME NEW c \in fitting, FailBeforeOpen(c)
      PROVE  TypeOK'
  BY <1>4 DEF FailBeforeOpen, TypeOK
<1>5. ASSUME NEW c \in writing, FailToWrite(c)
      PROVE  TypeOK'
  BY <1>5 DEF FailToWrite, TypeOK
<1>6. ASSUME NEW poi \in POIs, SubmitByNumber(poi)
      PROVE  TypeOK'
  <2>1. {[poi |-> poi, np_name |-> NoName, worker_id |-> id] : id \in Workers} \subseteq Jobs
    BY DEF Jobs
  <2> QED
    BY <1>6, <2>1 DEF SubmitByNumber, TypeOK
<1>7. ASSUME NEW poi \in POIs, StartReading(poi)
      PROVE  TypeOK'
  BY <1>7 DEF StartReading, TypeOK, jobVars
<1>8. CASE SubmitMissing
  <2>1. pending' \subseteq Jobs
    <3>1. askedPoi \in POIs
      BY <1>8 DEF SubmitMissing, TypeOK
    <3> QED
      BY <1>8, <3>1 DEF SubmitMissing, TypeOK, Jobs
  <2>2. [f \in Files |-> Absent] \in [Files -> Entries]
    BY DEF Entries
  <2> QED
    BY <1>8, <2>1, <2>2 DEF SubmitMissing, TypeOK, Entries
<1>9. ASSUME NEW f \in Files, ReadFile(f)
      PROVE  TypeOK'
  <2>1. present' \subseteq NPs /\ reader' \in {"reading", "aborted"}
    BY <1>9 DEF ReadFile, ReadValuesOneFile, TypeOK, Results
  <2> QED
    BY <1>9, <2>1 DEF ReadFile, TypeOK, jobVars
<1>10. CASE ComputeMissingNPs
  BY <1>10 DEF ComputeMissingNPs, TypeOK, jobVars
<1>11. CASE UNCHANGED vars
  BY <1>11 DEF vars, jobVars, TypeOK
<1> QED
  BY <1>1, <1>2, <1>3, <1>4, <1>5, <1>6, <1>7, <1>8, <1>9, <1>10, <1>11
     DEF Next, JobStep, ReaderStep

\* Every step keeps the invariant.
LEMMA NextIInv == IInv /\ [Next]_vars => IInv'
<1> SUFFICES ASSUME IInv, [Next]_vars PROVE IInv'
  OBVIOUS
<1>t. TypeOK /\ TypeOK'
  BY TypeStep DEF IInv
<1>1. ASSUME NEW job \in pending, StartJob(job)
      PROVE  IInv'
  BY <1>1, <1>t, QuietStep DEF StartJob
<1>2. ASSUME NEW c \in fitting, OpenFile(c)
      PROVE  IInv'
  <2>1. FileName(c) \in Files /\ Unreadable \notin Results
    BY <1>t, FileNameType, CampaignAssumption DEF TypeOK
  <2>2. UNCHANGED readerVars /\ published \subseteq published'
        /\ dir' = [dir EXCEPT ![FileName(c)] = Unreadable]
    BY <1>2 DEF OpenFile
  <2> QED
    BY <1>t, <2>1, <2>2, FileStep
<1>3. ASSUME NEW c \in writing, WriteFile(c)
      PROVE  IInv'
  <2> DEFINE result == [poi |-> c.job.poi, np |-> c.np]
  <2>1. FileName(c) \in Files /\ result.np = FileName(c).np
    BY <1>t, FileNameType DEF TypeOK
  <2>2. UNCHANGED readerVars /\ published \subseteq published' /\ result \in published'
        /\ dir' = [dir EXCEPT ![FileName(c)] = result]
    BY <1>3 DEF WriteFile
  <2> HIDE DEF result
  <2> QED
    BY <1>t, <2>1, <2>2, FileStep
<1>4. ASSUME NEW c \in fitting, FailBeforeOpen(c)
      PROVE  IInv'
  BY <1>4, <1>t, QuietStep DEF FailBeforeOpen
<1>5. ASSUME NEW c \in writing, FailToWrite(c)
      PROVE  IInv'
  BY <1>5, <1>t, QuietStep DEF FailToWrite
<1>6. ASSUME NEW poi \in POIs, SubmitByNumber(poi)
      PROVE  IInv'
  BY <1>6, <1>t, QuietStep DEF SubmitByNumber
<1>7. ASSUME NEW poi \in POIs, StartReading(poi)
      PROVE  IInv'
  <2>1. /\ reader = "idle" /\ reader' = "reading" /\ atStart' = dir
        /\ UNCHANGED <<dir, published, seen, present, missing>>
    BY <1>7 DEF StartReading, jobVars
  <2>2. seen = {} /\ present = {}
    BY <2>1 DEF IInv, PresentPublished
  <2> QED
    BY <1>t, <2>1, <2>2 DEF IInv, Contents, Counted, PresentPublished, ListComplete
<1>8. CASE SubmitMissing
  <2>1. /\ reader' = "idle" /\ seen' = {} /\ present' = {}
        /\ UNCHANGED <<dir, published>>
    BY <1>8 DEF SubmitMissing
  <2> QED
    BY <1>t, <2>1 DEF IInv, Contents, Counted, PresentPublished, ListComplete
<1>9. ASSUME NEW f \in Files, ReadFile(f)
      PROVE  IInv'
  <2>1. /\ reader = "reading" /\ seen' = seen \cup {f}
        /\ UNCHANGED <<dir, published, missing, atStart>>
    BY <1>9 DEF ReadFile, jobVars
  <2>2. CASE dir[f] = Unreadable /\ reader' = "aborted" /\ present' = present
    BY <1>t, <2>1, <2>2 DEF IInv, Contents, Counted, PresentPublished, ListComplete
  <2>3. CASE dir[f] \in Results /\ present' = present \cup {dir[f].np} /\ reader' = reader
    <3>1. dir[f].np = f.np /\ dir[f] \in published
      BY <2>3 DEF IInv, Contents
    <3>2. Counted'
      BY <2>1, <2>3, <3>1 DEF IInv, Counted
    <3>3. PresentPublished'
      BY <2>1, <2>3, <3>1 DEF IInv, PresentPublished
    <3> QED
      BY <1>t, <2>1, <2>3, <3>2, <3>3 DEF IInv, Contents, ListComplete
  <2> QED
    BY <1>9, <2>2, <2>3 DEF ReadFile, ReadValuesOneFile
<1>10. CASE ComputeMissingNPs
  <2>1. /\ reader = "reading" /\ reader' = "listed" /\ missing' = NPs \ present
        /\ UNCHANGED <<dir, published, seen, present, atStart>>
        /\ \A f \in Files : atStart[f] # Absent => f \in seen
    BY <1>10 DEF ComputeMissingNPs, jobVars, Exists
  <2> QED
    BY <1>t, <2>1 DEF IInv, Contents, Counted, PresentPublished, ListComplete
<1>11. CASE UNCHANGED vars
  BY <1>11, <1>t, QuietStep DEF vars, jobVars
<1> QED
  BY <1>1, <1>2, <1>3, <1>4, <1>5, <1>6, <1>7, <1>8, <1>9, <1>10, <1>11
     DEF Next, JobStep, ReaderStep

-----------------------------------------------------------------------------
\* The invariant holds in every reachable state.
THEOREM Invariance == Spec => []IInv
BY InitIInv, NextIInv, PTL DEF Spec

\* Types, for every campaign.
THEOREM TypeCorrect == Spec => []TypeOK
<1>1. IInv => TypeOK
  BY DEF IInv
<1> QED
  BY <1>1, Invariance, PTL

\* The list of missing NPs leaves out every result that was there when the
\* search began, and nothing that was never published.
THEOREM MissingListCorrect == Spec => []MissingListIsRight
<1>1. IInv => MissingListIsRight
  <2> SUFFICES ASSUME IInv, reader = "listed"
               PROVE  /\ \A f \in Files : atStart[f] \in Results => atStart[f].np \notin missing
                      /\ \A n \in NPs \ missing : \E r \in published : r.np = n
    BY DEF MissingListIsRight
  <2>1. missing = NPs \ present /\ \A f \in Files : atStart[f] # Absent => f \in seen
    BY DEF IInv, ListComplete
  <2>2. Absent \notin Results
    BY CampaignAssumption
  <2>3. \A f \in Files : atStart[f] \in Results => atStart[f].np \in present
    BY <2>1, <2>2 DEF IInv, Counted
  <2> QED
    BY <2>1, <2>3 DEF IInv, PresentPublished
<1> QED
  BY <1>1, Invariance, PTL

-----------------------------------------------------------------------------
(***************************************************************************)
(* No result is lost, if the user waits for the jobs before a search.      *)
(***************************************************************************)

Working == fitting \cup writing
InFlight == pending \cup {c.job : c \in Working}

\* Nothing does the work of a job twice.
OneEach ==
  /\ \A c \in Working : c.job \notin pending
  /\ \A c, d \in Working : c.job = d.job => c = d
  /\ fitting \cap writing = {}

\* Two jobs for one POI were started in the same way and differ in what was
\* asked of them.
Apart(j, k) ==
  j.poi = k.poi =>
    /\ j.np_name = NoName => k.np_name = NoName /\ j.worker_id # k.worker_id
    /\ j.np_name # NoName => k.np_name # NoName /\ j.np_name # k.np_name

JobsApart == \A j, k \in InFlight : j # k => Apart(j, k)

\* What was asked of a job is a part of the name of its file.
PicksAsAsked ==
  \A c \in Working :
    /\ c.job.np_name = NoName => c.number = c.job.worker_id
    /\ c.job.np_name # NoName => c.np = c.job.np_name

\* No result is there yet of what is asked of a job.
Undone(d, j) ==
  \A f \in Files : f.poi = j.poi /\ d[f] \in Results =>
    /\ j.np_name = NoName => f.number # j.worker_id
    /\ j.np_name # NoName => f.np # j.np_name

JobsUndone == \A j \in InFlight : Undone(dir, j)

\* A POI has neither jobs nor results before its jobs are submitted.
PoisSubmitted ==
  /\ \A j \in InFlight : j.poi \in submitted
  /\ \A f \in Files : dir[f] \in Results => f.poi \in submitted
  /\ reader # "idle" => askedPoi \in submitted

\* Nobody works on the POI of a search until its list is submitted.
SearchUndisturbed ==
  reader \in {"reading", "listed"} =>
    /\ \A j \in InFlight : j.poi # askedPoi
    /\ \A f \in Files : f.poi = askedPoi => dir[f] = atStart[f]

\* The inductive invariant of a campaign whose user waits.
KInv ==
  /\ IInv /\ OneEach /\ JobsApart /\ PicksAsAsked /\ JobsUndone /\ PoisSubmitted
  /\ SearchUndisturbed

-----------------------------------------------------------------------------
\* The file of a job at work holds no result.
LEMMA OwnFileUndone ==
  ASSUME KInv, NEW c \in Working
  PROVE  FileName(c) \in Files /\ dir[FileName(c)] \notin Results
<1>1. c \in Chosen /\ c.job \in InFlight
  BY DEF KInv, IInv, TypeOK, Working, InFlight
<1>2. FileName(c) \in Files /\ FileName(c).poi = c.job.poi
      /\ FileName(c).number = c.number /\ FileName(c).np = c.np
  BY <1>1, FileNameType DEF FileName
<1>3. Undone(dir, c.job)
  BY <1>1 DEF KInv, JobsUndone
<1>4. /\ c.job.np_name = NoName => c.number = c.job.worker_id
      /\ c.job.np_name # NoName => c.np = c.job.np_name
  BY DEF KInv, PicksAsAsked
<1> QED
  BY <1>2, <1>3, <1>4 DEF Undone

\* A step that changes no file, leaves the search alone and adds no job.
LEMMA FewerJobs ==
  ASSUME KInv, IInv', OneEach', PicksAsAsked', InFlight' \subseteq InFlight,
         UNCHANGED <<dir, readerVars, submitted>>
  PROVE  KInv'
<1>1. JobsApart'
  BY DEF KInv, JobsApart, Apart
<1>2. JobsUndone' /\ PoisSubmitted' /\ SearchUndisturbed'
  BY DEF KInv, JobsUndone, Undone, PoisSubmitted, SearchUndisturbed, readerVars
<1> QED
  BY <1>1, <1>2 DEF KInv

\* A step of a job at work that fills or empties its file.
LEMMA JobWrites ==
  ASSUME KInv, IInv', OneEach', PicksAsAsked', InFlight' \subseteq InFlight,
         UNCHANGED <<readerVars, submitted>>,
         NEW c \in Working, NEW entry,
         dir' = [dir EXCEPT ![FileName(c)] = entry],
         entry \in Results => c.job \notin InFlight'
  PROVE  KInv'
<1>1. c \in Chosen /\ c.job \in InFlight
  BY DEF KInv, IInv, TypeOK, Working, InFlight
<1>2. FileName(c) \in Files /\ FileName(c).poi = c.job.poi
      /\ FileName(c).number = c.number /\ FileName(c).np = c.np
  BY <1>1, FileNameType DEF FileName
<1>3. \A f \in Files : dir'[f] = IF f = FileName(c) THEN entry ELSE dir[f]
  BY DEF KInv, IInv, TypeOK
<1>4. JobsApart'
  BY DEF KInv, JobsApart, Apart
<1>5. JobsUndone'
  <2> SUFFICES ASSUME NEW j \in InFlight', NEW f \in Files,
                      f.poi = j.poi, dir'[f] \in Results
               PROVE  /\ j.np_name = NoName => f.number # j.worker_id
                      /\ j.np_name # NoName => f.np # j.np_name
    BY DEF JobsUndone, Undone
  <2>1. j \in InFlight /\ Undone(dir, j)
    BY DEF KInv, JobsUndone
  <2>2. CASE f # FileName(c)
    BY <1>3, <2>1, <2>2 DEF Undone
  <2>3. CASE f = FileName(c)
    <3>1. entry \in Results /\ j # c.job
      BY <1>3, <2>3
    <3>2. Apart(j, c.job)
      BY <1>1, <2>1, <3>1 DEF KInv, JobsApart
    <3>3. /\ c.job.np_name = NoName => c.number = c.job.worker_id
          /\ c.job.np_name # NoName => c.np = c.job.np_name
      BY DEF KInv, PicksAsAsked
    <3> QED
      BY <1>2, <2>3, <3>2, <3>3 DEF Apart
  <2> QED
    BY <2>2, <2>3
<1>6. PoisSubmitted'
  <2>1. c.job.poi \in submitted
    BY <1>1 DEF KInv, PoisSubmitted
  <2> QED
    BY <1>2, <1>3, <2>1 DEF KInv, PoisSubmitted, readerVars
<1>7. SearchUndisturbed'
  <2>1. reader \in {"reading", "listed"} => c.job.poi # askedPoi
    BY <1>1 DEF KInv, SearchUndisturbed
  <2> QED
    BY <1>2, <1>3, <2>1 DEF KInv, SearchUndisturbed, readerVars
<1> QED
  BY <1>4, <1>5, <1>6, <1>7 DEF KInv

\* New jobs for a POI that nobody works on.
LEMMA NewJobs ==
  ASSUME KInv, IInv', UNCHANGED <<fitting, writing, dir>>,
         submitted \subseteq submitted',
         NEW poi \in submitted', NEW new,
         pending' = pending \cup new,
         \A j \in InFlight : j.poi # poi,
         \A j \in new : j.poi = poi /\ Undone(dir, j),
         \A j, k \in new : j # k => Apart(j, k),
         reader' # "idle" => askedPoi' \in submitted',
         SearchUndisturbed'
  PROVE  KInv'
<1>1. InFlight' = InFlight \cup new /\ Working' = Working
  BY DEF InFlight, Working
<1>2. OneEach' /\ PicksAsAsked'
  <2>1. \A c \in Working : c.job \in InFlight
    BY DEF InFlight
  <2>2. \A c \in Working : c.job \notin new
    BY <2>1
  <2> QED
    BY <1>1, <2>2 DEF KInv, OneEach, PicksAsAsked
<1>3. JobsApart'
  <2>1. \A j, k \in InFlight : j # k => Apart(j, k)
    BY DEF KInv, JobsApart
  <2>2. \A j \in InFlight, k \in new : Apart(j, k) /\ Apart(k, j)
    BY DEF Apart
  <2> QED
    BY <1>1, <2>1, <2>2 DEF JobsApart
<1>4. JobsUndone'
  <2>1. \A j \in InFlight' : Undone(dir, j)
    BY <1>1 DEF KInv, JobsUndone
  <2> QED
    BY <2>1 DEF JobsUndone, Undone
<1>5. PoisSubmitted'
  BY <1>1 DEF KInv, PoisSubmitted
<1> QED
  BY <1>2, <1>3, <1>4, <1>5 DEF KInv

\* The initial states satisfy the invariant.
LEMMA InitKInv == Init => KInv
<1> SUFFICES ASSUME Init PROVE KInv
  OBVIOUS
<1>1. IInv
  BY InitIInv
<1>2. InFlight = {} /\ Working = {}
  BY DEF Init, InFlight, Working
<1>3. \A f \in Files : dir[f] \notin Results
  BY CampaignAssumption DEF Init
<1> QED
  BY <1>1, <1>2, <1>3
     DEF Init, KInv, OneEach, JobsApart, PicksAsAsked, JobsUndone, PoisSubmitted,
         SearchUndisturbed, Working

\* What a job picks is what was asked of it.
LEMMA ChoicesAsAsked ==
  ASSUME NEW job \in Jobs, NEW noGamma \in BOOLEAN, NEW c \in Choices(job, noGamma)
  PROVE  /\ job.np_name = NoName => c.number = job.worker_id
         /\ job.np_name # NoName => c.np = job.np_name
<1>1. CASE job.np_name = NoName
  <2>1. c \in ByWorkerId(noGamma, job.worker_id)
    BY <1>1 DEF Choices
  <2>2. c = [np |-> NpList(noGamma)[job.worker_id + 1], number |-> job.worker_id]
    BY <2>1 DEF ByWorkerId
  <2> QED
    BY <1>1, <2>2
<1>2. CASE job.np_name # NoName
  <2>1. c \in ByName(noGamma, job.np_name)
    BY <1>2 DEF Choices
  <2>2. \E i \in 2 .. Len(NpList(noGamma)) : c = [np |-> job.np_name, number |-> i - 1]
    BY <2>1 DEF ByName
  <2> QED
    BY <1>2, <2>2
<1> QED
  BY <1>1, <1>2

\* A job that starts, and finds its NP or not.
LEMMA StartJobKInv ==
  ASSUME KInv, IInv', NEW job \in pending, StartJob(job)
  PROVE  KInv'
<1>1. /\ pending' = pending \ {job} /\ writing' = writing
      /\ UNCHANGED <<dir, readerVars, submitted>>
  BY DEF StartJob, userVars
<1>2. job \in Jobs /\ \A c \in Working : c.job # job
  BY DEF KInv, IInv, TypeOK, OneEach
<1>3. CASE fitting' = fitting
  <2>1. Working' = Working
    BY <1>1, <1>3 DEF Working
  <2>2. InFlight' \subseteq InFlight
    BY <1>1, <2>1 DEF InFlight
  <2>3. OneEach' /\ PicksAsAsked'
    BY <1>1, <1>3, <2>1 DEF KInv, OneEach, PicksAsAsked
  <2> QED
    BY <1>1, <2>2, <2>3, FewerJobs
<1>4. ASSUME NEW noGamma \in BOOLEAN, NEW ch \in Choices(job, noGamma),
             fitting' = fitting \cup {[job |-> job, number |-> ch.number, np |-> ch.np]}
      PROVE  KInv'
  <2> DEFINE new == [job |-> job, number |-> ch.number, np |-> ch.np]
  <2>1. /\ new.job = job /\ new.number = ch.number /\ new.np = ch.np
        /\ fitting' = fitting \cup {new}
    BY <1>4
  <2>2. /\ job.np_name = NoName => new.number = job.worker_id
        /\ job.np_name # NoName => new.np = job.np_name
    BY <1>2, <2>1, ChoicesAsAsked
  <2> HIDE DEF new
  <2>3. Working' = Working \cup {new}
    BY <1>1, <2>1 DEF Working
  <2>4. InFlight' \subseteq InFlight
    BY <1>1, <2>1, <2>3 DEF InFlight
  <2>5. OneEach'
    <3>1. new \notin writing
      BY <1>2, <2>1 DEF Working
    <3> QED
      BY <1>1, <1>2, <2>1, <2>3, <3>1 DEF KInv, OneEach
  <2>6. PicksAsAsked'
    BY <2>1, <2>2, <2>3 DEF KInv, PicksAsAsked
  <2> QED
    BY <1>1, <2>4, <2>5, <2>6, FewerJobs
<1> QED
  BY <1>3, <1>4 DEF StartJob

\* A job that is gone without a trace in the directory.
LEMMA FailKInv ==
  ASSUME KInv, IInv', NEW c \in Working,
         FailBeforeOpen(c) \/ FailToWrite(c)
  PROVE  KInv'
<1>1. /\ fitting' \subseteq fitting /\ writing' \subseteq writing /\ pending' = pending
      /\ UNCHANGED <<dir, readerVars, submitted>>
  BY DEF FailBeforeOpen, FailToWrite, userVars
<1>2. Working' \subseteq Working
  BY <1>1 DEF Working
<1>3. InFlight' \subseteq InFlight
  BY <1>1, <1>2 DEF InFlight
<1>4. OneEach' /\ PicksAsAsked'
  BY <1>1, <1>2 DEF KInv, OneEach, PicksAsAsked
<1> QED
  BY <1>1, <1>3, <1>4, FewerJobs

\* A job opens its file.
LEMMA OpenFileKInv ==
  ASSUME KInv, IInv', NEW c \in fitting, OpenFile(c)
  PROVE  KInv'
<1>1. /\ fitting' = fitting \ {c} /\ writing' = writing \cup {c} /\ pending' = pending
      /\ dir' = [dir EXCEPT ![FileName(c)] = Unreadable]
      /\ UNCHANGED <<readerVars, submitted>>
  BY DEF OpenFile, userVars
<1>2. c \in Working /\ Working' = Working /\ Unreadable \notin Results
  BY <1>1, CampaignAssumption DEF Working
<1>3. InFlight' = InFlight
  BY <1>1, <1>2 DEF InFlight
<1>4. OneEach' /\ PicksAsAsked'
  BY <1>1, <1>2 DEF KInv, OneEach, PicksAsAsked
<1> QED
  BY <1>1, <1>2, <1>3, <1>4, JobWrites

\* A job writes its result and is gone.
LEMMA WriteFileKInv ==
  ASSUME KInv, IInv', NEW c \in writing, WriteFile(c)
  PROVE  KInv'
<1> DEFINE result == [poi |-> c.job.poi, np |-> c.np]
<1>1. /\ writing' = writing \ {c} /\ fitting' = fitting /\ pending' = pending
      /\ dir' = [dir EXCEPT ![FileName(c)] = result]
      /\ UNCHANGED <<readerVars, submitted>>
  BY DEF WriteFile, userVars
<1> HIDE DEF result
<1>2. c \in Working /\ Working' = Working \ {c}
  BY <1>1 DEF Working, KInv, OneEach
<1>3. InFlight' \subseteq InFlight /\ c.job \notin InFlight'
  BY <1>1, <1>2 DEF InFlight, KInv, OneEach
<1>4. OneEach' /\ PicksAsAsked'
  BY <1>1, <1>2 DEF KInv, OneEach, PicksAsAsked
<1> QED
  BY <1>1, <1>2, <1>3, <1>4, JobWrites

\* run_remote.sh, for a POI it was not called for.
LEMMA SubmitByNumberKInv ==
  ASSUME KInv, IInv', NEW poi \in POIs, SubmitByNumber(poi)
  PROVE  KInv'
<1> DEFINE new == {[poi |-> poi, np_name |-> NoName, worker_id |-> id] : id \in Workers}
<1>1. /\ poi \notin submitted /\ submitted' = submitted \cup {poi}
      /\ pending' = pending \cup new
      /\ UNCHANGED <<fitting, writing, dir, readerVars>>
  BY DEF SubmitByNumber
<1>2. \A j \in new : j.poi = poi /\ j.np_name = NoName
  OBVIOUS
<1>3. \A j, k \in new : j # k => j.worker_id # k.worker_id
  OBVIOUS
<1> HIDE DEF new
<1>4. (\A j \in InFlight : j.poi # poi) /\ (\A f \in Files : dir[f] \in Results => f.poi # poi)
  BY <1>1 DEF KInv, PoisSubmitted
<1>5. \A j \in new : j.poi = poi /\ Undone(dir, j)
  BY <1>2, <1>4 DEF Undone
<1>6. \A j, k \in new : j # k => Apart(j, k)
  BY <1>2, <1>3 DEF Apart
<1>7. reader' # "idle" => askedPoi' \in submitted'
  BY <1>1 DEF KInv, PoisSubmitted, readerVars
<1>8. SearchUndisturbed'
  <2>1. InFlight' = InFlight \cup new
    BY <1>1 DEF InFlight, Working
  <2>2. reader # "idle" => askedPoi # poi
    BY <1>1 DEF KInv, PoisSubmitted
  <2> QED
    BY <1>1, <1>2, <2>1, <2>2 DEF KInv, SearchUndisturbed, readerVars
<1>9. poi \in submitted' /\ submitted \subseteq submitted'
  BY <1>1
<1>10. UNCHANGED <<fitting, writing, dir>> /\ pending' = pending \cup new
  BY <1>1
<1> QED
  BY ONLY KInv, IInv', <1>4, <1>5, <1>6, <1>7, <1>8, <1>9, <1>10, NewJobs

\* The list of a search is submitted by name: what is on it has no result.
LEMMA SubmitMissingKInv ==
  ASSUME KInv, IInv', SubmitMissing
  PROVE  KInv'
<1> DEFINE new == {[poi |-> askedPoi, np_name |-> n, worker_id |-> 9999] : n \in missing}
<1>1. /\ reader = "listed" /\ reader' = "idle"
      /\ pending' = pending \cup new
      /\ UNCHANGED <<fitting, writing, dir, submitted>>
  BY DEF SubmitMissing
<1>2. \A j \in new : j.poi = askedPoi /\ j.np_name \in missing
  OBVIOUS
<1>3. \A j, k \in new : j # k => j.np_name # k.np_name
  OBVIOUS
<1> HIDE DEF new
<1>4. /\ \A j \in InFlight : j.poi # askedPoi
      /\ \A f \in Files : f.poi = askedPoi => dir[f] = atStart[f]
      /\ askedPoi \in submitted
  BY <1>1 DEF KInv, SearchUndisturbed, PoisSubmitted
<1>5. missing = NPs \ present /\ NoName \notin missing
      /\ \A f \in Files : atStart[f] # Absent => f \in seen
  BY <1>1, CampaignAssumption DEF KInv, IInv, ListComplete
<1>6. \A f \in Files : f.poi = askedPoi /\ dir[f] \in Results => f.np \notin missing
  <2>1. Absent \notin Results
    BY CampaignAssumption
  <2> QED
    BY <1>1, <1>4, <1>5, <2>1 DEF KInv, IInv, Counted
<1>7. \A j \in new : j.poi = askedPoi /\ Undone(dir, j)
  BY <1>2, <1>5, <1>6 DEF Undone
<1>8. \A j, k \in new : j # k => Apart(j, k)
  BY <1>2, <1>3, <1>5 DEF Apart
<1>9. SearchUndisturbed' /\ (reader' # "idle" => askedPoi' \in submitted')
  BY <1>1 DEF SearchUndisturbed
<1>10. askedPoi \in submitted' /\ submitted \subseteq submitted'
  BY <1>1, <1>4
<1>11. UNCHANGED <<fitting, writing, dir>> /\ pending' = pending \cup new
  BY <1>1
<1> QED
  BY ONLY KInv, IInv', <1>4, <1>7, <1>8, <1>9, <1>10, <1>11, NewJobs

\* A step of a search, which no job notices.
LEMMA SearchKInv ==
  ASSUME Patient, KInv, IInv', UNCHANGED <<jobVars, userVars>>,
         \/ reader' = reader /\ UNCHANGED <<askedPoi, atStart>>
         \/ reader = "reading" /\ reader' \in {"listed", "aborted"}
            /\ UNCHANGED <<askedPoi, atStart>>
         \/ \E poi \in POIs : StartReading(poi)
  PROVE  KInv'
<1>1. /\ UNCHANGED <<pending, fitting, writing, dir, submitted>>
      /\ InFlight' = InFlight /\ Working' = Working
  BY DEF jobVars, userVars, InFlight, Working
<1>2. OneEach' /\ JobsApart' /\ PicksAsAsked' /\ JobsUndone'
  BY <1>1 DEF KInv, OneEach, JobsApart, Apart, PicksAsAsked, JobsUndone, Undone
<1>3. CASE \E poi \in POIs : StartReading(poi)
  <2>1. PICK poi \in POIs : StartReading(poi)
    BY <1>3
  <2>2. poi \in submitted /\ askedPoi' = poi /\ atStart' = dir /\ InFlight = {}
    BY <2>1 DEF StartReading, InFlight, Working
  <2> QED
    BY <1>1, <1>2, <2>2 DEF KInv, PoisSubmitted, SearchUndisturbed
<1>4. CASE /\ reader' = reader \/ (reader = "reading" /\ reader' \in {"listed", "aborted"})
           /\ UNCHANGED <<askedPoi, atStart>>
  BY <1>1, <1>2, <1>4 DEF KInv, PoisSubmitted, SearchUndisturbed
<1> QED
  BY <1>3, <1>4

\* Every step keeps the invariant, if the user waits.
LEMMA NextKInv == ASSUME Patient PROVE KInv /\ [Next]_vars => KInv'
<1> SUFFICES ASSUME KInv, [Next]_vars PROVE KInv'
  OBVIOUS
<1>i. IInv'
  BY NextIInv DEF KInv
<1>1. ASSUME NEW job \in pending, StartJob(job)
      PROVE  KInv'
  BY <1>i, <1>1, StartJobKInv
<1>2. ASSUME NEW c \in fitting, OpenFile(c)
      PROVE  KInv'
  BY <1>i, <1>2, OpenFileKInv
<1>3. ASSUME NEW c \in writing, WriteFile(c)
      PROVE  KInv'
  BY <1>i, <1>3, WriteFileKInv
<1>4. ASSUME NEW c \in Working, FailBeforeOpen(c) \/ FailToWrite(c)
      PROVE  KInv'
  BY <1>i, <1>4, FailKInv
<1>5. ASSUME NEW poi \in POIs, SubmitByNumber(poi)
      PROVE  KInv'
  BY <1>i, <1>5, SubmitByNumberKInv
<1>6. ASSUME NEW poi \in POIs, StartReading(poi)
      PROVE  KInv'
  <2>1. UNCHANGED <<jobVars, userVars>>
    BY <1>6 DEF StartReading
  <2> QED
    BY <1>i, <1>6, <2>1, SearchKInv
<1>7. CASE SubmitMissing
  BY <1>i, <1>7, SubmitMissingKInv
<1>8. ASSUME NEW f \in Files, ReadFile(f)
      PROVE  KInv'
  <2>1. /\ UNCHANGED <<jobVars, userVars, askedPoi, atStart>>
        /\ reader = "reading" /\ (reader' = reader \/ reader' = "aborted")
    BY <1>8 DEF ReadFile, ReadValuesOneFile
  <2> QED
    BY <1>i, <2>1, SearchKInv
<1>9. CASE ComputeMissingNPs
  <2>1. /\ UNCHANGED <<jobVars, userVars, askedPoi, atStart>>
        /\ reader = "reading" /\ reader' = "listed"
    BY <1>9 DEF ComputeMissingNPs
  <2> QED
    BY <1>i, <2>1, SearchKInv
<1>10. CASE UNCHANGED vars
  <2>1. UNCHANGED <<jobVars, userVars, askedPoi, atStart, reader>>
    BY <1>10 DEF vars, readerVars
  <2> QED
    BY <1>i, <2>1, SearchKInv
<1> QED
  BY <1>1, <1>2, <1>3, <1>4, <1>5, <1>6, <1>7, <1>8, <1>9, <1>10
     DEF Next, JobStep, ReaderStep, Working

\* Only a job at work touches the directory, and only its own file.
LEMMA ResultsStay ==
  KInv /\ [Next]_vars => \A f \in Files : dir[f] \in Results => dir'[f] = dir[f]
<1> SUFFICES ASSUME KInv, [Next]_vars, NEW f \in Files, dir[f] \in Results
             PROVE  dir'[f] = dir[f]
  OBVIOUS
<1>1. ASSUME NEW c \in Working, OpenFile(c) \/ WriteFile(c)
      PROVE  dir'[f] = dir[f]
  <2>1. f # FileName(c)
    BY OwnFileUndone
  <2>2. \A g \in Files : g # FileName(c) => dir'[g] = dir[g]
    BY <1>1 DEF OpenFile, WriteFile, KInv, IInv, TypeOK
  <2> QED
    BY <2>1, <2>2
<1>2. CASE UNCHANGED dir
  BY <1>2
<1> QED
  BY <1>1, <1>2
     DEF Next, JobStep, ReaderStep, Working, StartJob, FailBeforeOpen, FailToWrite,
         SubmitByNumber, StartReading, SubmitMissing, ReadFile, ComputeMissingNPs,
         vars, jobVars

\* With a user who looks for missing NPs when no job is left, no result is
\* ever overwritten, however many NPs, jobs, failures and searches there are.
THEOREM ResultsSurvive == ASSUME Patient PROVE Spec => ResultsKept
BY InitKInv, NextKInv, ResultsStay, PTL DEF Spec, ResultsKept

-----------------------------------------------------------------------------
\* A job that is submitted by the name of an NP that is first in neither list
\* and no gamma, and that has left the queue, has found that NP.
RecoverableJobFits(job) ==
  job.np_name \in Recoverable =>
    \E c \in fitting' : c.job = job /\ c.np = job.np_name

StartedJobsFindTheirNp ==
  [][\A job \in pending : job \notin pending' => RecoverableJobFits(job)]_vars

\* The search by name finds these NPs in either list, although it never finds
\* the first one of the list it looks in (ByName).
THEOREM RecoverableNpsAreFound ==
  \A n \in Recoverable, noGamma \in BOOLEAN :
    ByName(noGamma, n) # {} /\ \A c \in ByName(noGamma, n) : c.np = n
<1> SUFFICES ASSUME NEW n \in Recoverable, NEW noGamma \in BOOLEAN
             PROVE  /\ ByName(noGamma, n) # {}
                    /\ \A c \in ByName(noGamma, n) : c.np = n
  OBVIOUS
<1> DEFINE list == NpList(noGamma)
<1>1. n \in NPs /\ n \notin Gamma /\ n # PairedNps[1] /\ n # NonGammaNps[1]
  BY DEF Recoverable
<1>2. PICK i \in 1 .. Len(PairedNps) : PairedNps[i] = n
  BY <1>1 DEF NPs
<1>3. PICK j \in 1 .. Len(list) : list[j] = n
  BY <1>1, <1>2, NonGammaNpsType DEF NpList
<1>4. list = NonGammaNps \/ list = PairedNps
  BY DEF NpList
<1> HIDE DEF list
<1>5. list \in Seq(NPs) /\ j # 1
  BY <1>1, <1>3, <1>4, NonGammaNpsType, CampaignAssumption
<1>6. j \in {k \in 2 .. Len(list) : list[k] = n}
  BY <1>3, <1>5
<1>7. ByName(noGamma, n) =
        {[np |-> n, number |-> k - 1] : k \in {l \in 2 .. Len(list) : list[l] = n}}
  BY DEF ByName, list
<1>8. [np |-> n, number |-> j - 1] \in ByName(noGamma, n)
  BY <1>6, <1>7, Zenon
<1>9. ASSUME NEW c \in ByName(noGamma, n) PROVE c.np = n
  BY <1>7
<1> QED
  BY <1>8, <1>9

\* So a job that is sent after such an NP fits it, whichever of the two lists
\* the uninitialised flag makes it look in (StartJob, SubmitMissing).
LEMMA StartedJobFits ==
  ASSUME NEW job, StartJob(job)
  PROVE  RecoverableJobFits(job)
<1> SUFFICES ASSUME job.np_name \in Recoverable
             PROVE  \E c \in fitting' : c.job = job /\ c.np = job.np_name
  BY DEF RecoverableJobFits
<1>1. job.np_name # NoName
  BY CampaignAssumption DEF Recoverable
<1>2. PICK noGamma \in BOOLEAN :
        \/ \E c \in Choices(job, noGamma) :
             fitting' = fitting \cup {[job |-> job, number |-> c.number, np |-> c.np]}
        \/ Choices(job, noGamma) = {}
  BY DEF StartJob
<1>3. /\ Choices(job, noGamma) # {}
      /\ \A c \in Choices(job, noGamma) : c.np = job.np_name
  BY <1>1, RecoverableNpsAreFound DEF Choices
<1>4. PICK c \in Choices(job, noGamma) :
        fitting' = fitting \cup {[job |-> job, number |-> c.number, np |-> c.np]}
  BY <1>2, <1>3
<1> QED
  BY <1>3, <1>4

\* No job with such a name leaves the queue without a fit under way.
THEOREM RecoverableJobsFit == Spec => StartedJobsFindTheirNp
<1>1. ASSUME [Next]_vars, NEW job \in pending, job \notin pending'
      PROVE  StartJob(job)
  BY <1>1
     DEF Next, JobStep, ReaderStep, StartJob, OpenFile, WriteFile, FailBeforeOpen,
         FailToWrite, SubmitByNumber, StartReading, SubmitMissing, ReadFile,
         ComputeMissingNPs, vars, jobVars, readerVars, userVars
<1>2. [Next]_vars => \A job \in pending : job \notin pending' => RecoverableJobFits(job)
  BY <1>1, StartedJobFits
<1> QED
  BY <1>2, PTL DEF Spec, StartedJobsFindTheirNp

-----------------------------------------------------------------------------
\* An NP is taken care of: it has a result, or a job that will give it one.
InHand(n) ==
  \/ \E r \in published : r.np = n
  \/ \E job \in pending : job.np_name = n
  \/ \E c \in fitting \cup writing : c.np = n

AllTakenInHand ==
  [][SubmitMissing => \A n \in NPs : InHand(n)']_vars

OnlyFailuresLose ==
  [][\A n \in Recoverable : InHand(n) /\ ~ InHand(n)' => failures' = failures + 1]_vars

\* The list that the user submits leaves no NP out, and of those that can be
\* found by name only a failed job gives one up: so after a round in which no
\* job fails, all of them are ranked (SubmitMissing, StartJob).
THEOREM RecoverableNpsStayInHand == Spec => AllTakenInHand /\ OnlyFailuresLose
<1>1. Init => IInv
  BY InitIInv
<1>2. IInv /\ [Next]_vars => IInv'
  BY NextIInv
<1>3. ASSUME IInv, SubmitMissing, NEW n \in NPs PROVE InHand(n)'
  <2>1. reader = "listed" /\ published' = published
        /\ pending' = pending \cup
             {[poi |-> askedPoi, np_name |-> m, worker_id |-> 9999] : m \in missing}
    BY <1>3 DEF SubmitMissing
  <2>2. CASE n \in missing
    <3>1. [poi |-> askedPoi, np_name |-> n, worker_id |-> 9999] \in pending'
      BY <2>1, <2>2
    <3> QED
      BY <3>1 DEF InHand
  <2>3. CASE n \notin missing
    <3>1. \E r \in published : r.np = n
      BY <1>3, <2>1, <2>3 DEF IInv, ListComplete, PresentPublished
    <3> QED
      BY <2>1, <3>1 DEF InHand
  <2> QED
    BY <2>2, <2>3
<1>4. ASSUME IInv, Next, NEW n \in Recoverable, InHand(n), failures' # failures + 1
      PROVE  InHand(n)'
  <2>0. published \subseteq published'
    BY <1>4 DEF Next, JobStep, ReaderStep, StartJob, OpenFile, WriteFile, FailBeforeOpen,
                FailToWrite, SubmitByNumber, StartReading, SubmitMissing, ReadFile,
                ComputeMissingNPs, vars, jobVars, readerVars, userVars
  <2>1. ASSUME NEW job \in pending, StartJob(job) PROVE InHand(n)'
    <3>1. pending' = pending \ {job} /\ writing' = writing /\ fitting \subseteq fitting'
      BY <2>1 DEF StartJob
    <3>2. CASE job.np_name # n
      BY <1>4, <2>0, <3>1, <3>2 DEF InHand
    <3>3. CASE job.np_name = n
      <4>1. \E c \in fitting' : c.np = n
        BY <1>4, <2>1, <3>3, StartedJobFits DEF RecoverableJobFits
      <4> QED
        BY <4>1 DEF InHand
    <3> QED
      BY <3>2, <3>3
  <2>2. ASSUME NEW c \in fitting, OpenFile(c) PROVE InHand(n)'
    BY <1>4, <2>0, <2>2 DEF OpenFile, InHand
  <2>3. ASSUME NEW c \in writing, WriteFile(c) PROVE InHand(n)'
    <3>1. /\ pending' = pending /\ fitting' = fitting /\ writing' = writing \ {c}
          /\ [poi |-> c.job.poi, np |-> c.np] \in published'
      BY <2>3 DEF WriteFile, readerVars, userVars
    <3>2. CASE c.np # n
      BY <1>4, <2>0, <3>1, <3>2 DEF InHand
    <3>3. CASE c.np = n
      BY <3>1, <3>3 DEF InHand
    <3> QED
      BY <3>2, <3>3
  <2>4. CASE UNCHANGED <<fitting, writing>> /\ pending \subseteq pending'
    BY <1>4, <2>0, <2>4 DEF InHand
  <2> QED
    BY <1>4, <2>1, <2>2, <2>3, <2>4
    DEF Next, JobStep, ReaderStep, FailBeforeOpen, FailToWrite, SubmitByNumber,
        StartReading, SubmitMissing, ReadFile, ComputeMissingNPs, jobVars
<1>5. IInv /\ [Next]_vars =>
        (SubmitMissing => \A n \in NPs : InHand(n)') \/ UNCHANGED vars
  BY <1>3
<1>6. IInv /\ [Next]_vars =>
        \/ \A n \in Recoverable : InHand(n) /\ ~ InHand(n)' => failures' = failures + 1
        \/ UNCHANGED vars
  BY <1>4
<1> QED
  BY <1>1, <1>2, <1>5, <1>6, PTL DEF Spec, AllTakenInHand, OnlyFailuresLose
=============================================================================
