--------------------------- MODULE RankingCampaign ---------------------------
(***************************************************************************)
(* A ranking campaign: batch jobs, each a ranking worker in a process of   *)
(* its own, write one JSON file each into a directory that they share.     *)
(* Some of them fail.  A get_missing_nps process reads the directory and   *)
(* lists the nuisance parameters (NPs) that have no file, and the user     *)
(* submits those again by name.                                            *)
(*                                                                         *)
(* A worker is reduced to what the others see of it: which NP it picks     *)
(* (NpSelection), and the opening and the writing of its file, two steps   *)
(* between which it may be killed or the disk may be full.  RankingWorker  *)
(* has the rest.                                                           *)
(***************************************************************************)
EXTENDS NpSelection

CONSTANTS
  POIs,           \* parameters of interest the campaign is about
  Workers,        \* the numbers run_remote.sh counts through
  NoPoi,          \* no --poi yet
  Absent,         \* a file that is not there
  Unreadable,     \* one with nothing in it, or with null where a number must be
  MaxFailures,    \* bound: jobs that are killed or cannot write
  MaxRounds,      \* bound: lists of missing NPs the user submits
  WritesMayFail,  \* failures reach the files: between open and write, or nulls
  Patient         \* the user looks for missing NPs when no job is left

NPs == {PairedNps[i] : i \in 1 .. Len(PairedNps)}
Numbers == 0 .. Len(PairedNps) - 1

\* --poi, --np_name and --worker_id of a job.
Jobs == [poi : POIs, np_name : NPs \cup {NoName}, worker_id : Nat]

\* res__<poi>__worker_<number>__<np>.json, and what a complete file holds.
Files == [poi : POIs, number : Numbers, np : NPs]
Results == [poi : POIs, np : NPs]

Chosen == [job : Jobs, number : Numbers, np : NPs]

ASSUME CampaignAssumption ==
  /\ PairedNps \in Seq(NPs)
  /\ Workers \subseteq Nat /\ MaxFailures \in Nat /\ MaxRounds \in Nat
  /\ WritesMayFail \in BOOLEAN /\ Patient \in BOOLEAN
  /\ NoName \notin NPs /\ NoPoi \notin POIs
  /\ Absent # Unreadable /\ {Absent, Unreadable} \cap Results = {}

VARIABLES
  pending,   \* jobs the batch system has not started
  fitting,   \* jobs that have picked their NP
  writing,   \* jobs that have opened their file and not yet written it
  dir,       \* the directory: per file name Absent, Unreadable or a result
  failures,  \* jobs that have failed
  reader,    \* get_missing_nps: "idle", "reading", "listed", "aborted"
  askedPoi,  \* its --poi
  seen,      \* files its directory_iterator has returned
  present,   \* present_nps_
  missing,   \* missing_nps_
  submitted, \* POIs run_remote.sh was called for
  rounds,    \* lists submitted by name
  \* history, read by properties only
  atStart,   \* the directory when the reader began
  published  \* results that were ever complete

jobVars == <<pending, fitting, writing, dir, failures, published>>
readerVars == <<reader, askedPoi, seen, present, missing, atStart>>
userVars == <<submitted, rounds>>
vars == <<jobVars, readerVars, userVars>>

-----------------------------------------------------------------------------
(***************************************************************************)
(* Jobs.                                                                   *)
(***************************************************************************)

\* Mutant: the name of the NP is not part of the file name.
FileNameWithoutNp(c) == [poi |-> c.job.poi, number |-> c.number, np |-> PairedNps[1]]

FileName(c) == [poi |-> c.job.poi, number |-> c.number, np |-> c.np]

Choices(job, noGamma) ==
  IF job.np_name = NoName THEN ByWorkerId(noGamma, job.worker_id)
                          ELSE ByName(noGamma, job.np_name)

\* A job starts and picks its NP from a list that depends on a flag nobody
\* has initialised; it ends there if its number or name is not found.
StartJob(job) ==
  /\ job \in pending
  /\ pending' = pending \ {job}
  /\ \E noGamma \in BOOLEAN :
       \/ \E c \in Choices(job, noGamma) :
            fitting' = fitting \cup {[job |-> job, number |-> c.number, np |-> c.np]}
       \/ /\ Choices(job, noGamma) = {}
          /\ UNCHANGED fitting
  /\ UNCHANGED <<writing, dir, failures, published, readerVars, userVars>>

\* f_res.open(name): the file is there, and empty, so that it is unreadable.
OpenFile(c) ==
  /\ c \in fitting
  /\ fitting' = fitting \ {c}
  /\ writing' = writing \cup {c}
  /\ dir' = [dir EXCEPT ![FileName(c)] = Unreadable]
  /\ UNCHANGED <<pending, failures, published, readerVars, userVars>>

\* The result fits the buffer of the stream: it gets out at once or not at all.
WriteFile(c) ==
  /\ c \in writing
  /\ writing' = writing \ {c}
  /\ dir' = [dir EXCEPT ![FileName(c)] = [poi |-> c.job.poi, np |-> c.np]]
  /\ published' = published \cup {[poi |-> c.job.poi, np |-> c.np]}
  /\ UNCHANGED <<pending, fitting, failures, readerVars, userVars>>

\* The job is killed while it fits, or cannot open its file: no trace of it.
FailBeforeOpen(c) ==
  /\ c \in fitting
  /\ failures < MaxFailures
  /\ failures' = failures + 1
  /\ fitting' = fitting \ {c}
  /\ UNCHANGED <<pending, writing, dir, published, readerVars, userVars>>

\* The job is killed after it opened its file, or the write fails and the
\* result goes to the console: the file stays empty.  Or the fit ended on a
\* number that is none (nan), for which JSON has null: the file is complete,
\* and as unreadable as an empty one.
FailToWrite(c) ==
  /\ WritesMayFail
  /\ c \in writing
  /\ failures < MaxFailures
  /\ failures' = failures + 1
  /\ writing' = writing \ {c}
  /\ UNCHANGED <<pending, fitting, dir, published, readerVars, userVars>>

-----------------------------------------------------------------------------
(***************************************************************************)
(* The user and his scripts.                                               *)
(***************************************************************************)

\* run_remote.sh, once per POI.
SubmitByNumber(poi) ==
  /\ poi \notin submitted
  /\ submitted' = submitted \cup {poi}
  /\ pending' = pending \cup
       {[poi |-> poi, np_name |-> NoName, worker_id |-> id] : id \in Workers}
  /\ UNCHANGED <<fitting, writing, dir, failures, published, readerVars, rounds>>

\* submit_nps_by_name.sh with the list that get_missing_nps printed; the
\* process that printed it is gone.
SubmitMissing ==
  /\ reader = "listed"
  /\ rounds < MaxRounds
  /\ rounds' = rounds + 1
  /\ pending' = pending \cup
       {[poi |-> askedPoi, np_name |-> n, worker_id |-> 9999] : n \in missing}
  /\ reader' = "idle" /\ askedPoi' = NoPoi
  /\ seen' = {} /\ present' = {} /\ missing' = {}
  /\ atStart' = [f \in Files |-> Absent]
  /\ UNCHANGED <<fitting, writing, dir, failures, published, submitted>>

-----------------------------------------------------------------------------
(***************************************************************************)
(* get_missing_nps: MissingNpsProcessor over NpRankingPlotter::ReadValues. *)
(***************************************************************************)
Exists(d, f) == d[f] # Absent

\* A new process: --poi is read into the settings of the plotter.
StartReading(poi) ==
  /\ reader = "idle"
  /\ poi \in submitted
  /\ Patient => pending = {} /\ fitting = {} /\ writing = {}
  /\ reader' = "reading"
  /\ askedPoi' = poi
  /\ atStart' = dir
  /\ UNCHANGED <<jobVars, seen, present, missing, userVars>>

\* Mutant: a file that cannot be parsed is skipped.
ReadValuesOneFileLenient(f) ==
  /\ present' = present \cup (IF dir[f] = Unreadable THEN {} ELSE {dir[f].np})
  /\ reader' = reader

\* An empty file makes the parser throw, outside the try block; a null in
\* place of a number makes the conversion throw, and its handler, which allows
\* for a null nll only, throws again.  Nobody catches.
ReadValuesOneFile(f) ==
  \/ /\ dir[f] = Unreadable
     /\ reader' = "aborted"
     /\ UNCHANGED present
  \/ /\ dir[f] \in Results
     /\ present' = present \cup {dir[f].np}
     /\ reader' = reader

\* The iterator returns every file that was there when it was opened, in any
\* order, and may return one that has appeared since.
ReadFile(f) ==
  /\ reader = "reading"
  /\ Exists(dir, f) /\ f \notin seen
  /\ seen' = seen \cup {f}
  /\ ReadValuesOneFile(f)
  /\ UNCHANGED <<jobVars, askedPoi, missing, atStart, userVars>>

\* Mutant: the test for presence is inverted.
ComputeMissingNPsInverted ==
  /\ reader = "reading"
  /\ {f \in Files : Exists(atStart, f)} \subseteq seen
  /\ reader' = "listed"
  /\ missing' = present
  /\ UNCHANGED <<jobVars, askedPoi, seen, present, atStart, userVars>>

\* all_nps_ without present_nps_, whatever POI the files are about.
ComputeMissingNPs ==
  /\ reader = "reading"
  /\ {f \in Files : Exists(atStart, f)} \subseteq seen
  /\ reader' = "listed"
  /\ missing' = NPs \ present
  /\ UNCHANGED <<jobVars, askedPoi, seen, present, atStart, userVars>>

-----------------------------------------------------------------------------
Init ==
  /\ pending = {} /\ fitting = {} /\ writing = {}
  /\ dir = [f \in Files |-> Absent]
  /\ failures = 0
  /\ reader = "idle" /\ askedPoi = NoPoi
  /\ seen = {} /\ present = {} /\ missing = {}
  /\ submitted = {} /\ rounds = 0
  /\ atStart = dir
  /\ published = {}

JobStep ==
  \/ \E job \in pending : StartJob(job)
  \/ \E c \in fitting : OpenFile(c)
  \/ \E c \in writing : WriteFile(c)

ReaderStep == (\E f \in Files : ReadFile(f)) \/ ComputeMissingNPs

Next ==
  \/ JobStep
  \/ \E c \in fitting : FailBeforeOpen(c)
  \/ \E c \in writing : FailToWrite(c)
  \/ \E poi \in POIs : SubmitByNumber(poi) \/ StartReading(poi)
  \/ SubmitMissing
  \/ ReaderStep

Spec == Init /\ [][Next]_vars

\* The batch system starts every job, a process that is not killed goes on,
\* and the user keeps to the procedure of the README.
FairSpec ==
  /\ Spec
  /\ WF_vars(JobStep) /\ WF_vars(ReaderStep) /\ WF_vars(SubmitMissing)
  /\ \A poi \in POIs : WF_vars(SubmitByNumber(poi)) /\ WF_vars(StartReading(poi))

-----------------------------------------------------------------------------
\* Every variable has its type.
TypeOK ==
  /\ pending \subseteq Jobs
  /\ fitting \subseteq Chosen /\ writing \subseteq Chosen
  /\ dir \in [Files -> Results \cup {Absent, Unreadable}]
  /\ atStart \in [Files -> Results \cup {Absent, Unreadable}]
  /\ failures \in 0 .. MaxFailures
  /\ reader \in {"idle", "reading", "listed", "aborted"}
  /\ askedPoi \in IF reader = "idle" THEN {NoPoi} ELSE POIs
  /\ seen \subseteq Files
  /\ present \subseteq NPs /\ missing \subseteq NPs
  /\ submitted \subseteq POIs /\ rounds \in 0 .. MaxRounds
  /\ published \subseteq Results

\* The list of get_missing_nps has no NP whose result was in the directory
\* when the search began, although jobs open, empty and complete files while
\* it reads; and an NP it leaves out did have a result, of some POI
\* (ReadValues, ReadValuesOneFile, ComputeMissingNPs).
MissingListIsRight ==
  reader = "listed" =>
    /\ \A f \in Files : atStart[f] \in Results => atStart[f].np \notin missing
    /\ \A n \in NPs \ missing : \E r \in published : r.np = n

\* With a user who waits for the jobs to end, no job ever opens a file that
\* holds a result: the three parts of the file name, and the list the user
\* submits from, keep later jobs off earlier results (the name built in
\* ComputeNpRankingOneWorker; open truncates).
ResultsKept ==
  [][\A f \in Files : dir[f] \in Results => dir'[f] = dir[f]]_vars

\* Whatever jobs are killed while they fit, an NP that is in both lists, and
\* first in neither, has a result in the end: the search finds it and its job
\* finds it by name, whichever list that job looks in.
Recoverable ==
  {n \in NPs \ Gamma : n # PairedNps[1] /\ n # NonGammaNps[1]}

RecoverableNpsAreRanked ==
  \A n \in Recoverable : <>(\E r \in published : r.np = n)

\* "name of the POI for which NPs must be checked" (README.md:276): an NP
\* without a result for that POI is on the list.
MissingForAskedPoi ==
  reader = "listed" =>
    \A n \in NPs : [poi |-> askedPoi, np |-> n] \notin published => n \in missing

\* "some jobs ... may fail. To find such NPs, one can ..." (README.md:255):
\* the search survives what a failed job left behind.
SearchSurvivesFailedJobs == reader # "aborted"
=============================================================================
