------------------------------ MODULE JobFarm -------------------------------
(***************************************************************************)
(* Toy jobs on a batch system: PBSJobBuilder.py writes job files to a      *)
(* directory and keeps there, from one run to the next, the largest seed   *)
(* and job number used; PBSJobScheduler.py submits what it finds there.    *)
(* Both run as processes that may be killed or interrupted and that know   *)
(* nothing of each other.                                                  *)
(*                                                                         *)
(* Python writes a file when it is closed: until then an opened file is    *)
(* Empty.  Those of create_jobs are closed when it returns, and when an    *)
(* exception ends it.                                                      *)
(*                                                                         *)
(* Scan values are decimal numbers, counted in their last decimal place: a *)
(* float stands for the one it is nearest to, as in the text of a job      *)
(* file.  What the rounding of the sums decides is whether a sum that is   *)
(* the end of the scan comes out above it (over).                          *)
(* External, modelled from their use: qsub, qstat and the file system.     *)
(***************************************************************************)
EXTENDS Integers, FiniteSets, Sequences

CONSTANTS
  Builders, Schedulers, \* processes that run the scripts
  Options,     \* command lines of PBSJobBuilder.py: basename, minseed, jobs
               \* and iterations per job, and the two scan parameters with
               \* start, end, inc, perjob and over
  QueueLimit,  \* max_number_jobs
  MaxRuns,     \* bound: runs of PBSJobBuilder.py
  MaxAtATime,  \* bound: scripts that run at a time
  MaxMishaps   \* bound: kinds of mishaps

Bases == {o.basename : o \in Options} \cup {""}

(* The last job of the scan is lost: it has the end of the scan alone, and *)
(* the sum that leads there is above it, as 0.1 + 0.1 + 0.1 is above 0.3.  *)
EndLost(scan) ==
  /\ scan.over
  /\ scan.inc > 0
  /\ scan.start < scan.end
  /\ (scan.end - scan.start) % (scan.inc * scan.perjob) = 0

(* The number of values at which the jobs of a scan parameter start: the   *)
(* loop's condition leaves one value when there is nothing to add.         *)
Starts(scan) ==
  IF scan.inc = 0 THEN 1
  ELSE IF scan.start > scan.end THEN 0
  ELSE (scan.end - scan.start) \div (scan.inc * scan.perjob)
         + (IF EndLost(scan) THEN 0 ELSE 1)

Lesser(x, y) == IF x < y THEN x ELSE y

(* Mutant: a job's last value is the first of the next job.                *)
BugRangeTooLong(scan, k) ==
  LET value == scan.start + k * scan.inc * scan.perjob IN
  [start |-> value,
   end |-> Lesser(value + scan.inc * scan.perjob, scan.end)]

ScanRange(scan, k) ==
  LET value == scan.start + k * scan.inc * scan.perjob IN
  [start |-> value,
   end |-> Lesser(value + scan.inc * (scan.perjob - 1), scan.end)]

(* The ranges of the jobs in the order of the two loops.                   *)
Points(o) == Starts(o.scan1) * Starts(o.scan2)
Grid(o) ==
  [p \in 1..Points(o) |->
     [scan1 |-> ScanRange(o.scan1, (p - 1) % Starts(o.scan1)),
      scan2 |-> ScanRange(o.scan2, (p - 1) \div Starts(o.scan1))]]
Ranges == UNION {{Grid(o)[p] : p \in 1..Points(o)} : o \in Options}

(* The loops over the scan end: their values grow, by a whole number of    *)
(* increments for each job.                                                *)
IsScan(scan) ==
  /\ scan.start \in Int /\ scan.end \in Int
  /\ scan.inc \in Nat /\ scan.perjob \in Nat \ {0}
  /\ scan.over \in BOOLEAN

ASSUME JobFarmAssumption ==
  /\ \A o \in Options :
       /\ o.minseed \in Nat
       /\ o.jobs \in Nat \ {0}
       /\ o.iterations \in Nat \ {0}
       /\ IsScan(o.scan1) /\ IsScan(o.scan2)
  /\ QueueLimit \in Nat
  /\ MaxRuns \in Nat
  /\ MaxAtATime \in Nat
  /\ MaxMishaps \in Nat

VARIABLES
  \* the job directory
  bulk,      \* files of job_bulk_dir: name -> content
  control,   \* the basenames whose file control_<basename> is whole
  script,    \* submit_<basename>.sh: the job files it submits
  maxSeed, maxId, basename, \* the files of that name
  \* the batch system
  submitted, \* every submission so far: [name, job]
  again,     \* names submitted when they had been submitted before
  running,   \* jobs that qstat shows
  \* the processes
  build,     \* local variables of create_jobs
  sched,     \* local variables of submit_jobs
  \* bookkeeping of the model
  runs,      \* runs of PBSJobBuilder.py so far
  mishaps    \* what went on that the scripts do not guard against

dirVars == <<bulk, control, script, maxSeed, maxId, basename>>
queueVars == <<submitted, again, running>>
vars == <<dirVars, queueVars, build, sched, runs, mishaps>>

Number == Nat \cup {-1}
Absent == -3
Empty == -2
Job == [range: Ranges, first: Nat, last: Nat]
EmptyJob == [empty |-> TRUE]
Name == Bases \X Nat
Mishaps ==
  {"two_builders", "half_a_run", "seeds_without_ids",
   "builder_beside_scheduler", "two_schedulers", "scheduler_killed", "submit_script"}

(* What create_jobs does after its loops.                                  *)
Steps ==
  <<"open_control", "open_max_seed", "open_max_id", "open_basename",
    "close_submit", "close_control", "close_max_seed", "close_max_id",
    "close_basename">>

IdleBuild == [stage |-> "idle"]
BusyBuild ==
  [stage: {"next_job", "write_job"}, step: 1..Len(Steps),
   options: Options, base: Bases, minId: Nat, index: Nat, oldMinSeed: Nat,
   minSeed: Nat, newMinSeed: Nat, point: Nat \ {0}, i: Nat]
Build == {IdleBuild} \cup BusyBuild

IdleSched == [stage |-> "idle"]
Sched ==
  {IdleSched} \cup [stage: {"count"}, files: SUBSET Name]
  \cup [stage: {"submit"}, files: SUBSET Name, n: Int]
  \cup [stage: {"move"}, files: SUBSET Name, n: Int, file: Name]

TypeOK ==
  /\ DOMAIN bulk \subseteq Name
  /\ \A name \in DOMAIN bulk : bulk[name] \in Job \cup {EmptyJob}
  /\ control \subseteq Bases
  /\ script \in [Bases -> SUBSET Name]
  /\ maxSeed \in Number \cup {Absent, Empty}
  /\ maxId \in Number \cup {Absent, Empty}
  /\ basename \in Bases \cup {"absent"}
  /\ submitted \subseteq [name: Name, job: Job \cup {EmptyJob}]
  /\ again \subseteq Name
  /\ running \in Nat
  /\ build \in [Builders -> Build]
  /\ sched \in [Schedulers -> Sched]
  /\ runs \in 0..MaxRuns
  /\ mishaps \subseteq Mishaps

Init ==
  /\ bulk = <<>>
  /\ control = {}
  /\ script = [base \in Bases |-> {}]
  /\ maxSeed = Absent /\ maxId = Absent /\ basename = "absent"
  /\ submitted = {} /\ again = {} /\ running = 0
  /\ build = [b \in Builders |-> IdleBuild]
  /\ sched = [s \in Schedulers |-> IdleSched]
  /\ runs = 0
  /\ mishaps = {}

Building == {b \in Builders : build[b] # IdleBuild}
Scheduling == {s \in Schedulers : sched[s] # IdleSched}
MayStart == Cardinality(Building) + Cardinality(Scheduling) < MaxAtATime
Beside(condition, mishap) == IF condition THEN {mishap} ELSE {}

-----------------------------------------------------------------------------
(* PBSJobBuilder.py                                                        *)

(* The state of the last run, if it left one, replaces the options; an     *)
(* empty max_seed or max_id is not a number: int() raises, and the script  *)
(* has done nothing.  The submit script is opened next.                    *)
(* Mutant: an empty file is read as if it were a number.                   *)
BugEmptyIsRead == TRUE

StateReadable == maxSeed # Empty /\ maxId # Empty
FirstSeed(o) == IF maxSeed = Absent THEN o.minseed ELSE maxSeed + 1
(* Mutant: the run starts with the last job number, not behind it.         *)
BugLastIdAgain == IF maxId = Absent THEN 0 ELSE maxId

FirstId == IF maxId = Absent THEN 0 ELSE maxId + 1
JobBaseName(o) == IF basename = "absent" THEN o.basename ELSE basename

NewRun(o) ==
  [stage |-> "next_job", step |-> 1, options |-> o, base |-> JobBaseName(o),
   minId |-> FirstId, index |-> FirstId, oldMinSeed |-> FirstSeed(o),
   minSeed |-> FirstSeed(o), newMinSeed |-> FirstSeed(o), point |-> 1, i |-> 0]

StartBuild(b) ==
  /\ build[b] = IdleBuild
  /\ MayStart
  /\ runs < MaxRuns
  /\ runs' = runs + 1
  /\ \E o \in Options :
       IF StateReadable
       THEN /\ build' = [build EXCEPT ![b] = NewRun(o)]
            /\ script' = [script EXCEPT ![JobBaseName(o)] = {}]
       ELSE UNCHANGED <<build, script>>
  /\ mishaps' = mishaps
       \cup Beside(Building # {}, "two_builders")
       \cup Beside(Scheduling # {}, "builder_beside_scheduler")
  /\ UNCHANGED <<bulk, control, maxSeed, maxId, basename, queueVars, sched>>

(* create_single_job opens the job's file: what had its name is gone ...   *)
JobName(l) == <<l.base, l.index>>

OpenJob(b) ==
  LET l == build[b] IN
  /\ l.stage = "next_job"
  /\ l.point <= Points(l.options)
  /\ bulk' = [name \in DOMAIN bulk \cup {JobName(l)} |->
                IF name = JobName(l) THEN EmptyJob ELSE bulk[name]]
  /\ build' = [build EXCEPT ![b].stage = "write_job"]
  /\ UNCHANGED <<control, script, maxSeed, maxId, basename, queueVars, sched,
                 runs, mishaps>>

(* ... and closes it when it returns, to where it may have been moved; the *)
(* seeds start anew with the next scan point.                              *)
JobText(l) ==
  [range |-> Grid(l.options)[l.point], first |-> l.minSeed,
   last |-> l.minSeed + l.options.iterations - 1]

(* Mutant: the largest seed is forgotten with the scan point.              *)
BugSeedForgotten(l) ==
  LET next == [l EXCEPT !.stage = "next_job", !.index = @ + 1]
  IN  IF l.i + 1 < l.options.jobs
      THEN [next EXCEPT !.i = @ + 1,
                        !.minSeed = @ + l.options.iterations]
      ELSE [next EXCEPT !.i = 0, !.point = @ + 1, !.minSeed = l.oldMinSeed]

AfterJob(l) ==
  LET seed == l.minSeed + l.options.iterations
      next == [l EXCEPT !.stage = "next_job", !.index = @ + 1]
  IN  IF l.i + 1 < l.options.jobs
      THEN [next EXCEPT !.i = @ + 1, !.minSeed = seed]
      ELSE [next EXCEPT !.i = 0, !.point = @ + 1, !.newMinSeed = seed,
                        !.minSeed = l.oldMinSeed]

WithJob(l) ==
  [name \in DOMAIN bulk |->
     IF name = JobName(l) THEN JobText(l) ELSE bulk[name]]

CloseJob(b) ==
  LET l == build[b] IN
  /\ l.stage = "write_job"
  /\ bulk' = WithJob(l)
  /\ build' = [build EXCEPT ![b] = AfterJob(l)]
  /\ UNCHANGED <<control, script, maxSeed, maxId, basename, queueVars, sched,
                 runs, mishaps>>

(* The files that keep the state are truncated one by one, and written one *)
(* by one when their objects are released.                                 *)
JobNames(l) == {<<l.base, id>> : id \in l.minId..l.index - 1}

(* Mutant: the next job number is kept, not the last.                      *)
BugNextIdKept(l) == l.index
LastId(l) == l.index - 1
ControlOf(l) == l.base

EndStep(b) ==
  LET l == build[b]
      step == Steps[l.step]
  IN
  /\ l.stage = "next_job"
  /\ l.point > Points(l.options)
  /\ build' = [build EXCEPT ![b] = IF l.step = Len(Steps) THEN IdleBuild
                                   ELSE [l EXCEPT !.step = @ + 1]]
  /\ script' = IF step = "close_submit"
               THEN [script EXCEPT ![l.base] = JobNames(l)] ELSE script
  /\ control' = CASE step = "open_control"  -> control \ {ControlOf(l)}
                  [] step = "close_control" -> control \cup {ControlOf(l)}
                  [] OTHER -> control
  /\ maxSeed' = CASE step = "open_max_seed"  -> Empty
                  [] step = "close_max_seed" -> l.newMinSeed - 1
                  [] OTHER -> maxSeed
  /\ maxId' = CASE step = "open_max_id"  -> Empty
                [] step = "close_max_id" -> LastId(l)
                [] OTHER -> maxId
  /\ basename' = CASE step = "open_basename"  -> ""
                   [] step = "close_basename" -> l.base
                   [] OTHER -> basename
  /\ UNCHANGED <<bulk, queueVars, sched, runs, mishaps>>

(* A run that ends after its first change of the directory and before it   *)
(* truncates max_seed leaves things behind that no later run knows of.     *)
HalfARun(l) ==
  /\ l.stage = "write_job" \/ l.index > l.minId \/ l.step > 1
  /\ l.step < 3

(* Killed outright, the process loses what its files have not written.     *)
KillBuild(b) ==
  LET l == build[b] IN
  /\ l # IdleBuild
  /\ build' = [build EXCEPT ![b] = IdleBuild]
  /\ mishaps' = mishaps \cup Beside(HalfARun(l), "half_a_run")
  /\ UNCHANGED <<dirVars, queueVars, sched, runs>>

(* An exception or an interrupt from the keyboard closes the open files:   *)
(* they get the text that they were given, which the last may not have     *)
(* been yet (late).  File k is opened at step k and closed at step k + 5.  *)
TextOf(l, late, k) ==
  k < l.step /\ l.step <= k + 5 /\ ~(late /\ l.step = k + 1)

LineMissing(l, late) ==
  IF late /\ l.stage = "next_job" /\ l.step = 1
  THEN {<<l.base, l.index - 1>>} ELSE {}

(* Between max_seed and max_id, the next run has seeds of its own and the  *)
(* job numbers of this one.                                                *)
InterruptBuild(b) ==
  LET l == build[b] IN
  /\ l # IdleBuild
  /\ \E late \in BOOLEAN :
       /\ bulk' = IF l.stage = "write_job" /\ ~late THEN WithJob(l) ELSE bulk
       /\ script' = IF l.step > 5 THEN script
                    ELSE [script EXCEPT ![l.base] =
                            JobNames(l) \ LineMissing(l, late)]
       /\ control' = control
            \cup (IF TextOf(l, late, 1) THEN {ControlOf(l)} ELSE {})
       /\ maxSeed' = IF TextOf(l, late, 2) THEN l.newMinSeed - 1 ELSE maxSeed
       /\ maxId' = IF TextOf(l, late, 3) THEN LastId(l) ELSE maxId
       /\ basename' = IF TextOf(l, late, 4) THEN l.base ELSE basename
       /\ mishaps' = mishaps \cup Beside(HalfARun(l), "half_a_run")
            \cup Beside(l.step = 3 /\ ~late, "seeds_without_ids")
  /\ build' = [build EXCEPT ![b] = IdleBuild]
  /\ UNCHANGED <<queueVars, sched, runs>>

-----------------------------------------------------------------------------
(* PBSJobScheduler.py                                                      *)

(* Mutant: a submitted file stays where it is.                             *)
BugNotMoved(s) ==
  LET l == sched[s] IN
  /\ l.stage = "move"
  /\ sched' = [sched EXCEPT ![s] =
                 [stage |-> "submit", files |-> l.files, n |-> l.n - 1]]
  /\ UNCHANGED <<dirVars, queueVars, build, runs, mishaps>>

(* auto_submit looks for the files of the control file's pattern; an empty *)
(* control file has no line.                                               *)
AutoSubmit(s) ==
  /\ sched[s] = IdleSched
  /\ MayStart
  /\ \E base \in control :
       sched' = [sched EXCEPT ![s] =
                   [stage |-> "count",
                    files |-> {name \in DOMAIN bulk : name[1] = base}]]
  /\ mishaps' = mishaps
       \cup Beside(Scheduling # {}, "two_schedulers")
       \cup Beside(Building # {}, "builder_beside_scheduler")
  /\ UNCHANGED <<dirVars, queueVars, build, runs>>

(* submit_jobs asks once how many jobs there are.                          *)
CountRunning(s) ==
  /\ sched[s].stage = "count"
  /\ sched' = [sched EXCEPT ![s] =
                 [stage |-> "submit", files |-> @.files,
                  n |-> QueueLimit - running]]
  /\ UNCHANGED <<dirVars, queueVars, build, runs, mishaps>>

Submit(names) ==
  /\ again' = again \cup {name \in names : \E x \in submitted : x.name = name}
  /\ submitted' = submitted \cup {[name |-> n, job |-> bulk[n]] : n \in names}
  /\ running' = running + Cardinality(names)

(* The next file is submitted; that it is gone ends the script.            *)
SubmitNext(s) ==
  LET l == sched[s] IN
  /\ l.stage = "submit"
  /\ l.n > 0
  /\ \E file \in l.files :
       IF file \in DOMAIN bulk
       THEN /\ Submit({file})
            /\ sched' = [sched EXCEPT ![s] =
                           [stage |-> "move", files |-> l.files \ {file},
                            n |-> l.n, file |-> file]]
       ELSE sched' = [sched EXCEPT ![s] = IdleSched] /\ UNCHANGED queueVars
  /\ UNCHANGED <<dirVars, build, runs, mishaps>>

(* A submitted file is moved to done_jobs.                                 *)
MoveDone(s) ==
  LET l == sched[s] IN
  /\ l.stage = "move"
  /\ bulk' = [name \in DOMAIN bulk \ {l.file} |-> bulk[name]]
  /\ sched' = [sched EXCEPT ![s] =
                 IF l.file \in DOMAIN bulk
                 THEN [stage |-> "submit", files |-> l.files, n |-> l.n - 1]
                 ELSE IdleSched]
  /\ UNCHANGED <<control, script, maxSeed, maxId, basename, queueVars, build,
                 runs, mishaps>>

SubmitEnds(s) ==
  LET l == sched[s] IN
  /\ l.stage = "submit"
  /\ l.n <= 0 \/ l.files = {}
  /\ sched' = [sched EXCEPT ![s] = IdleSched]
  /\ UNCHANGED <<dirVars, queueVars, build, runs, mishaps>>

KillScheduler(s) ==
  /\ sched[s] # IdleSched
  /\ sched' = [sched EXCEPT ![s] = IdleSched]
  /\ mishaps' = mishaps \cup
       Beside(sched[s].stage = "move", "scheduler_killed")
  /\ UNCHANGED <<dirVars, queueVars, build, runs>>

-----------------------------------------------------------------------------
(* The other way to submit, submit_<basename>.sh, counts nothing and moves *)
(* nothing (bound: one use of it).                                         *)
RunSubmitScript ==
  /\ "submit_script" \notin mishaps
  /\ \E base \in Bases :
       /\ script[base] \cap DOMAIN bulk # {}
       /\ Submit(script[base] \cap DOMAIN bulk)
  /\ mishaps' = mishaps \cup {"submit_script"}
  /\ UNCHANGED <<dirVars, build, sched, runs>>

JobEnds ==
  /\ running > 0
  /\ running' = running - 1
  /\ UNCHANGED <<dirVars, submitted, again, build, sched, runs, mishaps>>

-----------------------------------------------------------------------------
BuildStep(b) ==
  StartBuild(b) \/ OpenJob(b) \/ CloseJob(b) \/ EndStep(b)

SchedStep(s) ==
  AutoSubmit(s) \/ CountRunning(s) \/ SubmitNext(s) \/ MoveDone(s)
  \/ SubmitEnds(s)

Next ==
  /\ \/ \E b \in Builders : BuildStep(b) \/ KillBuild(b) \/ InterruptBuild(b)
     \/ \E s \in Schedulers : SchedStep(s) \/ KillScheduler(s)
     \/ RunSubmitScript
     \/ JobEnds
  /\ Cardinality(mishaps') <= MaxMishaps

Spec == Init /\ [][Next]_vars

-----------------------------------------------------------------------------
(* What holds as long as certain things do not happen.                     *)
Barring(what) == mishaps \cap what = {}
NumbersKept == Barring({"two_builders", "half_a_run", "seeds_without_ids"})
Undisturbed == NumbersKept /\ Barring({"builder_beside_scheduler"})

Jobs == {[name |-> name, job |-> bulk[name]] : name \in DOMAIN bulk}
          \cup submitted
WholeJobs == {x \in Jobs : x.job # EmptyJob}

(* "each iteration can get a unique seed": no two jobs of the same scan    *)
(* values share a seed, over any number of runs of the script with any     *)
(* options, killed or interrupted at any moment but between the first      *)
(* change of the directory and that of max_seed.                           *)
UniqueSeeds ==
  Barring({"two_builders", "half_a_run"}) =>
    \A x, y \in WholeJobs :
      x # y /\ x.job.range = y.job.range =>
        x.job.last < y.job.first \/ y.job.last < x.job.first

(* The jobs of a run share the grid: so many jobs have a scan point as the *)
(* command line says, and none has a value above the end of the scan.  One *)
(* value may be left out, an end of the scan that starts a job and that    *)
(* the rounded sums pass by.                                               *)
ScanValues(scan) ==
  {v \in scan.start..scan.end :
     IF scan.inc = 0 THEN v = scan.start ELSE (v - scan.start) % scan.inc = 0}

ReachedValues(scan) ==
  {v \in ScanValues(scan) : EndLost(scan) => v # scan.end}

HasPoint(job, v1, v2) ==
  /\ v1 \in job.range.scan1.start..job.range.scan1.end
  /\ v2 \in job.range.scan2.start..job.range.scan2.end

JobsAt(l, v1, v2) ==
  {x \in WholeJobs : x.name \in JobNames(l) /\ HasPoint(x.job, v1, v2)}

GridCovered ==
  Undisturbed =>
    \A b \in Building : build[b].step > 1 =>
      LET o == build[b].options IN
      /\ \A v1 \in ReachedValues(o.scan1), v2 \in ReachedValues(o.scan2) :
           Cardinality(JobsAt(build[b], v1, v2)) = o.jobs
      /\ \A x \in WholeJobs : x.name \in JobNames(build[b]) =>
           /\ x.job.range.scan1.end <= o.scan1.end
           /\ x.job.range.scan2.end <= o.scan2.end

(* The job number names the file for the results: it is used once, unless  *)
(* a run ended before it wrote down the last number it had used, be it     *)
(* that max_seed was already written.                                      *)
JobFilesFresh ==
  [][\A b \in Builders :
       OpenJob(b) /\ NumbersKept =>
         \A x \in Jobs : x.name # JobName(build[b])]_vars

(* Nothing but a whole job file is submitted, though the pattern of the    *)
(* control file matches whatever there is; every job is submitted once,    *)
(* however often the scheduler is started, killed, or short of places in   *)
(* the queue; and one scheduler alone keeps to max_number_jobs.            *)
SubmittedRight ==
  /\ Undisturbed => \A x \in submitted : x.job # EmptyJob
  /\ Barring(Mishaps \ {"builder_beside_scheduler"}) => again = {}
  /\ Barring({"two_schedulers", "submit_script"}) => running <= QueueLimit

(* No job gets lost: what the script wrote down as used is there or was    *)
(* submitted, and what is there when a run has come to its end matches the *)
(* pattern of a control file.                                              *)
NoJobLost ==
  (NumbersKept /\ Building = {}) =>
    /\ (Barring({"builder_beside_scheduler"}) /\ maxId >= 0) =>
         \A id \in 0..maxId : \E x \in WholeJobs : x.name[2] = id
    /\ (maxSeed # Empty /\ maxId # Empty /\ basename # "absent") =>
         \A name \in DOMAIN bulk : name[1] \in control
=============================================================================
