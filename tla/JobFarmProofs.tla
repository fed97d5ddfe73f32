--------------------------- MODULE JobFarmProofs ----------------------------
(***************************************************************************)
(* Proofs about JobFarm, for any number of scripts, runs and command       *)
(* lines: seeds and job numbers are used once; what is submitted, how      *)
(* often, how many jobs run at a time; no job is lost, and the jobs of a   *)
(* run cover its grid.                                                     *)
(*                                                                         *)
(* The argument for the seeds: at any time the largest seed on record      *)
(* bounds the seeds of all jobs, but those of the one run that is under    *)
(* way (SeedsInv); those lie in the block the run has taken, and of the    *)
(* current scan point below the next seed (Mine).  While the record is     *)
(* being written it is Empty, and nobody starts from it (RecordInv).  The  *)
(* job numbers are kept like that, too (NumbersInv), but only as long as   *)
(* no run is interrupted between max_seed and max_id.                      *)
(*                                                                         *)
(* For the submissions: an empty job file is the one that a run has open,  *)
(* which no submit script names yet (ScriptsInv) and which no scheduler    *)
(* meets that was not started beside it (ApartInv).  A submitted job file  *)
(* that is still there is about to be moved by the one scheduler           *)
(* (OnceInv), and that one has places in the queue for what it has left to *)
(* submit (LimitInv).  A run takes a job number when it opens the file,    *)
(* and no file goes away but by a scheduler that has submitted it whole,   *)
(* so that each number below the next one keeps its job (KeptInv); and a   *)
(* run has written its control file when it ends, so that only the job     *)
(* files of one under way may match none (MatchInv).  The numbers of a run *)
(* follow the two loops, so many for each position in the grid, whose      *)
(* ranges have each point once (GridInv).                                  *)
(***************************************************************************)
EXTENDS JobFarm, FiniteSetTheorems, TLAPS

SeedsGuarded == Barring({"two_builders", "half_a_run"})
Guarded == Barring({"two_builders", "half_a_run", "seeds_without_ids"})

(* The seeds that a run has taken for each of its scan points end here.    *)
Times(i, n) == i * n
SeedsEnd(l) == l.oldMinSeed + Times(l.options.jobs, l.options.iterations)

(* Job x was written by the run with the local variables l.                *)
Mine(x, l) ==
  /\ x.job.first >= l.oldMinSeed
  /\ x.job.first <= x.job.last
  /\ x.job.last < SeedsEnd(l)
  /\ \E p \in 1..Points(l.options) :
       /\ p <= l.point
       /\ x.job.range = Grid(l.options)[p]
       /\ p = l.point => x.job.last < l.minSeed

(* The local variables in the two loops.                                   *)
LoopInv(l) ==
  /\ l.i < l.options.jobs
  /\ l.minSeed = l.oldMinSeed + Times(l.i, l.options.iterations)
  /\ l.stage = "write_job" => l.point <= Points(l.options)
  /\ l.newMinSeed = IF l.point = 1 THEN l.oldMinSeed ELSE SeedsEnd(l)
  /\ l.index >= l.minId
  /\ l.index = l.minId => l.i = 0 /\ l.point = 1
  /\ l.step > 1 => l.stage = "next_job" /\ l.point > Points(l.options)

LoopsInv == \A b \in Builders : build[b] # IdleBuild => LoopInv(build[b])

(* What is on record while the run goes on.                                *)
RecordInv(l) ==
  /\ l.step < 3 => maxSeed # Empty /\ maxId # Empty
  /\ l.step \in 3..7 => maxSeed = Empty
  /\ l.step \in 4..8 => maxId = Empty
  /\ l.step > 7 => maxSeed = l.newMinSeed - 1
  /\ l.step = 9 => maxId = l.index - 1

(* The jobs there are besides those of the run.                            *)
SeedsInv(l) ==
  \A x \in WholeJobs :
    \/ Mine(x, l)
    \/ /\ x.job.last < l.oldMinSeed
       /\ l.step < 3 => x.job.last <= maxSeed

IdsInv(l) ==
  \A x \in Jobs :
    /\ x.name[2] < l.index \/ (l.stage = "write_job" /\ x.name = JobName(l))
    /\ l.step < 3 => x.name[2] <= maxId \/ x.name[2] >= l.minId

SeedsRecorded == \A x \in WholeJobs : x.job.last <= maxSeed
IdsRecorded == \A x \in Jobs : x.name[2] <= maxId

Disjoint ==
  \A x, y \in WholeJobs :
    x # y /\ x.job.range = y.job.range =>
      x.job.last < y.job.first \/ y.job.last < x.job.first

FarmInv ==
  SeedsGuarded =>
    /\ \A b, c \in Building : b = c
    /\ Disjoint
    /\ Building = {} /\ StateReadable => SeedsRecorded
    /\ \A b \in Building :
         RecordInv(build[b]) /\ SeedsInv(build[b])

NumbersInv ==
  Guarded =>
    /\ Building = {} /\ StateReadable => IdsRecorded
    /\ \A b \in Building : IdsInv(build[b])

IInv ==
  /\ TypeOK
  /\ IsFiniteSet(DOMAIN bulk)
  /\ LoopsInv
  /\ FarmInv
  /\ NumbersInv

-----------------------------------------------------------------------------
(* Types.                                                                  *)

(* The number of values at which jobs start, and that they differ.         *)
LEMMA StartsFacts ==
  ASSUME NEW scan, IsScan(scan)
  PROVE  /\ Starts(scan) \in Nat
         /\ \A k \in 0..Starts(scan) - 1 :
              ScanRange(scan, k).start = scan.start + k * scan.inc * scan.perjob
         /\ \A j, k \in 0..Starts(scan) - 1 :
              ScanRange(scan, j) = ScanRange(scan, k) => j = k
  <1> DEFINE w == scan.inc * scan.perjob
  <1>1. /\ scan.start \in Int /\ scan.end \in Int
        /\ scan.inc \in Nat /\ scan.perjob \in Nat /\ scan.perjob > 0
    BY DEF IsScan
  <1>2. w \in Nat /\ (scan.inc > 0 => w > 0)
    BY <1>1
  <1>3. Starts(scan) \in Nat
    <2>1. CASE scan.inc = 0 \/ scan.start > scan.end
      BY <1>1, <2>1 DEF Starts
    <2>2. CASE scan.inc # 0 /\ scan.start <= scan.end
      <3>1. scan.end - scan.start \in Nat /\ w > 0
        BY <1>1, <1>2, <2>2
      <3> HIDE DEF w
      <3>2. (scan.end - scan.start) \div w \in Nat
        BY <1>2, <3>1
      <3>3. Starts(scan) = (scan.end - scan.start) \div w
                             + (IF EndLost(scan) THEN 0 ELSE 1)
        BY <1>1, <2>2 DEF Starts, w
      <3> QED BY <3>2, <3>3
    <2> QED BY <1>1, <2>1, <2>2
  <1>4. \A k : ScanRange(scan, k).start = scan.start + k * scan.inc * scan.perjob
    BY DEF ScanRange
  <1>5. ASSUME NEW j \in 0..Starts(scan) - 1, NEW k \in 0..Starts(scan) - 1,
               ScanRange(scan, j) = ScanRange(scan, k)
        PROVE  j = k
    <2>1. CASE scan.inc = 0
      BY <1>3, <2>1 DEF Starts
    <2>2. CASE scan.inc # 0
      <3>1. j \in Nat /\ k \in Nat /\ w > 0
        BY <1>1, <1>2, <1>3, <2>2
      <3>2. scan.start + j * scan.inc * scan.perjob = scan.start + k * scan.inc * scan.perjob
        BY <1>4, <1>5
      <3>3. \A i \in Nat : i * scan.inc * scan.perjob = i * w
        BY <1>1
      <3> HIDE DEF w
      <3>4. j * w = k * w
        <4>1. j * w \in Int /\ k * w \in Int
          BY <1>2, <3>1
        <4> QED BY <1>1, <3>1, <3>2, <3>3, <4>1
      <3> QED BY <1>2, <3>1, <3>4
    <2> QED BY <2>1, <2>2
  <1> QED BY <1>3, <1>4, <1>5

(* No two jobs of a grid get the same scan points.                         *)
LEMMA GridFacts ==
  ASSUME NEW o \in Options
  PROVE  /\ Points(o) \in Nat
         /\ \A p \in 1..Points(o) :
              /\ (p - 1) % Starts(o.scan1) \in 0..Starts(o.scan1) - 1
              /\ (p - 1) \div Starts(o.scan1) \in 0..Starts(o.scan2) - 1
         /\ \A p, q \in 1..Points(o) : Grid(o)[p] = Grid(o)[q] => p = q
  <1> DEFINE m == Starts(o.scan1)
             n == Starts(o.scan2)
  <1>1. m \in Nat /\ n \in Nat
    BY StartsFacts, JobFarmAssumption DEF JobFarmAssumption
  <1>2. Points(o) = m * n
    BY DEF Points
  <1>3. \A j, k \in 0..m - 1 : ScanRange(o.scan1, j) = ScanRange(o.scan1, k) => j = k
    BY StartsFacts, JobFarmAssumption DEF JobFarmAssumption
  <1>4. \A j, k \in 0..n - 1 : ScanRange(o.scan2, j) = ScanRange(o.scan2, k) => j = k
    BY StartsFacts, JobFarmAssumption DEF JobFarmAssumption
  <1>5. \A p \in 1..Points(o) :
          /\ Grid(o)[p].scan1 = ScanRange(o.scan1, (p - 1) % m)
          /\ Grid(o)[p].scan2 = ScanRange(o.scan2, (p - 1) \div m)
    BY DEF Grid
  <1> HIDE DEF m, n
  <1>6. m * n \in Nat
    BY <1>1
  <1>7. ASSUME NEW p \in 1..m * n
        PROVE  /\ (p - 1) % m \in 0..m - 1
               /\ (p - 1) \div m \in 0..n - 1
               /\ p - 1 = (m * ((p - 1) \div m)) + ((p - 1) % m)
    <2>1. m > 0 /\ p - 1 \in Nat /\ p - 1 < m * n
      BY <1>1, <1>6
    <2>2. /\ (p - 1) % m \in 0..m - 1 /\ (p - 1) \div m \in Nat
          /\ p - 1 = (m * ((p - 1) \div m)) + ((p - 1) % m)
      BY <1>1, <2>1
    <2>3. \A d \in Nat : d >= n => m * d >= m * n
      BY <1>1
    <2>4. (p - 1) \div m < n
      <3> DEFINE d == (p - 1) \div m
      <3> SUFFICES ASSUME d >= n PROVE FALSE
        BY <1>1, <2>2
      <3>1. m * d >= m * n
        BY <2>2, <2>3
      <3>2. m * d \in Nat
        BY <1>1, <2>2
      <3> HIDE DEF d
      <3>3. m * d <= p - 1
        BY <1>1, <2>1, <2>2, <3>2 DEF d
      <3> QED BY <1>6, <2>1, <3>1, <3>2, <3>3
    <2> QED BY <1>1, <2>2, <2>4
  <1>8. ASSUME NEW p \in 1..m * n, NEW q \in 1..m * n, Grid(o)[p] = Grid(o)[q]
        PROVE  p = q
    <2>0. /\ p - 1 = (m * ((p - 1) \div m)) + ((p - 1) % m)
          /\ q - 1 = (m * ((q - 1) \div m)) + ((q - 1) % m)
          /\ (p - 1) % m \in 0..m - 1 /\ (q - 1) % m \in 0..m - 1
          /\ (p - 1) \div m \in 0..n - 1 /\ (q - 1) \div m \in 0..n - 1
      BY <1>7
    <2>1. /\ ScanRange(o.scan1, (p - 1) % m) = ScanRange(o.scan1, (q - 1) % m)
          /\ ScanRange(o.scan2, (p - 1) \div m) = ScanRange(o.scan2, (q - 1) \div m)
      BY ONLY <1>2, <1>5, <1>8, Zenon
    <2>2. (p - 1) % m = (q - 1) % m
      BY ONLY <1>3, <2>0, <2>1, Zenon
    <2>3. (p - 1) \div m = (q - 1) \div m
      BY ONLY <1>4, <2>0, <2>1, Zenon
    <2>4. p - 1 = q - 1
      BY ONLY <2>0, <2>2, <2>3, Zenon
    <2> QED BY <1>6, <2>4
  <1> QED BY <1>2, <1>6, <1>7, <1>8 DEF m, n

LEMMA OptionType ==
  ASSUME NEW o \in Options
  PROVE  /\ o.minseed \in Nat /\ o.jobs \in Nat \ {0}
         /\ o.iterations \in Nat \ {0} /\ Points(o) \in Nat
         /\ o.basename \in Bases
         /\ \A p, q \in 1..Points(o) : Grid(o)[p] = Grid(o)[q] => p = q
BY JobFarmAssumption, GridFacts DEF JobFarmAssumption, Bases

LEMMA BoundsType == MaxRuns \in Nat /\ QueueLimit \in Nat
BY JobFarmAssumption DEF JobFarmAssumption

LEMMA GridType ==
  ASSUME NEW o \in Options, NEW p \in 1..Points(o)
  PROVE  Grid(o)[p] \in Ranges
BY DEF Ranges

LEMMA IdleStage == IdleBuild.stage = "idle" /\ IdleSched.stage = "idle"
BY DEF IdleBuild, IdleSched

LEMMA BuildType ==
  ASSUME NEW l \in BusyBuild
  PROVE  /\ l.stage \in {"next_job", "write_job"} /\ l.step \in 1..9
         /\ l.options \in Options /\ l.base \in Bases /\ l.minId \in Nat
         /\ l.index \in Nat /\ l.oldMinSeed \in Nat /\ l.minSeed \in Nat
         /\ l.newMinSeed \in Nat /\ l.point \in Nat \ {0} /\ l.i \in Nat
         /\ l # IdleBuild
  <1>1. Len(Steps) = 9
    BY DEF Steps
  <1>2. l.stage \in {"next_job", "write_job"}
    BY DEF BusyBuild
  <1>3. l # IdleBuild
    BY <1>2, IdleStage
  <1> QED BY <1>1, <1>2, <1>3 DEF BusyBuild

LEMMA JobNameType ==
  ASSUME NEW l \in BusyBuild
  PROVE  JobName(l) \in Name /\ JobName(l)[2] = l.index /\ JobNames(l) \subseteq Name
  <1>1. l.base \in Bases /\ l.index \in Nat /\ l.minId \in Nat
    BY BuildType
  <1>2. \A id \in l.minId..l.index - 1 : id \in Nat
    BY <1>1
  <1> QED BY <1>1, <1>2 DEF JobName, JobNames, Name

LEMMA AfterJobType ==
  ASSUME NEW l \in BusyBuild
  PROVE  AfterJob(l) \in BusyBuild
  <1>1. /\ l.options.iterations \in Nat /\ l.minSeed \in Nat
        /\ l.point \in Nat \ {0} /\ l.i \in Nat /\ l.index \in Nat
    BY BuildType, OptionType
  <1>2. l.minSeed + l.options.iterations \in Nat
    BY <1>1
  <1>3. /\ l.index + 1 \in Nat /\ l.i + 1 \in Nat /\ l.point + 1 \in Nat \ {0}
        /\ 0 \in Nat
    BY <1>1
  <1> HIDE DEF Steps
  <1> QED BY <1>1, <1>2, <1>3 DEF AfterJob, BusyBuild

LEMMA BusyType ==
  ASSUME TypeOK, NEW b \in Builders, build[b].stage # "idle" \/ build[b] # IdleBuild
  PROVE  build[b] \in BusyBuild
BY IdleStage DEF TypeOK, Build

LEMMA TypeOKInit == Init => TypeOK
BY JobFarmAssumption DEF JobFarmAssumption, Init, TypeOK, Build, Sched, Absent

LEMMA NewRunType ==
  ASSUME TypeOK, StateReadable, NEW o \in Options
  PROVE  NewRun(o) \in BusyBuild /\ JobBaseName(o) \in Bases
  <1>1. FirstSeed(o) \in Nat /\ FirstId \in Nat
    BY OptionType DEF TypeOK, StateReadable, FirstSeed, FirstId, Number, Absent
  <1>2. JobBaseName(o) \in Bases
    BY OptionType DEF TypeOK, JobBaseName
  <1>3. 1 \in 1..Len(Steps) /\ 1 \in Nat \ {0} /\ 0 \in Nat
    BY DEF Steps
  <1> QED BY <1>1, <1>2, <1>3 DEF NewRun, BusyBuild

LEMMA MishapsType ==
  ASSUME mishaps \subseteq Mishaps, NEW p, NEW q
  PROVE  /\ mishaps \cup Beside(p, "two_builders")
              \cup Beside(q, "builder_beside_scheduler") \subseteq Mishaps
         /\ mishaps \cup Beside(p, "two_schedulers")
              \cup Beside(q, "builder_beside_scheduler") \subseteq Mishaps
         /\ mishaps \cup Beside(p, "half_a_run") \subseteq Mishaps
         /\ mishaps \cup Beside(p, "half_a_run")
              \cup Beside(q, "seeds_without_ids") \subseteq Mishaps
         /\ mishaps \cup Beside(p, "scheduler_killed") \subseteq Mishaps
BY DEF Beside, Mishaps

LEMMA JobTextType ==
  ASSUME NEW l \in BusyBuild, LoopInv(l), l.stage = "write_job"
  PROVE  JobText(l) \in Job
  <1>1. l.point <= Points(l.options)
    BY DEF LoopInv
  <1>2. l.options \in Options /\ l.minSeed \in Nat /\ l.point \in Nat \ {0}
    BY BuildType
  <1>3. l.options.iterations \in Nat \ {0} /\ Points(l.options) \in Nat
    BY <1>2, OptionType
  <1>4. l.minSeed + l.options.iterations - 1 \in Nat
    BY <1>2, <1>3
  <1>5. Grid(l.options)[l.point] \in Ranges
    BY <1>1, <1>2, <1>3, GridType
  <1> QED BY <1>2, <1>4, <1>5 DEF JobText, Job

LEMMA TypeOKBuild ==
  ASSUME TypeOK, LoopsInv, NEW b \in Builders,
         BuildStep(b) \/ KillBuild(b) \/ InterruptBuild(b)
  PROVE  TypeOK'
  <1> DEFINE l == build[b]
  <1>1. CASE StartBuild(b)
    <2>1. PICK o \in Options :
            IF StateReadable
            THEN /\ build' = [build EXCEPT ![b] = NewRun(o)]
                 /\ script' = [script EXCEPT ![JobBaseName(o)] = {}]
            ELSE UNCHANGED <<build, script>>
      BY <1>1 DEF StartBuild
    <2>2. build' \in [Builders -> Build] /\ script' \in [Bases -> SUBSET Name]
      BY <2>1, NewRunType DEF TypeOK, Build
    <2>3. mishaps' \subseteq Mishaps
      BY <1>1, MishapsType DEF StartBuild, TypeOK
    <2>4. runs' \in 0..MaxRuns
      <3>1. runs < MaxRuns /\ runs' = runs + 1 /\ runs \in 0..MaxRuns
        BY <1>1 DEF StartBuild, TypeOK
      <3> QED BY <3>1, BoundsType
    <2> QED BY <1>1, <2>2, <2>3, <2>4 DEF StartBuild, TypeOK, queueVars
  <1>2. CASE OpenJob(b)
    <2>1. l \in BusyBuild
      BY <1>2, BusyType, IdleStage DEF OpenJob
    <2>2. [l EXCEPT !.stage = "write_job"] \in BusyBuild
      BY <2>1 DEF BusyBuild
    <2>3. build' \in [Builders -> Build]
      BY <1>2, <2>2 DEF OpenJob, TypeOK, Build
    <2>4. DOMAIN bulk' \subseteq Name
      BY <1>2, <2>1, JobNameType DEF OpenJob, TypeOK
    <2>5. \A name \in DOMAIN bulk' : bulk'[name] \in Job \cup {EmptyJob}
      BY <1>2 DEF OpenJob, TypeOK
    <2> QED BY <1>2, <2>3, <2>4, <2>5 DEF OpenJob, TypeOK, queueVars
  <1>3. CASE CloseJob(b)
    <2>1. l \in BusyBuild
      BY <1>3, BusyType, IdleStage DEF CloseJob
    <2>2. build' \in [Builders -> Build]
      BY <1>3, <2>1, AfterJobType DEF CloseJob, TypeOK, Build
    <2>3. JobText(l) \in Job
      BY <1>3, <2>1, JobTextType, BuildType DEF CloseJob, LoopsInv
    <2>4. DOMAIN bulk' \subseteq Name
      BY <1>3 DEF CloseJob, WithJob, TypeOK
    <2>5. \A name \in DOMAIN bulk' : bulk'[name] \in Job \cup {EmptyJob}
      BY <1>3, <2>3 DEF CloseJob, WithJob, TypeOK
    <2> QED BY <1>3, <2>2, <2>4, <2>5 DEF CloseJob, TypeOK, queueVars
  <1>4. CASE EndStep(b)
    <2>1. l \in BusyBuild
      BY <1>4, BusyType, IdleStage DEF EndStep
    <2>3. l.step \in 1..9 /\ Len(Steps) = 9
      BY <2>1, BuildType DEF Steps
    <2>2. l.step < Len(Steps) => [l EXCEPT !.step = @ + 1] \in BusyBuild
      <3> SUFFICES ASSUME l.step < Len(Steps)
                   PROVE  [l EXCEPT !.step = @ + 1] \in BusyBuild
        OBVIOUS
      <3>1. l.step + 1 \in 1..Len(Steps)
        BY <2>3
      <3> QED BY <2>1, <3>1 DEF BusyBuild
    <2>4. build' \in [Builders -> Build]
      <3>1. IF l.step = Len(Steps) THEN build' = [build EXCEPT ![b] = IdleBuild]
            ELSE build' = [build EXCEPT ![b] = [l EXCEPT !.step = @ + 1]]
        BY <1>4 DEF EndStep
      <3> QED BY <3>1, <2>2, <2>3 DEF TypeOK, Build
    <2>5. script' \in [Bases -> SUBSET Name]
      BY <1>4, <2>1, JobNameType DEF EndStep, TypeOK
    <2>6. control' \subseteq Bases /\ basename' \in Bases \cup {"absent"}
      BY <1>4, <2>1, BuildType, OptionType
      DEF EndStep, TypeOK, ControlOf, Bases
    <2>7. /\ maxSeed' \in Number \cup {Absent, Empty}
          /\ maxId' \in Number \cup {Absent, Empty}
      <3>0. l.newMinSeed \in Nat /\ l.index \in Nat
        BY <2>1, BuildType
      <3>1. l.newMinSeed - 1 \in Number /\ l.index - 1 \in Number
        BY <3>0 DEF Number
      <3> QED BY <1>4, <3>1 DEF EndStep, TypeOK, LastId
    <2> QED BY <1>4, <2>4, <2>5, <2>6, <2>7 DEF EndStep, TypeOK, queueVars
  <1>5. CASE KillBuild(b)
    <2>1. mishaps' \subseteq Mishaps
      BY <1>5, MishapsType DEF KillBuild, TypeOK
    <2> QED BY <1>5, <2>1 DEF KillBuild, TypeOK, Build, dirVars, queueVars
  <1>6. CASE InterruptBuild(b)
    <2>1. l \in BusyBuild /\ l # IdleBuild
      BY <1>6 DEF InterruptBuild, TypeOK, Build
    <2>2. build' \in [Builders -> Build]
      BY <1>6 DEF InterruptBuild, TypeOK, Build
    <2>3. mishaps' \subseteq Mishaps
      BY <1>6, MishapsType DEF InterruptBuild, TypeOK
    <2>4. l.stage = "write_job" => JobText(l) \in Job
      BY <2>1, JobTextType DEF LoopsInv
    <2>5. /\ DOMAIN bulk' \subseteq Name
          /\ \A name \in DOMAIN bulk' : bulk'[name] \in Job \cup {EmptyJob}
      BY <1>6, <2>4 DEF InterruptBuild, WithJob, TypeOK
    <2>6. script' \in [Bases -> SUBSET Name]
      <3>1. \A name \in JobNames(l) : name \in Name
        BY <2>1, JobNameType
      <3> QED BY <1>6, <3>1 DEF InterruptBuild, TypeOK
    <2>7. control' \subseteq Bases /\ basename' \in Bases \cup {"absent"}
      BY <1>6, <2>1, BuildType DEF InterruptBuild, TypeOK, ControlOf
    <2>8. /\ maxSeed' \in Number \cup {Absent, Empty}
          /\ maxId' \in Number \cup {Absent, Empty}
      <3>1. l.newMinSeed - 1 \in Number /\ l.index - 1 \in Number
        BY <2>1, BuildType DEF Number
      <3> QED BY <1>6, <3>1 DEF InterruptBuild, TypeOK, LastId
    <2> QED BY <1>6, <2>2, <2>3, <2>5, <2>6, <2>7, <2>8
        DEF InterruptBuild, TypeOK, queueVars
  <1> QED BY <1>1, <1>2, <1>3, <1>4, <1>5, <1>6 DEF BuildStep

LEMMA SubmitType ==
  ASSUME TypeOK, NEW names \in SUBSET DOMAIN bulk, Submit(names)
  PROVE  /\ submitted' \subseteq [name: Name, job: Job \cup {EmptyJob}]
         /\ again' \subseteq Name
BY DEF TypeOK, Submit

LEMMA SchedType ==
  ASSUME NEW l \in Sched
  PROVE  /\ l.stage = "count" => l.files \in SUBSET Name
         /\ l.stage = "submit" => l.files \in SUBSET Name /\ l.n \in Int
         /\ l.stage = "move" =>
              l.files \in SUBSET Name /\ l.n \in Int /\ l.file \in Name
BY IdleStage DEF Sched

LEMMA TypeOKSched ==
  ASSUME TypeOK, NEW s \in Schedulers, SchedStep(s) \/ KillScheduler(s)
  PROVE  TypeOK'
  <1> DEFINE l == sched[s]
  <1>1. CASE AutoSubmit(s)
    <2>1. sched' \in [Schedulers -> Sched]
      BY <1>1 DEF AutoSubmit, TypeOK, Sched
    <2>2. mishaps' \subseteq Mishaps
      BY <1>1, MishapsType DEF AutoSubmit, TypeOK
    <2> QED BY <1>1, <2>1, <2>2 DEF AutoSubmit, TypeOK, dirVars, queueVars
  <1>2. CASE CountRunning(s)
    <2>1. sched' \in [Schedulers -> Sched]
      <3>1. l.files \in SUBSET Name /\ QueueLimit - running \in Int
        BY <1>2, SchedType, BoundsType DEF CountRunning, TypeOK
      <3>2. [stage |-> "submit", files |-> l.files, n |-> QueueLimit - running]
              \in Sched
        BY <3>1 DEF Sched
      <3> QED BY <1>2, <3>2 DEF CountRunning, TypeOK
    <2> QED BY <1>2, <2>1 DEF CountRunning, TypeOK, dirVars, queueVars
  <1>3. CASE SubmitNext(s)
    <2>1. l.files \in SUBSET Name /\ l.n \in Int
      BY <1>3, SchedType DEF SubmitNext, TypeOK
    <2>2. PICK file \in l.files :
            IF file \in DOMAIN bulk
            THEN /\ Submit({file})
                 /\ sched' = [sched EXCEPT ![s] =
                                [stage |-> "move", files |-> l.files \ {file},
                                 n |-> l.n, file |-> file]]
            ELSE sched' = [sched EXCEPT ![s] = IdleSched] /\ UNCHANGED queueVars
      BY <1>3 DEF SubmitNext
    <2>3. sched' \in [Schedulers -> Sched]
      BY <2>1, <2>2 DEF TypeOK, Sched
    <2>4. /\ submitted' \subseteq [name: Name, job: Job \cup {EmptyJob}]
          /\ again' \subseteq Name
      BY <2>2, SubmitType DEF queueVars, TypeOK
    <2>5. running' \in Nat
      <3>1. Cardinality({file}) = 1
        BY FS_Singleton
      <3> QED BY <2>2, <3>1 DEF Submit, queueVars, TypeOK
    <2> QED BY <1>3, <2>3, <2>4, <2>5 DEF SubmitNext, TypeOK, dirVars
  <1>4. CASE MoveDone(s)
    <2>1. l.files \in SUBSET Name /\ l.n \in Int
      BY <1>4, SchedType DEF MoveDone, TypeOK
    <2>2. l.n - 1 \in Int
      BY <2>1
    <2>3. sched' \in [Schedulers -> Sched]
      BY <1>4, <2>1, <2>2 DEF MoveDone, TypeOK, Sched
    <2>4. DOMAIN bulk' \subseteq Name
      BY <1>4 DEF MoveDone, TypeOK
    <2>5. \A name \in DOMAIN bulk' : bulk'[name] \in Job \cup {EmptyJob}
      BY <1>4 DEF MoveDone, TypeOK
    <2> QED BY <1>4, <2>3, <2>4, <2>5 DEF MoveDone, TypeOK, queueVars
  <1>5. CASE SubmitEnds(s)
    BY <1>5 DEF SubmitEnds, TypeOK, Sched, dirVars, queueVars
  <1>6. CASE KillScheduler(s)
    <2>1. mishaps' \subseteq Mishaps
      BY <1>6, MishapsType DEF KillScheduler, TypeOK
    <2> QED BY <1>6, <2>1 DEF KillScheduler, TypeOK, Sched, dirVars, queueVars
  <1> QED BY <1>1, <1>2, <1>3, <1>4, <1>5, <1>6 DEF SchedStep

LEMMA TypeOKNext ==
  ASSUME TypeOK, LoopsInv, IsFiniteSet(DOMAIN bulk), [Next]_vars
  PROVE  TypeOK' /\ IsFiniteSet(DOMAIN bulk)'
  <1>1. CASE \E b \in Builders :
               BuildStep(b) \/ KillBuild(b) \/ InterruptBuild(b)
    <2>1. PICK b \in Builders :
            BuildStep(b) \/ KillBuild(b) \/ InterruptBuild(b)
      BY <1>1
    <2>2. TypeOK'
      BY <2>1, TypeOKBuild
    <2>3. DOMAIN bulk' = DOMAIN bulk \/ DOMAIN bulk' = DOMAIN bulk \cup {JobName(build[b])}
      BY <2>1 DEF BuildStep, StartBuild, OpenJob, CloseJob, WithJob, EndStep,
         KillBuild, InterruptBuild, dirVars
    <2> QED BY <2>2, <2>3, FS_AddElement
  <1>2. CASE \E s \in Schedulers : SchedStep(s) \/ KillScheduler(s)
    <2>1. PICK s \in Schedulers : SchedStep(s) \/ KillScheduler(s)
      BY <1>2
    <2>2. TypeOK'
      BY <2>1, TypeOKSched
    <2>3. DOMAIN bulk' \subseteq DOMAIN bulk
      BY <2>1 DEF SchedStep, AutoSubmit, CountRunning, SubmitNext, MoveDone,
         SubmitEnds, KillScheduler, dirVars
    <2> QED BY <2>2, <2>3, FS_Subset
  <1>3. CASE RunSubmitScript
    <2>1. PICK base \in Bases : Submit(script[base] \cap DOMAIN bulk)
      BY <1>3 DEF RunSubmitScript
    <2>2. Cardinality(script[base] \cap DOMAIN bulk) \in Nat
      BY FS_Subset, FS_CardinalityType
    <2>3. running' \in Nat
      BY <2>1, <2>2 DEF Submit, TypeOK
    <2>4. mishaps' \subseteq Mishaps
      BY <1>3 DEF RunSubmitScript, TypeOK, Mishaps
    <2>5. /\ submitted' \subseteq [name: Name, job: Job \cup {EmptyJob}]
          /\ again' \subseteq Name
      BY <2>1, SubmitType
    <2> QED BY <1>3, <2>3, <2>4, <2>5 DEF RunSubmitScript, TypeOK, dirVars
  <1>4. CASE JobEnds
    BY <1>4 DEF JobEnds, TypeOK, dirVars
  <1>5. CASE UNCHANGED vars
    BY <1>5 DEF vars, dirVars, queueVars, TypeOK
  <1> QED BY <1>1, <1>2, <1>3, <1>4, <1>5 DEF Next

-----------------------------------------------------------------------------
(* The loops.                                                              *)

LEMMA TimesFacts ==
  ASSUME NEW n \in Nat
  PROVE  /\ Times(0, n) = 0
         /\ \A i \in Nat : /\ Times(i, n) \in Nat
                           /\ Times(i + 1, n) = Times(i, n) + n
         /\ \A i, j \in Nat : i < j => Times(i, n) + n <= Times(j, n)
  <1>1. \A i \in Nat : i * n \in Nat /\ (i + 1) * n = i * n + n
    BY SMT
  <1>2. ASSUME NEW i \in Nat, NEW j \in Nat, i < j
        PROVE  i * n + n <= j * n
    <2>1. (j - (i + 1)) * n >= 0
      BY <1>2, SMT
    <2>2. (j - (i + 1)) * n = j * n - (i * n + n)
      BY SMT
    <2>3. j * n \in Int /\ i * n \in Int
      BY SMT
    <2> QED BY <2>1, <2>2, <2>3
  <1>3. 0 * n = 0
    BY SMT
  <1> QED BY <1>1, <1>2, <1>3 DEF Times

LEMMA LoopTypes ==
  ASSUME NEW l \in BusyBuild
  PROVE  /\ l.options \in Options /\ l.options.jobs \in Nat
         /\ l.options.jobs > 0 /\ l.options.iterations \in Nat
         /\ l.options.iterations > 0 /\ Points(l.options) \in Nat
         /\ l.step \in Nat /\ l.step >= 1 /\ l.step <= 9
         /\ l.point \in Nat /\ l.point >= 1 /\ l.i \in Nat
         /\ l.oldMinSeed \in Nat /\ l.minSeed \in Nat
         /\ l.newMinSeed \in Nat /\ l.index \in Nat /\ l.minId \in Nat
  <1>1. l.options \in Options /\ l.step \in 1..9 /\ l.point \in Nat \ {0}
    BY BuildType
  <1>2. l.options.jobs \in Nat \ {0} /\ l.options.iterations \in Nat \ {0}
        /\ Points(l.options) \in Nat
    BY <1>1, OptionType
  <1>3. l.step \in Nat /\ l.step >= 1 /\ l.step <= 9
    BY <1>1
  <1>4. l.point \in Nat /\ l.point >= 1
    BY <1>1
  <1>5. /\ l.options.jobs \in Nat /\ l.options.jobs > 0
        /\ l.options.iterations \in Nat /\ l.options.iterations > 0
    BY <1>2
  <1> QED BY <1>1, <1>2, <1>3, <1>4, <1>5, BuildType

LEMMA LoopTimes ==
  ASSUME NEW l \in BusyBuild
  PROVE  /\ Times(0, l.options.iterations) = 0
         /\ Times(l.i, l.options.iterations) \in Nat
         /\ Times(l.i + 1, l.options.iterations)
              = Times(l.i, l.options.iterations) + l.options.iterations
         /\ l.i < l.options.jobs =>
              Times(l.i, l.options.iterations) + l.options.iterations
                <= Times(l.options.jobs, l.options.iterations)
         /\ Times(l.options.jobs, l.options.iterations) \in Nat
         /\ Times(l.options.jobs, l.options.iterations) > 0
  <1> DEFINE n == l.options.iterations
             j == l.options.jobs
             i == l.i
  <1>1. n \in Nat /\ n > 0 /\ j \in Nat /\ 0 < j /\ i \in Nat
    BY LoopTypes
  <1> HIDE DEF n, j, i
  <1>2. Times(0, n) = 0
    BY <1>1, TimesFacts
  <1>3. Times(i, n) \in Nat /\ Times(i + 1, n) = Times(i, n) + n
    BY <1>1, TimesFacts
  <1>4. i < j => Times(i, n) + n <= Times(j, n)
    BY <1>1, TimesFacts
  <1>5. Times(j, n) \in Nat
    BY <1>1, TimesFacts
  <1>6. Times(0, n) + n <= Times(j, n)
    BY <1>1, TimesFacts
  <1>7. Times(j, n) > 0
    BY <1>1, <1>2, <1>5, <1>6
  <1> QED BY <1>2, <1>3, <1>4, <1>5, <1>7 DEF n, j, i

LEMMA SeedsEndType ==
  ASSUME NEW l \in BusyBuild
  PROVE  SeedsEnd(l) \in Nat /\ SeedsEnd(l) > l.oldMinSeed
  <1>1. l.oldMinSeed \in Nat
    BY LoopTypes
  <1>2. Times(l.options.jobs, l.options.iterations) \in Nat
        /\ Times(l.options.jobs, l.options.iterations) > 0
    BY LoopTimes
  <1> QED BY <1>1, <1>2 DEF SeedsEnd

(* What the steps of create_jobs do to the loops.                          *)
LEMMA LoopStart ==
  ASSUME TypeOK, StateReadable, NEW o \in Options
  PROVE  LoopInv(NewRun(o))
  <1> DEFINE m == NewRun(o)
  <1>1. /\ m.stage = "next_job" /\ m.step = 1 /\ m.options = o /\ m.i = 0
        /\ m.point = 1 /\ m.newMinSeed = m.oldMinSeed /\ m.index = m.minId
        /\ m.minSeed = m.oldMinSeed
    BY DEF NewRun
  <1>2. m \in BusyBuild
    BY NewRunType
  <1> HIDE DEF m
  <1>3. m.oldMinSeed \in Nat /\ m.minId \in Nat /\ m.options.jobs > 0
    BY <1>2, LoopTypes
  <1>4. Times(0, m.options.iterations) = 0
    BY <1>2, LoopTimes
  <1>5. m.i < m.options.jobs
    BY <1>1, <1>3
  <1>6. m.minSeed = m.oldMinSeed + Times(m.i, m.options.iterations)
    BY <1>1, <1>3, <1>4
  <1> QED BY <1>1, <1>3, <1>5, <1>6 DEF LoopInv, m

LEMMA LoopOpen ==
  ASSUME NEW l \in BusyBuild, LoopInv(l), l.stage = "next_job",
         l.point <= Points(l.options)
  PROVE  LoopInv([l EXCEPT !.stage = "write_job"]) /\ l.step = 1
  <1>0. /\ l.step \in Nat /\ l.step >= 1 /\ l.point \in Nat
        /\ Points(l.options) \in Nat
    BY LoopTypes
  <1>1. l.step = 1
    BY <1>0 DEF LoopInv
  <1> DEFINE m == [l EXCEPT !.stage = "write_job"]
  <1>2. /\ m.stage = "write_job" /\ m.step = l.step /\ m.options = l.options
        /\ m.minId = l.minId /\ m.index = l.index /\ m.i = l.i
        /\ m.oldMinSeed = l.oldMinSeed /\ m.minSeed = l.minSeed
        /\ m.newMinSeed = l.newMinSeed /\ m.point = l.point
    BY DEF BusyBuild
  <1> HIDE DEF m
  <1>3. LoopInv(m)
    BY <1>1, <1>2 DEF LoopInv, SeedsEnd
  <1> QED BY <1>1, <1>3 DEF m

LEMMA LoopEnd ==
  ASSUME NEW l \in BusyBuild, LoopInv(l), l.stage = "next_job",
         l.point > Points(l.options)
  PROVE  LoopInv([l EXCEPT !.step = @ + 1])
  <1> DEFINE m == [l EXCEPT !.step = @ + 1]
  <1>2. /\ m.stage = l.stage /\ m.options = l.options
        /\ m.minId = l.minId /\ m.index = l.index /\ m.i = l.i
        /\ m.oldMinSeed = l.oldMinSeed /\ m.minSeed = l.minSeed
        /\ m.newMinSeed = l.newMinSeed /\ m.point = l.point
    BY DEF BusyBuild
  <1> HIDE DEF m
  <1>3. LoopInv(m)
    BY <1>2 DEF LoopInv, SeedsEnd
  <1> QED BY <1>3 DEF m

LEMMA LoopClose ==
  ASSUME NEW l \in BusyBuild, LoopInv(l), l.stage = "write_job"
  PROVE  LoopInv(AfterJob(l)) /\ l.step = 1
  <1> DEFINE m == AfterJob(l)
             n == l.options.iterations
  <1>t. /\ l.oldMinSeed \in Nat /\ l.minSeed \in Nat /\ l.index \in Nat
        /\ l.minId \in Nat /\ l.step \in Nat /\ l.step >= 1 /\ l.i \in Nat
        /\ l.options.jobs \in Nat /\ l.options.jobs > 0 /\ n \in Nat
        /\ l.point \in Nat /\ l.point >= 1
    BY LoopTypes
  <1>0. l.step = 1
    BY <1>t DEF LoopInv
  <1>1. /\ l.i < l.options.jobs /\ l.index >= l.minId
        /\ l.minSeed = l.oldMinSeed + Times(l.i, n)
        /\ l.newMinSeed = IF l.point = 1 THEN l.oldMinSeed ELSE SeedsEnd(l)
    BY DEF LoopInv
  <1>3. /\ m.stage = "next_job" /\ m.options = l.options
        /\ m.oldMinSeed = l.oldMinSeed /\ m.minId = l.minId
        /\ m.index = l.index + 1 /\ m.step = l.step
    BY DEF AfterJob, BusyBuild
  <1>4. SeedsEnd(m) = SeedsEnd(l)
    BY <1>3 DEF SeedsEnd
  <1>a. m.index >= m.minId /\ m.index # m.minId
    BY <1>1, <1>3, <1>t
  <1>b. /\ Times(0, n) = 0 /\ Times(l.i, n) \in Nat
        /\ Times(l.i + 1, n) = Times(l.i, n) + n
    BY LoopTimes
  <1>5. l.minSeed + n = l.oldMinSeed + Times(l.i + 1, n)
    BY <1>1, <1>t, <1>b
  <1>6. CASE l.i + 1 < l.options.jobs
    <2>1. m.i = l.i + 1 /\ m.minSeed = l.minSeed + n /\ m.point = l.point
          /\ m.newMinSeed = l.newMinSeed
      BY <1>6 DEF AfterJob, BusyBuild
    <2> HIDE DEF m
    <2>2. m.minSeed = m.oldMinSeed + Times(m.i, n)
      BY <1>3, <1>5, <2>1
    <2>3. m.i < m.options.jobs
      BY <1>3, <1>6, <2>1
    <2>4. LoopInv(m)
      BY <1>0, <1>1, <1>3, <1>4, <1>a, <2>1, <2>2, <2>3 DEF LoopInv
    <2> QED BY <1>0, <2>4 DEF m
  <1>7. CASE ~(l.i + 1 < l.options.jobs)
    <2>1. m.i = 0 /\ m.minSeed = l.oldMinSeed /\ m.point = l.point + 1
          /\ m.newMinSeed = l.minSeed + n
      BY <1>7 DEF AfterJob, BusyBuild
    <2>2. l.i + 1 = l.options.jobs
      BY <1>1, <1>7, <1>t
    <2>3. m.newMinSeed = SeedsEnd(l)
      BY <1>5, <2>1, <2>2 DEF SeedsEnd
    <2> HIDE DEF m
    <2>4. m.minSeed = m.oldMinSeed + Times(m.i, n)
      BY <1>t, <1>b, <1>3, <2>1
    <2>5. m.i < m.options.jobs
      BY <1>t, <1>3, <2>1
    <2>6. m.point # 1
      BY <1>t, <2>1
    <2>7. LoopInv(m)
      BY <1>0, <1>3, <1>4, <1>a, <2>3, <2>4, <2>5, <2>6 DEF LoopInv
    <2> QED BY <1>0, <2>7 DEF m
  <1> QED BY <1>6, <1>7

LEMMA LoopsInvBuild ==
  ASSUME TypeOK, LoopsInv, NEW b \in Builders,
         BuildStep(b) \/ KillBuild(b) \/ InterruptBuild(b)
  PROVE  LoopsInv'
  <1> DEFINE l == build[b]
  <1>0. \A c \in Builders \ {b} : build'[c] = build[c]
    BY DEF BuildStep, StartBuild, OpenJob, CloseJob, EndStep, KillBuild, InterruptBuild, TypeOK
  <1> SUFFICES ASSUME build'[b] # IdleBuild PROVE LoopInv(build'[b])
    BY <1>0 DEF LoopsInv
  <1>1. CASE StartBuild(b)
    <2>1. CASE UNCHANGED build
      BY <2>1 DEF LoopsInv
    <2>2. CASE \E o \in Options :
                 StateReadable /\ build' = [build EXCEPT ![b] = NewRun(o)]
      <3>1. PICK o \in Options : StateReadable /\ build'[b] = NewRun(o)
        BY <2>2 DEF TypeOK
      <3> QED BY <3>1, LoopStart
    <2> QED BY <1>1, <2>1, <2>2 DEF StartBuild
  <1>2. CASE OpenJob(b)
    <2>1. l \in BusyBuild /\ LoopInv(l)
      BY <1>2, BusyType, IdleStage DEF OpenJob, LoopsInv
    <2>2. build'[b] = [l EXCEPT !.stage = "write_job"]
      BY <1>2 DEF OpenJob, TypeOK
    <2> QED BY <1>2, <2>1, <2>2, LoopOpen DEF OpenJob
  <1>3. CASE CloseJob(b)
    <2>1. l \in BusyBuild /\ LoopInv(l)
      BY <1>3, BusyType, IdleStage DEF CloseJob, LoopsInv
    <2>2. build'[b] = AfterJob(l)
      BY <1>3 DEF CloseJob, TypeOK
    <2> QED BY <1>3, <2>1, <2>2, LoopClose DEF CloseJob
  <1>4. CASE EndStep(b)
    <2>1. l \in BusyBuild /\ LoopInv(l)
      BY <1>4, BusyType, IdleStage DEF EndStep, LoopsInv
    <2>2. build'[b] = [l EXCEPT !.step = @ + 1]
      BY <1>4 DEF EndStep, TypeOK
    <2> QED BY <1>4, <2>1, <2>2, LoopEnd DEF EndStep
  <1>5. CASE KillBuild(b) \/ InterruptBuild(b)
    BY <1>5 DEF KillBuild, InterruptBuild, TypeOK
  <1> QED BY <1>1, <1>2, <1>3, <1>4, <1>5 DEF BuildStep

-----------------------------------------------------------------------------
(* Seeds and job numbers.                                                  *)

LEMMA JobsType ==
  ASSUME TypeOK
  PROVE  /\ \A x \in Jobs : x.name \in Name /\ x.name[2] \in Nat
         /\ \A x \in WholeJobs :
              x \in Jobs /\ x.job.first \in Nat /\ x.job.last \in Nat
  <1>1. \A x \in Jobs : x.name \in Name /\ x.job \in Job \cup {EmptyJob}
    BY DEF Jobs, TypeOK
  <1>2. \A name \in Name : name[2] \in Nat
    BY DEF Name
  <1> QED BY <1>1, <1>2 DEF WholeJobs, Job

LEMMA GuardedBefore ==
  ASSUME mishaps \subseteq mishaps'
  PROVE  /\ SeedsGuarded' => SeedsGuarded
         /\ Guarded' => Guarded
         /\ Guarded => SeedsGuarded
BY DEF SeedsGuarded, Guarded, Barring

(* Steps that bring no job and leave create_jobs and its records alone.    *)
LEMMA FarmInvQuiet ==
  ASSUME FarmInv, Jobs' \subseteq Jobs, UNCHANGED <<build, maxSeed, maxId>>,
         mishaps \subseteq mishaps'
  PROVE  FarmInv'
  <1> SUFFICES ASSUME SeedsGuarded' PROVE FarmInv'
    BY DEF FarmInv
  <1>1. SeedsGuarded
    BY GuardedBefore
  <1>2. WholeJobs' \subseteq WholeJobs
    BY DEF WholeJobs
  <1>3. Disjoint'
    BY <1>1, <1>2 DEF FarmInv, Disjoint
  <1>4. Building' = Building /\ (StateReadable' <=> StateReadable)
    BY DEF Building, StateReadable
  <1>5. SeedsRecorded => SeedsRecorded'
    BY <1>2 DEF SeedsRecorded
  <1>6. \A b \in Building : RecordInv(build[b])' /\ SeedsInv(build[b])'
    BY <1>1, <1>2 DEF FarmInv, RecordInv, SeedsInv, Mine, SeedsEnd
  <1> QED BY <1>1, <1>3, <1>4, <1>5, <1>6 DEF FarmInv

LEMMA FarmInvStart ==
  ASSUME TypeOK, FarmInv, NEW b \in Builders, StartBuild(b)
  PROVE  FarmInv'
  <1>1. mishaps \subseteq mishaps' /\ Jobs' = Jobs /\ UNCHANGED <<maxSeed, maxId>>
    BY DEF StartBuild, Jobs, queueVars
  <1>2. CASE UNCHANGED build
    BY <1>1, <1>2, FarmInvQuiet
  <1>3. CASE \E o \in Options :
               StateReadable /\ build' = [build EXCEPT ![b] = NewRun(o)]
    <2> PICK o \in Options :
          StateReadable /\ build' = [build EXCEPT ![b] = NewRun(o)]
      BY <1>3
    <2> DEFINE m == NewRun(o)
    <2> SUFFICES ASSUME SeedsGuarded' PROVE FarmInv'
      BY DEF FarmInv
    <2>1. SeedsGuarded
      BY <1>1, GuardedBefore
    <2>2. Building = {}
      BY DEF StartBuild, Beside, SeedsGuarded, Barring
    <2>3. SeedsRecorded
      BY <2>1, <2>2 DEF FarmInv
    <2>4. Building' = {b} /\ build'[b] = m
      BY <2>2, NewRunType, BuildType DEF Building, TypeOK
    <2>5. /\ build'[b].stage = "next_job" /\ build'[b].step = 1
          /\ build'[b].minId = FirstId /\ build'[b].index = FirstId
          /\ build'[b].oldMinSeed = FirstSeed(o)
      BY <2>4 DEF NewRun
    <2>6. RecordInv(build[b])'
      BY <1>1, <2>5 DEF RecordInv, StateReadable
    <2>7. \A x \in WholeJobs : x.job.last < FirstSeed(o) /\ x.job.last <= maxSeed
      <3> TAKE x \in WholeJobs
      <3>1. x.job.last \in Nat /\ x.job.last <= maxSeed
        BY <2>3, JobsType DEF SeedsRecorded
      <3>2. maxSeed \in Int
        BY DEF TypeOK, Number, Absent, Empty
      <3>3. maxSeed # Absent
        BY <3>1 DEF Absent
      <3> QED BY <3>1, <3>2, <3>3 DEF FirstSeed
    <2>9. SeedsInv(build[b])'
      BY <1>1, <2>5, <2>7 DEF SeedsInv, WholeJobs
    <2>10. Disjoint'
      BY <1>1, <2>1 DEF FarmInv, Disjoint, WholeJobs
    <2> QED BY <2>4, <2>6, <2>9, <2>10 DEF FarmInv
  <1> QED BY <1>2, <1>3 DEF StartBuild

(* The run under way, when it is the only one.                             *)
LEMMA OneRun ==
  ASSUME TypeOK, LoopsInv, FarmInv, SeedsGuarded, NEW b \in Builders,
         build[b].stage # "idle" \/ build[b] # IdleBuild
  PROVE  /\ build[b] \in BusyBuild /\ Building = {b}
         /\ LoopInv(build[b]) /\ RecordInv(build[b]) /\ SeedsInv(build[b])
         /\ Disjoint
  <1>1. build[b] \in BusyBuild
    BY BusyType
  <1>2. build[b] # IdleBuild
    BY <1>1, BuildType
  <1> QED BY <1>1, <1>2 DEF FarmInv, LoopsInv, Building

LEMMA FarmInvOpen ==
  ASSUME TypeOK, LoopsInv, FarmInv, NEW b \in Builders, OpenJob(b)
  PROVE  FarmInv'
  <1> DEFINE l == build[b]
             m == [l EXCEPT !.stage = "write_job"]
             new == [name |-> JobName(l), job |-> EmptyJob]
  <1> SUFFICES ASSUME SeedsGuarded' PROVE FarmInv'
    BY DEF FarmInv
  <1>1. SeedsGuarded
    BY GuardedBefore DEF OpenJob
  <1>2. /\ l \in BusyBuild /\ Building = {b} /\ LoopInv(l) /\ RecordInv(l)
        /\ SeedsInv(l) /\ Disjoint
    BY <1>1, OneRun, IdleStage DEF OpenJob
  <1>3. UNCHANGED <<maxSeed, maxId, submitted>> /\ l.stage = "next_job"
        /\ build' = [build EXCEPT ![b] = m]
    BY DEF OpenJob, queueVars
  <1>4. Jobs' \subseteq Jobs \cup {new}
    BY <1>3 DEF OpenJob, Jobs
  <1>5. WholeJobs' \subseteq WholeJobs
    BY <1>4 DEF WholeJobs
  <1>6. /\ m.stage = "write_job" /\ m.step = l.step /\ m.options = l.options
        /\ m.minId = l.minId /\ m.index = l.index /\ m.base = l.base
        /\ m.oldMinSeed = l.oldMinSeed /\ m.minSeed = l.minSeed
        /\ m.newMinSeed = l.newMinSeed /\ m.point = l.point
        /\ m \in BusyBuild
    BY <1>2 DEF BusyBuild
  <1>7. build'[b] = m /\ Building' = {b}
    BY <1>2, <1>3, <1>6, BuildType DEF TypeOK, Building
  <1> HIDE DEF m
  <1>8. RecordInv(build[b])'
    BY <1>2, <1>3, <1>6, <1>7 DEF RecordInv
  <1>9. SeedsInv(build[b])'
    <2>1. \A x : Mine(x, l) => Mine(x, m)
      BY <1>6 DEF Mine, SeedsEnd
    <2>5. \A x \in WholeJobs' : Mine(x, build[b])' <=> Mine(x, m)
      BY <1>7 DEF Mine, SeedsEnd
    <2>6. \A x \in WholeJobs' :
             \/ Mine(x, build[b])'
             \/ /\ x.job.last < build'[b].oldMinSeed
                /\ build'[b].step < 3 => x.job.last <= maxSeed'
      BY <1>2, <1>3, <1>5, <1>6, <1>7, <2>1, <2>5 DEF SeedsInv
    <2> QED BY <2>6 DEF SeedsInv
  <1>10. Disjoint'
    BY <1>2, <1>5 DEF Disjoint
  <1> QED BY <1>7, <1>8, <1>9, <1>10 DEF FarmInv

LEMMA FarmInvClose ==
  ASSUME TypeOK, LoopsInv, FarmInv, NEW b \in Builders, CloseJob(b)
  PROVE  FarmInv'
  <1> DEFINE l == build[b]
             m == AfterJob(l)
             n == l.options.iterations
             new == [name |-> JobName(l), job |-> JobText(l)]
  <1> SUFFICES ASSUME SeedsGuarded' PROVE FarmInv'
    BY DEF FarmInv
  <1>1. SeedsGuarded
    BY GuardedBefore DEF CloseJob
  <1>2. /\ l \in BusyBuild /\ Building = {b} /\ LoopInv(l) /\ RecordInv(l)
        /\ SeedsInv(l) /\ Disjoint
    BY <1>1, OneRun, IdleStage DEF CloseJob
  <1>3. /\ UNCHANGED <<maxSeed, maxId, submitted>> /\ l.stage = "write_job"
        /\ build' = [build EXCEPT ![b] = m]
    BY DEF CloseJob, queueVars
  <1>4. Jobs' \subseteq Jobs \cup {new}
    BY <1>3 DEF CloseJob, WithJob, Jobs
  <1>5. WholeJobs' \subseteq WholeJobs \cup {new}
    BY <1>4 DEF WholeJobs
  <1>6. m \in BusyBuild /\ LoopInv(m) /\ l.step = 1
    BY <1>2, <1>3, AfterJobType, LoopClose
  <1>7. build'[b] = m /\ Building' = {b}
    BY <1>2, <1>3, <1>6, BuildType DEF TypeOK, Building
  <1>8. /\ m.stage = "next_job" /\ m.step = 1 /\ m.options = l.options
        /\ m.minId = l.minId /\ m.index = l.index + 1
        /\ m.oldMinSeed = l.oldMinSeed
        /\ \/ m.point = l.point /\ m.minSeed = l.minSeed + n
           \/ m.point = l.point + 1
    BY <1>2, <1>6 DEF AfterJob, BusyBuild
  <1>t. /\ l.minSeed \in Nat /\ l.oldMinSeed \in Nat /\ n \in Nat /\ n > 0
        /\ l.index \in Nat /\ l.minId \in Nat /\ l.point \in Nat
        /\ l.point >= 1 /\ Points(l.options) \in Nat /\ l.options \in Options
    BY <1>2, LoopTypes
  <1>u. /\ l.oldMinSeed <= l.minSeed /\ l.minSeed + n <= SeedsEnd(l)
        /\ l.point \in 1..Points(l.options)
    <2>1. /\ l.i < l.options.jobs /\ l.point <= Points(l.options)
          /\ l.minSeed = l.oldMinSeed + Times(l.i, n)
      BY <1>2, <1>3 DEF LoopInv
    <2>2. /\ Times(l.i, n) \in Nat /\ Times(l.options.jobs, n) \in Nat
          /\ Times(l.i, n) + n <= Times(l.options.jobs, n)
      BY <1>2, <2>1, LoopTimes
    <2> QED BY <1>t, <2>1, <2>2 DEF SeedsEnd
  <1>9. /\ new.job.range = Grid(l.options)[l.point]
        /\ new.job.first = l.minSeed /\ new.job.last = l.minSeed + n - 1
    BY DEF JobText
  <1> HIDE DEF m, new, n
  <1>10. SeedsEnd(m) = SeedsEnd(l)
    BY <1>8 DEF SeedsEnd
  <1>11. Mine(new, m)
    <2>1. l.point <= m.point /\ (l.point = m.point => new.job.last < m.minSeed)
      BY <1>8, <1>9, <1>t
    <2>2. \E p \in 1..Points(m.options) :
             /\ p <= m.point
             /\ new.job.range = Grid(m.options)[p]
             /\ p = m.point => new.job.last < m.minSeed
      BY <1>8, <1>9, <1>u, <2>1
    <2>3. /\ new.job.first >= m.oldMinSeed /\ new.job.last < SeedsEnd(m)
          /\ new.job.first <= new.job.last
      <3>1. SeedsEnd(l) \in Nat
        BY <1>2, SeedsEndType
      <3> QED BY <1>8, <1>9, <1>10, <1>t, <1>u, <3>1
    <2> QED BY <2>2, <2>3 DEF Mine
  <1>12. ASSUME NEW x \in WholeJobs, Mine(x, l)
         PROVE  Mine(x, m)
    <2>1. x.job.last \in Nat
      BY JobsType
    <2>2. PICK p \in 1..Points(l.options) :
             /\ p <= l.point
             /\ x.job.range = Grid(l.options)[p]
             /\ p = l.point => x.job.last < l.minSeed
      BY <1>12 DEF Mine
    <2>3. p <= m.point /\ (p = m.point => x.job.last < m.minSeed)
      BY <1>8, <1>t, <2>1, <2>2
    <2> QED BY <1>8, <1>10, <1>12, <2>2, <2>3 DEF Mine
  <1>13. RecordInv(build[b])'
    BY <1>2, <1>3, <1>6, <1>7, <1>8 DEF RecordInv
  <1>14. SeedsInv(build[b])'
    <2>1. \A x \in WholeJobs' : Mine(x, build[b])' <=> Mine(x, m)
      BY <1>7 DEF Mine, SeedsEnd
    <2>2. \A x \in WholeJobs' :
             \/ Mine(x, build[b])'
             \/ /\ x.job.last < build'[b].oldMinSeed
                /\ build'[b].step < 3 => x.job.last <= maxSeed'
      BY <1>2, <1>3, <1>5, <1>6, <1>7, <1>8, <1>11, <1>12, <2>1 DEF SeedsInv
    <2> QED BY <2>2 DEF SeedsInv
  <1>15. Disjoint'
    <2>1. ASSUME NEW y \in WholeJobs, y.job.range = new.job.range
          PROVE  y.job.last < new.job.first
      <3>1. CASE y.job.last < l.oldMinSeed
        BY <1>9, <1>t, <1>u, <3>1, JobsType
      <3>2. CASE Mine(y, l)
        <4>1. PICK p \in 1..Points(l.options) :
                 /\ y.job.range = Grid(l.options)[p]
                 /\ p = l.point => y.job.last < l.minSeed
          BY <3>2 DEF Mine
        <4>2. p = l.point
          BY <1>9, <1>t, <1>u, <2>1, <4>1, OptionType
        <4> QED BY <1>9, <4>1, <4>2
      <3> QED BY <1>2, <3>1, <3>2 DEF SeedsInv
    <2> QED BY <1>2, <1>5, <2>1 DEF Disjoint
  <1> QED BY <1>7, <1>13, <1>14, <1>15 DEF FarmInv

(* What a step at the end of create_jobs writes down.                      *)
LEMMA EndEffect ==
  ASSUME TypeOK, NEW b \in Builders, EndStep(b), build[b] \in BusyBuild
  PROVE  /\ build[b].step = 9 => build' = [build EXCEPT ![b] = IdleBuild]
         /\ build[b].step # 9 =>
              build' = [build EXCEPT ![b] = [build[b] EXCEPT !.step = @ + 1]]
         /\ maxSeed' = IF build[b].step = 2 THEN Empty
                       ELSE IF build[b].step = 7 THEN build[b].newMinSeed - 1
                       ELSE maxSeed
         /\ maxId' = IF build[b].step = 3 THEN Empty
                     ELSE IF build[b].step = 8 THEN build[b].index - 1
                     ELSE maxId
  <1>1. build[b].step \in 1..9 /\ Len(Steps) = 9
    BY BuildType DEF Steps
  <1>2. \A k \in 1..9 :
          /\ Steps[k] = "open_max_seed" <=> k = 2
          /\ Steps[k] = "close_max_seed" <=> k = 7
          /\ Steps[k] = "open_max_id" <=> k = 3
          /\ Steps[k] = "close_max_id" <=> k = 8
    BY DEF Steps
  <1>3. /\ maxSeed' = CASE Steps[build[b].step] = "open_max_seed"  -> Empty
                         [] Steps[build[b].step] = "close_max_seed" ->
                              build[b].newMinSeed - 1
                         [] OTHER -> maxSeed
        /\ maxId' = CASE Steps[build[b].step] = "open_max_id"  -> Empty
                       [] Steps[build[b].step] = "close_max_id" ->
                            build[b].index - 1
                       [] OTHER -> maxId
        /\ build' = [build EXCEPT ![b] =
                       IF build[b].step = Len(Steps) THEN IdleBuild
                       ELSE [build[b] EXCEPT !.step = @ + 1]]
    BY Zenon DEF EndStep, LastId
  <1>4. maxSeed' = IF Steps[build[b].step] = "open_max_seed" THEN Empty
                   ELSE IF Steps[build[b].step] = "close_max_seed"
                        THEN build[b].newMinSeed - 1 ELSE maxSeed
    BY <1>3, Zenon
  <1>5. maxId' = IF Steps[build[b].step] = "open_max_id" THEN Empty
                 ELSE IF Steps[build[b].step] = "close_max_id"
                      THEN build[b].index - 1 ELSE maxId
    BY <1>3, Zenon
  <1> HIDE DEF Steps
  <1> QED BY <1>1, <1>2, <1>3, <1>4, <1>5

(* The largest seed of a run that is through its loops bounds the seeds of *)
(* all jobs.                                                               *)
LEMMA RunRecorded ==
  ASSUME TypeOK, NEW l \in BusyBuild, LoopInv(l), SeedsInv(l), l.step > 1
  PROVE  \A x \in WholeJobs : x.job.last <= l.newMinSeed - 1
  <1>1. /\ l.newMinSeed = (IF l.point = 1 THEN l.oldMinSeed ELSE SeedsEnd(l))
        /\ l.point > Points(l.options)
    BY DEF LoopInv
  <1>2. /\ SeedsEnd(l) \in Nat /\ SeedsEnd(l) > l.oldMinSeed
        /\ l.oldMinSeed \in Nat /\ l.point \in Nat
        /\ Points(l.options) \in Nat
    BY LoopTypes, SeedsEndType
  <1> TAKE x \in WholeJobs
  <1>3. x.job.last \in Nat
    BY JobsType
  <1>4. CASE Mine(x, l)
    <2>1. x.job.last < SeedsEnd(l) /\ \E p \in 1..Points(l.options) : TRUE
      BY <1>4 DEF Mine
    <2>2. l.point # 1
      BY <1>1, <1>2, <2>1
    <2> QED BY <1>1, <1>2, <1>3, <2>1, <2>2
  <1>5. CASE x.job.last < l.oldMinSeed
    BY <1>1, <1>2, <1>3, <1>5
  <1> QED BY <1>4, <1>5 DEF SeedsInv

(* A run that has not opened a job file yet has no job.                    *)
LEMMA NothingMine ==
  ASSUME TypeOK, NEW l \in BusyBuild, LoopInv(l), l.index = l.minId
  PROVE  \A x \in WholeJobs : ~Mine(x, l)
  <1>1. l.point = 1 /\ l.i = 0
        /\ l.minSeed = l.oldMinSeed + Times(l.i, l.options.iterations)
    BY DEF LoopInv
  <1>2. Times(0, l.options.iterations) = 0 /\ l.oldMinSeed \in Nat
    BY LoopTimes, LoopTypes
  <1>3. l.minSeed = l.oldMinSeed
    BY <1>1, <1>2
  <1> SUFFICES ASSUME NEW x \in WholeJobs, Mine(x, l) PROVE FALSE
    OBVIOUS
  <1>4. x.job.last \in Nat /\ x.job.first \in Nat
    BY JobsType
  <1>5. PICK p \in 1..Points(l.options) :
           p <= l.point /\ (p = l.point => x.job.last < l.minSeed)
    BY DEF Mine
  <1>6. p = l.point
    BY <1>1, <1>5, LoopTypes
  <1> QED BY <1>2, <1>3, <1>4, <1>5, <1>6 DEF Mine

LEMMA FarmInvEnd ==
  ASSUME TypeOK, LoopsInv, FarmInv, NEW b \in Builders, EndStep(b)
  PROVE  FarmInv'
  <1> DEFINE l == build[b]
             m == [l EXCEPT !.step = @ + 1]
  <1> SUFFICES ASSUME SeedsGuarded' PROVE FarmInv'
    BY DEF FarmInv
  <1>1. SeedsGuarded
    BY GuardedBefore DEF EndStep
  <1>2. /\ l \in BusyBuild /\ Building = {b} /\ LoopInv(l) /\ RecordInv(l)
        /\ SeedsInv(l) /\ Disjoint
    BY <1>1, OneRun, IdleStage DEF EndStep
  <1>3. Jobs' = Jobs /\ WholeJobs' = WholeJobs /\ l.stage = "next_job"
        /\ l.step \in 1..9
    BY <1>2, BuildType DEF EndStep, Jobs, WholeJobs, queueVars
  <1>4. Disjoint'
    BY <1>2, <1>3 DEF Disjoint
  <1>5. CASE l.step = 9
    <2>1. Building' = {} /\ UNCHANGED <<maxSeed, maxId>>
      BY <1>2, <1>5, EndEffect DEF TypeOK, Building
    <2>2. SeedsRecorded
      BY <1>2, <1>5, RunRecorded DEF RecordInv, SeedsRecorded
    <2> QED BY <1>3, <1>4, <2>1, <2>2 DEF FarmInv, SeedsRecorded
  <1>6. CASE l.step # 9
    <2>1. /\ m.stage = l.stage /\ m.step = l.step + 1 /\ m.options = l.options
          /\ m.minId = l.minId /\ m.index = l.index /\ m.base = l.base
          /\ m.oldMinSeed = l.oldMinSeed /\ m.minSeed = l.minSeed
          /\ m.newMinSeed = l.newMinSeed /\ m.point = l.point
      BY <1>2 DEF BusyBuild
    <2>2. m # IdleBuild
      BY <1>3, <2>1, IdleStage
    <2>3. build'[b] = m /\ Building' = {b}
      BY <1>2, <1>6, <2>2, EndEffect DEF TypeOK, Building
    <2>4. /\ maxSeed' = IF l.step = 2 THEN Empty
                        ELSE IF l.step = 7 THEN l.newMinSeed - 1 ELSE maxSeed
          /\ maxId' = IF l.step = 3 THEN Empty
                      ELSE IF l.step = 8 THEN l.index - 1 ELSE maxId
      BY <1>2, EndEffect
    <2> HIDE DEF m
    <2>5. RecordInv(build[b])'
      BY <1>2, <1>3, <1>6, <2>1, <2>3, <2>4 DEF RecordInv, Empty
    <2>6. SeedsInv(build[b])'
      <3>1. \A x \in WholeJobs : Mine(x, build[b])' <=> Mine(x, l)
        BY <2>1, <2>3 DEF Mine, SeedsEnd
      <3>2. build'[b].step < 3 => l.step < 3 /\ maxSeed' = maxSeed /\ maxId' = maxId
        BY <1>3, <2>1, <2>3, <2>4
      <3> QED BY <1>2, <1>3, <2>1, <2>3, <3>1, <3>2 DEF SeedsInv, JobName
    <2> QED BY <1>4, <2>3, <2>5, <2>6 DEF FarmInv
  <1> QED BY <1>5, <1>6

(* A run that ends without a mishap before it truncates max_seed has not   *)
(* changed the directory.                                                  *)
LEMMA HalfARunFacts ==
  ASSUME NEW l \in BusyBuild, LoopInv(l), SeedsGuarded',
         mishaps \cup Beside(HalfARun(l), "half_a_run") \subseteq mishaps'
  PROVE  /\ l.stage = "next_job"
         /\ l.step < 3 => l.index = l.minId /\ l.step = 1
  <1>1. ~HalfARun(l)
    BY DEF Beside, SeedsGuarded, Barring
  <1>2. /\ l.step \in 1..9 /\ l.index \in Nat /\ l.minId \in Nat
        /\ l.stage \in {"next_job", "write_job"} /\ l.index >= l.minId
        /\ l.step > 1 => l.stage = "next_job"
    BY BuildType DEF LoopInv
  <1> QED BY <1>1, <1>2 DEF HalfARun

(* What an interrupted run leaves behind.                                  *)
LEMMA InterruptEffect ==
  ASSUME TypeOK, NEW b \in Builders, InterruptBuild(b), SeedsGuarded',
         build[b] \in BusyBuild, Building = {b},
         LoopInv(build[b]), RecordInv(build[b])
  PROVE  /\ Building' = {} /\ UNCHANGED <<bulk, submitted>>
         /\ build[b].stage = "next_job"
         /\ build[b].step < 3 =>
              /\ build[b].index = build[b].minId /\ build[b].step = 1
              /\ UNCHANGED <<maxSeed, maxId, control>>
         /\ build[b].step >= 3 /\ StateReadable' =>
              /\ maxSeed' = build[b].newMinSeed - 1
              /\ Guarded' => maxId' = build[b].index - 1
              /\ build[b].step < 7 => build[b].base \in control'
         /\ control \subseteq control'
         /\ maxId' \in {maxId, build[b].index - 1}
         /\ script' = [script EXCEPT ![build[b].base] = script'[build[b].base]]
         /\ script'[build[b].base] \subseteq
              script[build[b].base] \cup JobNames(build[b])
  <1> DEFINE l == build[b]
  <1>0. l.step \in 1..9 /\ l.base \in Bases
    BY BuildType
  <1>1. /\ l.stage = "next_job"
        /\ l.step < 3 => l.index = l.minId /\ l.step = 1
    BY HalfARunFacts DEF InterruptBuild
  <1>2. Building' = {}
    BY DEF InterruptBuild, TypeOK, Building
  <1>3. UNCHANGED <<bulk, submitted>>
    BY <1>1 DEF InterruptBuild, queueVars
  <1>4. PICK late \in BOOLEAN :
          /\ script' = IF l.step > 5 THEN script
                       ELSE [script EXCEPT ![l.base] =
                               JobNames(l) \ LineMissing(l, late)]
          /\ control' = control
               \cup (IF TextOf(l, late, 1) THEN {ControlOf(l)} ELSE {})
          /\ maxSeed' = IF TextOf(l, late, 2) THEN l.newMinSeed - 1 ELSE maxSeed
          /\ maxId' = IF TextOf(l, late, 3) THEN LastId(l) ELSE maxId
          /\ mishaps' = mishaps \cup Beside(HalfARun(l), "half_a_run")
               \cup Beside(l.step = 3 /\ ~late, "seeds_without_ids")
    BY DEF InterruptBuild
  <1>5. Guarded' => ~(l.step = 3 /\ ~late)
    BY <1>4 DEF Beside, Guarded, Barring
  <1>6. /\ TextOf(l, late, 1) <=> l.step \in 2..6 /\ ~(late /\ l.step = 2)
        /\ TextOf(l, late, 2) <=> l.step \in 3..7 /\ ~(late /\ l.step = 3)
        /\ TextOf(l, late, 3) <=> l.step \in 4..8 /\ ~(late /\ l.step = 4)
    BY <1>0 DEF TextOf
  <1>7. l.step < 3 => UNCHANGED <<maxSeed, maxId, control>>
    BY <1>0, <1>1, <1>4, <1>6
  <1>8. ASSUME l.step >= 3, StateReadable'
        PROVE  /\ maxSeed' = l.newMinSeed - 1
               /\ Guarded' => maxId' = l.index - 1
               /\ l.step < 7 => l.base \in control'
    <2>1. maxSeed' = l.newMinSeed - 1
      BY <1>0, <1>4, <1>6, <1>8 DEF RecordInv, StateReadable
    <2>2. Guarded' => maxId' = l.index - 1
      BY <1>0, <1>4, <1>5, <1>6, <1>8 DEF RecordInv, StateReadable, LastId
    <2>3. l.step < 7 => l.base \in control'
      BY <1>0, <1>4, <1>6, <1>8 DEF ControlOf
    <2> QED BY <2>1, <2>2, <2>3
  <1>9. control \subseteq control' /\ maxId' \in {maxId, l.index - 1}
    BY <1>4 DEF LastId
  <1>10. /\ script' = [script EXCEPT ![l.base] = script'[l.base]]
         /\ script'[l.base] \subseteq script[l.base] \cup JobNames(l)
    BY <1>0, <1>4 DEF TypeOK
  <1> QED BY <1>1, <1>2, <1>3, <1>7, <1>8, <1>9, <1>10

LEMMA FarmInvKill ==
  ASSUME TypeOK, LoopsInv, FarmInv, NEW b \in Builders, KillBuild(b)
  PROVE  FarmInv'
  <1> DEFINE l == build[b]
  <1> SUFFICES ASSUME SeedsGuarded' PROVE FarmInv'
    BY DEF FarmInv
  <1>1. SeedsGuarded
    BY GuardedBefore DEF KillBuild
  <1>2. /\ l \in BusyBuild /\ Building = {b} /\ LoopInv(l) /\ RecordInv(l)
        /\ SeedsInv(l) /\ Disjoint
    BY <1>1, OneRun DEF KillBuild
  <1>3. Jobs' = Jobs /\ WholeJobs' = WholeJobs /\ UNCHANGED <<maxSeed, maxId>>
    BY DEF KillBuild, Jobs, WholeJobs, dirVars, queueVars
  <1>4. Disjoint'
    BY <1>2, <1>3 DEF Disjoint
  <1>5. Building' = {}
    BY <1>2 DEF KillBuild, TypeOK, Building
  <1>6. StateReadable => SeedsRecorded
    <2> SUFFICES ASSUME StateReadable PROVE SeedsRecorded
      OBVIOUS
    <2>1. l.step \in 1..9
      BY <1>2, BuildType
    <2>2. CASE l.step < 3
      <3>1. l.index = l.minId
        BY <1>2, <2>2, HalfARunFacts DEF KillBuild
      <3>2. \A x \in WholeJobs : ~Mine(x, l)
        BY <1>2, <3>1, NothingMine
      <3> QED BY <1>2, <2>2, <3>2 DEF SeedsInv, SeedsRecorded
    <2>3. CASE ~(l.step < 3)
      <3>1. maxSeed = l.newMinSeed - 1 /\ l.step > 1
        BY <1>2, <2>1, <2>3 DEF RecordInv, StateReadable
      <3> QED BY <1>2, <3>1, RunRecorded DEF SeedsRecorded
    <2> QED BY <2>2, <2>3
  <1> QED BY <1>3, <1>4, <1>5, <1>6 DEF FarmInv, SeedsRecorded, StateReadable

LEMMA FarmInvInterrupt ==
  ASSUME TypeOK, LoopsInv, FarmInv, NEW b \in Builders, InterruptBuild(b)
  PROVE  FarmInv'
  <1> DEFINE l == build[b]
  <1> SUFFICES ASSUME SeedsGuarded' PROVE FarmInv'
    BY DEF FarmInv
  <1>1. SeedsGuarded
    BY GuardedBefore DEF InterruptBuild
  <1>2. /\ l \in BusyBuild /\ Building = {b} /\ LoopInv(l) /\ RecordInv(l)
        /\ SeedsInv(l) /\ Disjoint
    BY <1>1, OneRun DEF InterruptBuild
  <1>3. /\ Building' = {} /\ UNCHANGED <<bulk, submitted>>
        /\ l.step < 3 => l.index = l.minId /\ UNCHANGED maxSeed
        /\ l.step >= 3 /\ StateReadable' => maxSeed' = l.newMinSeed - 1
    BY <1>2, InterruptEffect
  <1>4. Jobs' = Jobs /\ WholeJobs' = WholeJobs
    BY <1>3 DEF Jobs, WholeJobs
  <1>5. Disjoint'
    BY <1>2, <1>4 DEF Disjoint
  <1>6. StateReadable' => SeedsRecorded'
    <2> SUFFICES ASSUME StateReadable'
                 PROVE  \A x \in WholeJobs : x.job.last <= maxSeed'
      BY <1>4 DEF SeedsRecorded
    <2>1. l.step \in 1..9
      BY <1>2, BuildType
    <2>2. CASE l.step < 3
      <3>1. \A x \in WholeJobs : ~Mine(x, l)
        BY <1>2, <1>3, <2>2, NothingMine
      <3> QED BY <1>2, <1>3, <2>2, <3>1 DEF SeedsInv
    <2>3. CASE ~(l.step < 3)
      BY <1>2, <1>3, <2>1, <2>3, RunRecorded
    <2> QED BY <2>2, <2>3
  <1> QED BY <1>3, <1>5, <1>6 DEF FarmInv

-----------------------------------------------------------------------------
(* The job numbers, while no run ends between max_seed and max_id.         *)

LEMMA OneNumberedRun ==
  ASSUME TypeOK, LoopsInv, FarmInv, NumbersInv, Guarded, NEW b \in Builders,
         build[b].stage # "idle" \/ build[b] # IdleBuild
  PROVE  /\ build[b] \in BusyBuild /\ Building = {b}
         /\ LoopInv(build[b]) /\ RecordInv(build[b]) /\ IdsInv(build[b])
  <1>1. SeedsGuarded
    BY DEF Guarded, SeedsGuarded, Barring
  <1>2. /\ build[b] \in BusyBuild /\ Building = {b}
        /\ LoopInv(build[b]) /\ RecordInv(build[b])
    BY <1>1, OneRun
  <1> QED BY <1>2 DEF NumbersInv

LEMMA NumbersQuiet ==
  ASSUME NumbersInv, Jobs' \subseteq Jobs, UNCHANGED <<build, maxSeed, maxId>>,
         mishaps \subseteq mishaps'
  PROVE  NumbersInv'
  <1>1. Guarded' => Guarded
    BY GuardedBefore
  <1>2. Building' = Building /\ (StateReadable' <=> StateReadable)
    BY DEF Building, StateReadable
  <1> QED BY <1>1, <1>2 DEF NumbersInv, IdsRecorded, IdsInv

LEMMA NumbersStart ==
  ASSUME TypeOK, NumbersInv, NEW b \in Builders, StartBuild(b)
  PROVE  NumbersInv'
  <1>1. mishaps \subseteq mishaps' /\ Jobs' = Jobs /\ UNCHANGED <<maxSeed, maxId>>
    BY DEF StartBuild, Jobs, queueVars
  <1>2. CASE UNCHANGED build
    BY <1>1, <1>2, NumbersQuiet
  <1>3. CASE \E o \in Options :
               StateReadable /\ build' = [build EXCEPT ![b] = NewRun(o)]
    <2> PICK o \in Options :
          StateReadable /\ build' = [build EXCEPT ![b] = NewRun(o)]
      BY <1>3
    <2> SUFFICES ASSUME Guarded' PROVE NumbersInv'
      BY DEF NumbersInv
    <2>1. Guarded
      BY <1>1, GuardedBefore
    <2>2. Building = {}
      BY DEF StartBuild, Beside, Guarded, Barring
    <2>3. IdsRecorded
      BY <2>1, <2>2 DEF NumbersInv
    <2>4. Building' = {b} /\ build'[b] = NewRun(o)
      BY <2>2, NewRunType, BuildType DEF Building, TypeOK
    <2>5. build'[b].minId = FirstId /\ build'[b].index = FirstId
      BY <2>4 DEF NewRun
    <2>6. \A x \in Jobs : x.name[2] < FirstId /\ x.name[2] <= maxId
      <3> TAKE x \in Jobs
      <3>1. x.name[2] \in Nat /\ x.name[2] <= maxId
        BY <2>3, JobsType DEF IdsRecorded
      <3>2. maxId \in Int
        BY DEF TypeOK, Number, Absent, Empty
      <3>3. maxId # Absent
        BY <3>1 DEF Absent
      <3> QED BY <3>1, <3>2, <3>3 DEF FirstId
    <2>7. IdsInv(build[b])'
      BY <1>1, <2>5, <2>6 DEF IdsInv
    <2> QED BY <2>4, <2>7 DEF NumbersInv
  <1> QED BY <1>2, <1>3 DEF StartBuild

LEMMA NumbersOpen ==
  ASSUME TypeOK, LoopsInv, FarmInv, NumbersInv, NEW b \in Builders, OpenJob(b)
  PROVE  NumbersInv'
  <1> DEFINE l == build[b]
             m == [l EXCEPT !.stage = "write_job"]
             new == [name |-> JobName(l), job |-> EmptyJob]
  <1> SUFFICES ASSUME Guarded' PROVE NumbersInv'
    BY DEF NumbersInv
  <1>1. Guarded
    BY GuardedBefore DEF OpenJob
  <1>2. /\ l \in BusyBuild /\ Building = {b} /\ LoopInv(l) /\ IdsInv(l)
    BY <1>1, OneNumberedRun, IdleStage DEF OpenJob
  <1>3. UNCHANGED <<maxSeed, maxId, submitted>> /\ l.stage = "next_job"
        /\ build' = [build EXCEPT ![b] = m]
    BY DEF OpenJob, queueVars
  <1>4. Jobs' \subseteq Jobs \cup {new}
    BY <1>3 DEF OpenJob, Jobs
  <1>5. /\ m.stage = "write_job" /\ m.step = l.step /\ m.minId = l.minId
        /\ m.index = l.index /\ m.base = l.base /\ m \in BusyBuild
    BY <1>2 DEF BusyBuild
  <1>6. build'[b] = m /\ Building' = {b}
    BY <1>2, <1>3, <1>5, BuildType DEF TypeOK, Building
  <1> HIDE DEF m
  <1>7. \A x \in Jobs : /\ x.name[2] < m.index
                        /\ m.step < 3 => x.name[2] <= maxId \/ x.name[2] >= m.minId
    BY <1>2, <1>3, <1>5 DEF IdsInv
  <1>8. new.name = JobName(m) /\ new.name[2] >= m.minId
    BY <1>2, <1>5 DEF JobName, LoopInv
  <1>9. \A x \in Jobs' :
           /\ x.name[2] < m.index \/ x.name = JobName(m)
           /\ m.step < 3 => x.name[2] <= maxId' \/ x.name[2] >= m.minId
    BY <1>3, <1>4, <1>7, <1>8
  <1>10. IdsInv(build[b])'
    BY <1>5, <1>6, <1>9 DEF IdsInv, JobName
  <1> QED BY <1>6, <1>10 DEF NumbersInv

LEMMA NumbersClose ==
  ASSUME TypeOK, LoopsInv, FarmInv, NumbersInv, NEW b \in Builders, CloseJob(b)
  PROVE  NumbersInv'
  <1> DEFINE l == build[b]
             m == AfterJob(l)
             new == [name |-> JobName(l), job |-> JobText(l)]
  <1> SUFFICES ASSUME Guarded' PROVE NumbersInv'
    BY DEF NumbersInv
  <1>1. Guarded
    BY GuardedBefore DEF CloseJob
  <1>2. /\ l \in BusyBuild /\ Building = {b} /\ LoopInv(l) /\ IdsInv(l)
    BY <1>1, OneNumberedRun, IdleStage DEF CloseJob
  <1>3. /\ UNCHANGED <<maxSeed, maxId, submitted>> /\ l.stage = "write_job"
        /\ build' = [build EXCEPT ![b] = m]
    BY DEF CloseJob, queueVars
  <1>4. Jobs' \subseteq Jobs \cup {new}
    BY <1>3 DEF CloseJob, WithJob, Jobs
  <1>5. m \in BusyBuild /\ l.step = 1 /\ l.index \in Nat /\ l.minId \in Nat
    BY <1>2, <1>3, AfterJobType, LoopClose, BuildType
  <1>6. build'[b] = m /\ Building' = {b}
    BY <1>2, <1>3, <1>5, BuildType DEF TypeOK, Building
  <1>7. /\ m.step = l.step /\ m.minId = l.minId /\ m.index = l.index + 1
    BY <1>2 DEF AfterJob, BusyBuild
  <1>8. new.name[2] = l.index /\ l.index >= l.minId
    BY <1>2 DEF JobName, LoopInv
  <1> HIDE DEF m, new
  <1>9. \A x \in Jobs : /\ x.name[2] \in Nat /\ x.name[2] < m.index
                        /\ x.name[2] <= maxId \/ x.name[2] >= m.minId
    BY <1>2, <1>5, <1>7, JobsType DEF IdsInv, JobName
  <1>10. \A x \in Jobs' : /\ x.name[2] < m.index
                          /\ x.name[2] <= maxId' \/ x.name[2] >= m.minId
    BY <1>3, <1>4, <1>5, <1>7, <1>8, <1>9
  <1>11. IdsInv(build[b])'
    BY <1>6, <1>10 DEF IdsInv
  <1> QED BY <1>6, <1>11 DEF NumbersInv

(* The job numbers of a run that is through its loops.                     *)
LEMMA IdsBelow ==
  ASSUME TypeOK, NEW l \in BusyBuild, LoopInv(l), IdsInv(l), l.stage = "next_job"
  PROVE  \A x \in Jobs : x.name[2] <= l.index - 1
  <1> TAKE x \in Jobs
  <1>1. x.name[2] \in Nat /\ x.name[2] < l.index /\ l.index \in Nat
    BY JobsType, BuildType DEF IdsInv
  <1> QED BY <1>1

LEMMA NumbersEnd ==
  ASSUME TypeOK, LoopsInv, FarmInv, NumbersInv, NEW b \in Builders, EndStep(b)
  PROVE  NumbersInv'
  <1> DEFINE l == build[b]
             m == [l EXCEPT !.step = @ + 1]
  <1> SUFFICES ASSUME Guarded' PROVE NumbersInv'
    BY DEF NumbersInv
  <1>1. Guarded
    BY GuardedBefore DEF EndStep
  <1>2. /\ l \in BusyBuild /\ Building = {b} /\ LoopInv(l) /\ RecordInv(l)
        /\ IdsInv(l)
    BY <1>1, OneNumberedRun, IdleStage DEF EndStep
  <1>3. Jobs' = Jobs /\ l.stage = "next_job" /\ l.step \in 1..9
    BY <1>2, BuildType DEF EndStep, Jobs, queueVars
  <1>4. CASE l.step = 9
    <2>1. Building' = {} /\ UNCHANGED <<maxSeed, maxId>>
      BY <1>2, <1>4, EndEffect DEF TypeOK, Building
    <2>2. IdsRecorded
      BY <1>2, <1>3, <1>4, IdsBelow DEF RecordInv, IdsRecorded
    <2> QED BY <1>3, <2>1, <2>2 DEF NumbersInv, IdsRecorded
  <1>5. CASE l.step # 9
    <2>1. /\ m.stage = l.stage /\ m.step = l.step + 1
          /\ m.minId = l.minId /\ m.index = l.index
      BY <1>2 DEF BusyBuild
    <2>2. m # IdleBuild
      BY <1>3, <2>1, IdleStage
    <2>3. build'[b] = m /\ Building' = {b}
      BY <1>2, <1>5, <2>2, EndEffect DEF TypeOK, Building
    <2>4. l.step < 3 => maxId' = maxId
      BY <1>2, <1>3, EndEffect
    <2> HIDE DEF m
    <2>5. IdsInv(build[b])'
      BY <1>2, <1>3, <2>1, <2>3, <2>4 DEF IdsInv
    <2> QED BY <2>3, <2>5 DEF NumbersInv
  <1> QED BY <1>4, <1>5

(* A run that ends in the middle of its steps.                             *)
LEMMA NumbersCut ==
  ASSUME TypeOK, LoopsInv, FarmInv, NumbersInv, NEW b \in Builders,
         KillBuild(b) \/ InterruptBuild(b)
  PROVE  NumbersInv'
  <1> DEFINE l == build[b]
  <1> SUFFICES ASSUME Guarded' PROVE NumbersInv'
    BY DEF NumbersInv
  <1>1. Guarded /\ SeedsGuarded'
    BY GuardedBefore DEF KillBuild, InterruptBuild, Guarded, SeedsGuarded, Barring
  <1>2. /\ l \in BusyBuild /\ Building = {b} /\ LoopInv(l) /\ RecordInv(l)
        /\ IdsInv(l)
    BY <1>1, OneNumberedRun DEF KillBuild, InterruptBuild
  <1>3. /\ Building' = {} /\ Jobs' = Jobs /\ l.stage = "next_job"
        /\ l.step < 3 => l.index = l.minId /\ UNCHANGED maxId
        /\ l.step >= 3 /\ StateReadable' => maxId' = l.index - 1
    <2>1. CASE KillBuild(b)
      <3>1. Building' = {} /\ Jobs' = Jobs /\ UNCHANGED <<maxSeed, maxId>>
        BY <1>2, <2>1 DEF KillBuild, TypeOK, Building, Jobs, dirVars, queueVars
      <3>2. l.stage = "next_job" /\ (l.step < 3 => l.index = l.minId)
        BY <1>1, <1>2, <2>1, HalfARunFacts DEF KillBuild
      <3>3. l.step >= 3 /\ StateReadable' => maxId = l.index - 1
        BY <1>2, <3>1, BuildType DEF RecordInv, StateReadable
      <3> QED BY <3>1, <3>2, <3>3
    <2>2. CASE InterruptBuild(b)
      BY <1>1, <1>2, <2>2, InterruptEffect DEF Jobs
    <2> QED BY <2>1, <2>2
  <1>4. \A x \in Jobs : x.name[2] <= l.index - 1
    BY <1>2, <1>3, IdsBelow
  <1>5. StateReadable' => \A x \in Jobs : x.name[2] <= maxId'
    <2>1. CASE l.step < 3
      <3>1. \A x \in Jobs : x.name[2] \in Nat /\ ~(x.name[2] >= l.minId)
        BY <1>2, <1>3, <1>4, <2>1, JobsType, BuildType
      <3> QED BY <1>2, <1>3, <2>1, <3>1 DEF IdsInv
    <2>2. CASE ~(l.step < 3)
      BY <1>2, <1>3, <1>4, <2>2, BuildType
    <2> QED BY <2>1, <2>2
  <1> QED BY <1>3, <1>5 DEF NumbersInv, IdsRecorded

LEMMA CutUnharmed ==
  ASSUME Guarded', NEW b \in Builders, KillBuild(b) \/ InterruptBuild(b),
         build[b] \in BusyBuild, LoopInv(build[b])
  PROVE  /\ SeedsGuarded' /\ build[b].stage = "next_job"
         /\ build[b].step < 3 => build[b].index = build[b].minId
  <1>1. SeedsGuarded'
    BY DEF Guarded, SeedsGuarded, Barring
  <1>2. mishaps \cup Beside(HalfARun(build[b]), "half_a_run") \subseteq mishaps'
    BY DEF KillBuild, InterruptBuild
  <1> QED BY <1>1, <1>2, HalfARunFacts

LEMMA SchedQuiet ==
  ASSUME \/ \E s \in Schedulers : SchedStep(s) \/ KillScheduler(s)
         \/ RunSubmitScript
         \/ JobEnds
         \/ UNCHANGED vars
  PROVE  /\ UNCHANGED <<build, maxSeed, maxId>> /\ mishaps \subseteq mishaps'
         /\ Jobs' \subseteq Jobs
  <1>1. /\ UNCHANGED <<build, maxSeed, maxId>> /\ mishaps \subseteq mishaps'
    BY DEF SchedStep, AutoSubmit, CountRunning, SubmitNext, MoveDone, SubmitEnds,
       KillScheduler, RunSubmitScript, JobEnds, vars, dirVars
  <1>2. Jobs' \subseteq Jobs
    <2>1. CASE UNCHANGED <<bulk, submitted>>
      BY <2>1 DEF Jobs
    <2>2. CASE \E names \in SUBSET DOMAIN bulk : Submit(names) /\ UNCHANGED bulk
      BY <2>2 DEF Jobs, Submit
    <2>3. CASE \E s \in Schedulers : MoveDone(s)
      BY <2>3 DEF Jobs, MoveDone, queueVars
    <2> QED BY <2>1, <2>2, <2>3 DEF SchedStep, AutoSubmit, CountRunning,
            SubmitNext, SubmitEnds, KillScheduler, RunSubmitScript, JobEnds,
            vars, dirVars, queueVars
  <1> QED BY <1>1, <1>2

-----------------------------------------------------------------------------
(* The theorems.                                                           *)

LEMMA IInvInit == Init => IInv
  <1> SUFFICES ASSUME Init PROVE IInv
    OBVIOUS
  <1>1. TypeOK
    BY TypeOKInit
  <1>2. DOMAIN bulk = {} /\ Building = {} /\ Jobs = {} /\ WholeJobs = {}
    BY DEF Init, Building, Jobs, WholeJobs
  <1>3. IsFiniteSet(DOMAIN bulk)
    BY <1>2, FS_EmptySet
  <1>4. LoopsInv
    BY DEF Init, LoopsInv
  <1>5. FarmInv /\ NumbersInv
    BY <1>2 DEF FarmInv, NumbersInv, Disjoint, SeedsRecorded, IdsRecorded
  <1> QED BY <1>1, <1>3, <1>4, <1>5 DEF IInv

LEMMA IInvNext == IInv /\ [Next]_vars => IInv'
  <1> SUFFICES ASSUME IInv, [Next]_vars PROVE IInv'
    OBVIOUS
  <1>1. TypeOK' /\ IsFiniteSet(DOMAIN bulk)'
    BY TypeOKNext DEF IInv
  <1>2. CASE \E b \in Builders :
               BuildStep(b) \/ KillBuild(b) \/ InterruptBuild(b)
    <2>1. PICK b \in Builders :
            BuildStep(b) \/ KillBuild(b) \/ InterruptBuild(b)
      BY <1>2
    <2>2. LoopsInv'
      BY <2>1, LoopsInvBuild DEF IInv
    <2>3. FarmInv'
      BY <2>1, FarmInvStart, FarmInvOpen, FarmInvClose, FarmInvEnd, FarmInvKill,
         FarmInvInterrupt DEF BuildStep, IInv
    <2>4. NumbersInv'
      BY <2>1, NumbersStart, NumbersOpen, NumbersClose, NumbersEnd, NumbersCut
      DEF BuildStep, IInv
    <2> QED BY <1>1, <2>2, <2>3, <2>4 DEF IInv
  <1>3. CASE ~(\E b \in Builders :
                 BuildStep(b) \/ KillBuild(b) \/ InterruptBuild(b))
    <2>1. \/ \E s \in Schedulers : SchedStep(s) \/ KillScheduler(s)
          \/ RunSubmitScript
          \/ JobEnds
          \/ UNCHANGED vars
      BY <1>3 DEF Next
    <2>2. LoopsInv'
      <3>1. UNCHANGED build
        BY <2>1 DEF SchedStep, AutoSubmit, CountRunning, SubmitNext, MoveDone,
           SubmitEnds, KillScheduler, RunSubmitScript, JobEnds, vars
      <3> QED BY <3>1 DEF IInv, LoopsInv, LoopInv, SeedsEnd
    <2>3. FarmInv' /\ NumbersInv'
      BY <2>1, SchedQuiet, FarmInvQuiet, NumbersQuiet DEF IInv
    <2> QED BY <1>1, <2>2, <2>3 DEF IInv
  <1> QED BY <1>2, <1>3

LEMMA IInvAlways == Spec => []IInv
BY IInvInit, IInvNext, PTL DEF Spec

(* Every value a variable takes is of its type.                            *)
THEOREM JobFarmTypes == Spec => []TypeOK
BY IInvAlways, PTL DEF IInv

(* As long as no two runs of PBSJobBuilder.py go on at a time and none     *)
(* ends between its first job file and the truncation of max_seed, no two  *)
(* toys of jobs with the same scan values have the same seed: over any     *)
(* number of runs, with any command lines, whatever is submitted           *)
(* meanwhile, killed or interrupted at any other moment.                   *)
THEOREM SeedsAreUnique == Spec => []UniqueSeeds
  <1>1. IInv => UniqueSeeds
    BY DEF IInv, FarmInv, UniqueSeeds, Disjoint, SeedsGuarded
  <1> QED BY <1>1, IInvAlways, PTL

(* Under the same provision, and unless an interrupt lets a run write      *)
(* max_seed and not max_id, a run never opens a job file of a name that a  *)
(* job has or has had: no job and no result is overwritten.                *)
THEOREM JobFilesAreFresh == Spec => JobFilesFresh
  <1>1. IInv /\ [Next]_vars =>
          [\A b \in Builders :
             OpenJob(b) /\ NumbersKept =>
               \A x \in Jobs : x.name # JobName(build[b])]_vars
    <2> SUFFICES ASSUME IInv, NEW b \in Builders, OpenJob(b), Guarded
                 PROVE  \A x \in Jobs : x.name # JobName(build[b])
      BY DEF Guarded, NumbersKept
    <2>1. build[b].stage = "next_job"
      BY DEF OpenJob
    <2>2. build[b] \in BusyBuild /\ IdsInv(build[b])
      BY <2>1, OneNumberedRun, IdleStage DEF IInv
    <2>3. build[b].index \in Nat /\ JobName(build[b])[2] = build[b].index
      BY <2>2, BuildType, JobNameType
    <2>4. \A x \in Jobs : x.name[2] < build[b].index
      BY <2>1, <2>2 DEF IdsInv
    <2> QED BY <2>3, <2>4
  <1> QED BY <1>1, IInvAlways, PTL DEF Spec, JobFilesFresh

-----------------------------------------------------------------------------
(* Submissions, and the jobs of a run.                                     *)

OneScheduler == Barring({"two_schedulers"}) => \A s, t \in Scheduling : s = t

ApartInv ==
  Barring({"builder_beside_scheduler"}) => Building = {} \/ Scheduling = {}

EmptyInv ==
  Guarded =>
    \A name \in DOMAIN bulk : bulk[name] = EmptyJob =>
      \E b \in Building : build[b].stage = "write_job" /\ name = JobName(build[b])

(* The job numbers that the submit scripts name.                           *)
ScriptIdsBelow(k) == \A base \in Bases : \A name \in script[base] : name[2] < k

ScriptsInv ==
  Guarded =>
    /\ Building = {} /\ StateReadable => ScriptIdsBelow(maxId + 1)
    /\ \A b \in Building :
         /\ ScriptIdsBelow(build[b].index)
         /\ build[b].step < 3 => ScriptIdsBelow(maxId + 1)

WholeInv ==
  Undisturbed => \A x \in submitted : x.job # EmptyJob

Alone == Barring(Mishaps \ {"builder_beside_scheduler"})

OnceInv ==
  Alone =>
    /\ again = {}
    /\ \A x \in submitted : x.name \in DOMAIN bulk =>
         \E s \in Scheduling : sched[s].stage = "move" /\ sched[s].file = x.name

LimitInv ==
  Barring({"two_schedulers", "submit_script"}) =>
    /\ running <= QueueLimit
    /\ \A s \in Scheduling :
         /\ sched[s].stage = "submit" => running + sched[s].n <= QueueLimit
         /\ sched[s].stage = "move" => running + sched[s].n <= QueueLimit + 1

(* The job numbers up to k each have a whole job.                          *)
Covered(k) == \A id \in 0..k : \E x \in WholeJobs : x.name[2] = id

(* No job of a number that is taken goes away: the run under way finds the *)
(* file it opened when it closes it, and a file is moved when it was       *)
(* submitted, whole.                                                       *)
KeptInv ==
  Undisturbed =>
    /\ Covered(maxId)
    /\ \A b \in Building :
         /\ Covered(build[b].index - 1)
         /\ build[b].stage = "write_job" => JobName(build[b]) \in DOMAIN bulk
    /\ \A s \in Scheduling : sched[s].stage = "move" =>
         \E x \in WholeJobs : x \in submitted /\ x.name = sched[s].file

(* The job files match the pattern of a control file, but those of the run *)
(* under way.                                                              *)
MatchedBut(but) == \A name \in DOMAIN bulk : name[1] \in control \cup but

MatchInv ==
  Guarded =>
    /\ Building = {} /\ StateReadable => MatchedBut({})
    /\ \A b \in Building :
         LET l == build[b] IN
         /\ MatchedBut({l.base})
         /\ l.step > 6 => l.base \in control
         /\ l.step = 1 /\ l.stage = "next_job" /\ l.index = l.minId =>
              MatchedBut({})

SubmitInv ==
  /\ OneScheduler
  /\ ApartInv
  /\ EmptyInv
  /\ ScriptsInv
  /\ WholeInv
  /\ OnceInv
  /\ LimitInv
  /\ KeptInv
  /\ MatchInv

-----------------------------------------------------------------------------
(* What the steps leave alone.                                             *)

LEMMA MishapsKept == [Next]_vars => mishaps \subseteq mishaps'
BY DEF Next, BuildStep, StartBuild, OpenJob, CloseJob, EndStep, KillBuild, InterruptBuild,
   SchedStep, AutoSubmit, CountRunning, SubmitNext, MoveDone, SubmitEnds,
   KillScheduler, RunSubmitScript, JobEnds, vars

LEMMA BarredBefore ==
  ASSUME NEW what, Barring(what)', mishaps \subseteq mishaps'
  PROVE  Barring(what)
BY DEF Barring

LEMMA UndisturbedFacts ==
  /\ Undisturbed => Guarded /\ Barring({"builder_beside_scheduler"})
  /\ mishaps \subseteq mishaps' /\ Undisturbed' => Undisturbed
BY DEF Undisturbed, NumbersKept, Guarded, Barring

LEMMA BuilderSteps ==
  ASSUME TypeOK, NEW b \in Builders,
         OpenJob(b) \/ CloseJob(b) \/ EndStep(b) \/ KillBuild(b) \/ InterruptBuild(b)
  PROVE  /\ b \in Building /\ Building' \subseteq Building
         /\ UNCHANGED <<sched, queueVars>>
  <1>1. b \in Building
    BY IdleStage DEF OpenJob, CloseJob, EndStep, KillBuild, InterruptBuild, Building
  <1>2. \A c \in Builders \ {b} : build'[c] = build[c]
    BY DEF OpenJob, CloseJob, EndStep, KillBuild, InterruptBuild, TypeOK
  <1>3. UNCHANGED <<sched, queueVars>>
    BY DEF OpenJob, CloseJob, EndStep, KillBuild, InterruptBuild
  <1> QED BY <1>1, <1>2, <1>3 DEF Building

LEMMA SchedulerSteps ==
  ASSUME TypeOK, NEW s \in Schedulers,
         CountRunning(s) \/ SubmitNext(s) \/ MoveDone(s) \/ SubmitEnds(s)
         \/ KillScheduler(s)
  PROVE  /\ s \in Scheduling /\ Scheduling' \subseteq Scheduling
         /\ \A t \in Schedulers \ {s} : sched'[t] = sched[t]
         /\ UNCHANGED build
  <1>1. s \in Scheduling
    BY IdleStage DEF CountRunning, SubmitNext, MoveDone, SubmitEnds,
       KillScheduler, Scheduling
  <1>2. \A t \in Schedulers \ {s} : sched'[t] = sched[t]
    BY DEF CountRunning, SubmitNext, MoveDone, SubmitEnds, KillScheduler, TypeOK
  <1>3. UNCHANGED build
    BY DEF CountRunning, SubmitNext, MoveDone, SubmitEnds, KillScheduler
  <1> QED BY <1>1, <1>2, <1>3 DEF Scheduling

LEMMA SchedulerStarts ==
  ASSUME TypeOK, NEW s \in Schedulers, AutoSubmit(s)
  PROVE  /\ Scheduling' = Scheduling \cup {s}
         /\ sched'[s].stage = "count"
         /\ \A t \in Schedulers \ {s} : sched'[t] = sched[t]
         /\ UNCHANGED <<dirVars, queueVars, build>>
  <1>1. PICK base \in control :
          sched' = [sched EXCEPT ![s] =
                      [stage |-> "count",
                       files |-> {name \in DOMAIN bulk : name[1] = base}]]
    BY DEF AutoSubmit
  <1>2. sched'[s].stage = "count" /\ \A t \in Schedulers \ {s} : sched'[t] = sched[t]
    BY <1>1 DEF TypeOK
  <1>3. sched'[s] # IdleSched
    BY <1>2, IdleStage
  <1>4. Scheduling' = Scheduling \cup {s}
    BY <1>2, <1>3 DEF Scheduling
  <1> QED BY <1>2, <1>4 DEF AutoSubmit

(* The actions by what they change.                                        *)
LEMMA StepKinds ==
  ASSUME [Next]_vars
  PROVE  \/ \E b \in Builders : StartBuild(b)
         \/ \E b \in Builders :
              OpenJob(b) \/ CloseJob(b) \/ EndStep(b) \/ KillBuild(b) \/ InterruptBuild(b)
         \/ \E s \in Schedulers : AutoSubmit(s)
         \/ \E s \in Schedulers :
              CountRunning(s) \/ SubmitNext(s) \/ MoveDone(s) \/ SubmitEnds(s)
              \/ KillScheduler(s)
         \/ (RunSubmitScript \/ JobEnds \/ UNCHANGED vars)
            /\ UNCHANGED <<dirVars, build, sched>>
BY DEF Next, BuildStep, SchedStep, RunSubmitScript, JobEnds, vars

-----------------------------------------------------------------------------
(* One scheduler, and none beside a run of PBSJobBuilder.py.               *)

LEMMA OneSchedulerNext ==
  ASSUME TypeOK, OneScheduler, [Next]_vars
  PROVE  OneScheduler'
  <1> SUFFICES ASSUME Barring({"two_schedulers"})'
               PROVE  (\A s, t \in Scheduling : s = t)'
    BY DEF OneScheduler
  <1>1. \A s, t \in Scheduling : s = t
    BY MishapsKept, BarredBefore DEF OneScheduler
  <1>2. CASE Scheduling' \subseteq Scheduling
    BY <1>1, <1>2
  <1>3. CASE \E s \in Schedulers : AutoSubmit(s)
    <2>1. PICK s \in Schedulers : AutoSubmit(s)
      BY <1>3
    <2>2. Scheduling = {}
      BY <2>1 DEF AutoSubmit, Beside, Barring
    <2> QED BY <2>1, <2>2, SchedulerStarts
  <1>4. CASE \E b \in Builders : StartBuild(b)
    BY <1>1, <1>4 DEF StartBuild, Scheduling
  <1>5. CASE UNCHANGED sched
    BY <1>1, <1>5 DEF Scheduling
  <1> QED BY <1>2, <1>3, <1>4, <1>5, StepKinds, BuilderSteps, SchedulerSteps

LEMMA ApartNext ==
  ASSUME TypeOK, ApartInv, [Next]_vars
  PROVE  ApartInv'
  <1> SUFFICES ASSUME Barring({"builder_beside_scheduler"})'
               PROVE  (Building = {} \/ Scheduling = {})'
    BY DEF ApartInv
  <1>1. Building = {} \/ Scheduling = {}
    BY MishapsKept, BarredBefore DEF ApartInv
  <1>2. CASE Building' \subseteq Building /\ Scheduling' \subseteq Scheduling
    BY <1>1, <1>2
  <1>3. CASE \E s \in Schedulers : AutoSubmit(s)
    <2>1. Building = {} /\ UNCHANGED build
      BY <1>3 DEF AutoSubmit, Beside, Barring
    <2> QED BY <2>1 DEF Building
  <1>4. CASE \E b \in Builders : StartBuild(b)
    <2>1. Scheduling = {} /\ UNCHANGED sched
      BY <1>4 DEF StartBuild, Beside, Barring
    <2> QED BY <2>1 DEF Scheduling
  <1>5. UNCHANGED build => Building' = Building
    BY DEF Building
  <1>6. UNCHANGED sched => Scheduling' = Scheduling
    BY DEF Scheduling
  <1> QED BY <1>2, <1>3, <1>4, <1>5, <1>6, StepKinds, BuilderSteps, SchedulerSteps
-----------------------------------------------------------------------------
(* Which job files are empty.                                              *)

LEMMA WrittenNotEmpty == \A l : JobText(l) # EmptyJob
  <1>1. \A l : "empty" \notin DOMAIN JobText(l)
    BY DEF JobText
  <1>2. "empty" \in DOMAIN EmptyJob
    BY DEF EmptyJob
  <1> QED BY <1>1, <1>2

LEMMA EmptyNext ==
  ASSUME IInv, EmptyInv, [Next]_vars
  PROVE  EmptyInv'
  <1> DEFINE Open(name, b) == build[b].stage = "write_job" /\ name = JobName(build[b])
  <1> SUFFICES ASSUME Guarded', NEW name \in DOMAIN bulk', bulk'[name] = EmptyJob
               PROVE  \E b \in Building' : Open(name, b)'
    BY DEF EmptyInv
  <1>1. Guarded
    BY MishapsKept, GuardedBefore
  <1>2. name \in DOMAIN bulk /\ bulk[name] = EmptyJob =>
          \E b \in Building : Open(name, b)
    BY <1>1 DEF EmptyInv
  <1>3. ASSUME NEW b \in Building
        PROVE  /\ build[b] \in BusyBuild /\ Building = {b} /\ LoopInv(build[b])
    <2>1. b \in Builders /\ build[b] # IdleBuild
      BY <1>3 DEF Building
    <2> QED BY <1>1, <2>1, OneNumberedRun DEF IInv
  <1>4. CASE \E b \in Builders : StartBuild(b)
    <2>1. Building = {} /\ UNCHANGED bulk
      BY <1>4 DEF StartBuild, Beside, Guarded, Barring
    <2> QED BY <1>2, <2>1
  <1>5. CASE \E b \in Builders : OpenJob(b)
    <2>1. PICK b \in Builders : OpenJob(b)
      BY <1>5
    <2>2. build[b].stage = "next_job" /\ b \in Building
      BY <2>1, BuilderSteps DEF OpenJob, IInv
    <2>3. build[b] \in BusyBuild /\ Building = {b}
      BY <1>3, <2>2
    <2>4. name = JobName(build[b])
      BY <1>2, <2>1, <2>2, <2>3 DEF OpenJob
    <2>5. build'[b] = [build[b] EXCEPT !.stage = "write_job"]
      BY <2>1 DEF OpenJob, IInv, TypeOK
    <2>6. build'[b].stage = "write_job" /\ JobName(build'[b]) = JobName(build[b])
      BY <2>3, <2>5 DEF JobName, BusyBuild
    <2>7. b \in Building'
      BY <2>6, IdleStage DEF Building
    <2> QED BY <2>4, <2>6, <2>7
  <1>6. CASE \E b \in Builders : CloseJob(b)
    <2>1. PICK b \in Builders : CloseJob(b)
      BY <1>6
    <2>2. Building = {b}
      BY <1>3, <2>1, BuilderSteps DEF IInv
    <2>3. CASE name = JobName(build[b])
      BY <2>1, <2>3, WrittenNotEmpty DEF CloseJob, WithJob
    <2>4. CASE name # JobName(build[b])
      BY <1>2, <2>1, <2>2, <2>4 DEF CloseJob, WithJob
    <2> QED BY <2>3, <2>4
  <1>7. CASE \E b \in Builders : EndStep(b) \/ KillBuild(b) \/ InterruptBuild(b)
    <2>1. PICK b \in Builders : EndStep(b) \/ KillBuild(b) \/ InterruptBuild(b)
      BY <1>7
    <2>2. build[b] \in BusyBuild /\ Building = {b} /\ LoopInv(build[b])
      BY <1>3, <2>1, BuilderSteps DEF IInv
    <2>3. build[b].stage # "write_job"
      <3>1. CASE EndStep(b)
        BY <3>1 DEF EndStep
      <3>2. CASE KillBuild(b) \/ InterruptBuild(b)
        BY <2>2, <3>2, CutUnharmed
      <3> QED BY <2>1, <3>1, <3>2
    <2>4. UNCHANGED bulk
      BY <2>1, <2>3 DEF EndStep, KillBuild, InterruptBuild, dirVars
    <2> QED BY <1>2, <2>2, <2>3, <2>4
  <1>8. CASE UNCHANGED build /\ DOMAIN bulk' \subseteq DOMAIN bulk
             /\ \A n \in DOMAIN bulk' : bulk'[n] = bulk[n]
    BY <1>2, <1>8 DEF Building, JobName
  <1>9. CASE \E s \in Schedulers : AutoSubmit(s)
    BY <1>8, <1>9, SchedulerStarts DEF IInv, dirVars
  <1>10. CASE \E s \in Schedulers :
                CountRunning(s) \/ SubmitNext(s) \/ MoveDone(s) \/ SubmitEnds(s)
                \/ KillScheduler(s)
    <2>1. UNCHANGED build
      BY <1>10, SchedulerSteps DEF IInv
    <2>2. DOMAIN bulk' \subseteq DOMAIN bulk /\ \A n \in DOMAIN bulk' : bulk'[n] = bulk[n]
      BY <1>10 DEF CountRunning, SubmitNext, MoveDone, SubmitEnds, KillScheduler,
         dirVars
    <2> QED BY <1>8, <2>1, <2>2
  <1>11. CASE UNCHANGED <<dirVars, build, sched>>
    BY <1>8, <1>11 DEF dirVars
  <1> QED BY <1>4, <1>5, <1>6, <1>7, <1>9, <1>10, <1>11, StepKinds

-----------------------------------------------------------------------------
(* The job numbers in the submit scripts.                                  *)

LEMMA ScriptName ==
  ASSUME TypeOK, NEW base \in Bases, NEW name \in script[base]
  PROVE  name \in Name /\ name[2] \in Nat
BY DEF TypeOK, Name

LEMMA ScriptsNext ==
  ASSUME IInv, ScriptsInv, [Next]_vars
  PROVE  ScriptsInv'
  <1> SUFFICES ASSUME Guarded'
               PROVE  /\ (Building = {} /\ StateReadable => ScriptIdsBelow(maxId + 1))'
                      /\ \A b \in Building' :
                           /\ ScriptIdsBelow(build[b].index)'
                           /\ (build[b].step < 3 => ScriptIdsBelow(maxId + 1))'
    BY DEF ScriptsInv
  <1>1. Guarded
    BY MishapsKept, GuardedBefore
  <1>2. /\ Building = {} /\ StateReadable => ScriptIdsBelow(maxId + 1)
        /\ \A b \in Building :
             /\ ScriptIdsBelow(build[b].index)
             /\ build[b].step < 3 => ScriptIdsBelow(maxId + 1)
    BY <1>1 DEF ScriptsInv
  <1>3. ASSUME NEW b \in Building
        PROVE  /\ build[b] \in BusyBuild /\ Building = {b} /\ LoopInv(build[b])
               /\ RecordInv(build[b]) /\ build[b].step \in 1..9
               /\ build[b].index \in Nat
    <2>1. b \in Builders /\ build[b] # IdleBuild
      BY <1>3 DEF Building
    <2>2. build[b] \in BusyBuild /\ Building = {b} /\ LoopInv(build[b])
          /\ RecordInv(build[b])
      BY <1>1, <2>1, OneNumberedRun DEF IInv
    <2> QED BY <2>2, BuildType
  <1>4. maxId \in Int
    BY DEF IInv, TypeOK, Number, Absent, Empty
  <1>5. CASE UNCHANGED <<build, script, maxSeed, maxId>>
    BY <1>2, <1>5 DEF Building, StateReadable, ScriptIdsBelow
  <1>6. CASE \E b \in Builders : StartBuild(b)
    <2>1. PICK b \in Builders : StartBuild(b)
      BY <1>6
    <2>2. CASE UNCHANGED <<build, script>>
      BY <1>5, <2>1, <2>2 DEF StartBuild
    <2>3. CASE \E o \in Options :
                 /\ StateReadable /\ build' = [build EXCEPT ![b] = NewRun(o)]
                 /\ script' = [script EXCEPT ![JobBaseName(o)] = {}]
      <3> PICK o \in Options :
                 /\ StateReadable /\ build' = [build EXCEPT ![b] = NewRun(o)]
                 /\ script' = [script EXCEPT ![JobBaseName(o)] = {}]
        BY <2>3
      <3>1. Building = {} /\ UNCHANGED <<maxSeed, maxId>>
        BY <2>1 DEF StartBuild, Beside, Guarded, Barring
      <3>2. ScriptIdsBelow(maxId + 1)
        BY <1>2, <3>1
      <3>3. Building' = {b} /\ build'[b].index = FirstId
        BY <3>1, NewRunType, BuildType DEF Building, IInv, TypeOK, NewRun
      <3>4. \A base \in Bases : script'[base] \subseteq script[base]
        BY DEF IInv, TypeOK
      <3>5. ScriptIdsBelow(maxId + 1)'
        BY <3>1, <3>2, <3>4 DEF ScriptIdsBelow
      <3>6. ScriptIdsBelow(FirstId)
        <4>1. ASSUME NEW base \in Bases, NEW name \in script[base]
              PROVE  name[2] < FirstId
          <5>1. name[2] \in Nat /\ name[2] < maxId + 1
            BY <3>2, ScriptName DEF ScriptIdsBelow, IInv
          <5>2. maxId # Absent
            BY <5>1 DEF Absent
          <5> QED BY <5>1, <5>2 DEF FirstId
        <4> QED BY <4>1 DEF ScriptIdsBelow
      <3>7. ScriptIdsBelow(build[b].index)'
        BY <3>3, <3>4, <3>6 DEF ScriptIdsBelow
      <3> QED BY <3>3, <3>5, <3>7
    <2> QED BY <2>1, <2>2, <2>3 DEF StartBuild
  <1>7. CASE \E b \in Builders : OpenJob(b) \/ CloseJob(b)
    <2>1. PICK b \in Builders : OpenJob(b) \/ CloseJob(b)
      BY <1>7
    <2>2. build[b] \in BusyBuild /\ Building = {b} /\ build[b].index \in Nat
          /\ b \in Building
      BY <1>3, <2>1, BuilderSteps DEF IInv
    <2>3. Building' \subseteq {b} /\ UNCHANGED <<script, maxSeed, maxId>>
      BY <2>1, <2>2, BuilderSteps DEF IInv, OpenJob, CloseJob
    <2>4. /\ build'[b].index \in {build[b].index, build[b].index + 1}
          /\ build'[b].step = build[b].step
          /\ build'[b].stage # "idle"
      <3>1. CASE OpenJob(b)
        BY <2>2, <3>1 DEF OpenJob, IInv, TypeOK, BusyBuild
      <3>2. CASE CloseJob(b)
        <4>1. build'[b] = AfterJob(build[b])
          BY <3>2 DEF CloseJob, IInv, TypeOK
        <4> QED BY <2>2, <4>1 DEF AfterJob, BusyBuild
      <3> QED BY <2>1, <3>1, <3>2
    <2>5. b \in Building'
      BY <2>4, IdleStage DEF Building
    <2>6. ScriptIdsBelow(build[b].index)'
      <3>1. ASSUME NEW base \in Bases, NEW name \in script[base]
            PROVE  name[2] < build'[b].index
        BY <1>2, <2>2, <2>4, ScriptName DEF ScriptIdsBelow, IInv
      <3> QED BY <2>3, <3>1 DEF ScriptIdsBelow
    <2>7. (build[b].step < 3 => ScriptIdsBelow(maxId + 1))'
      BY <1>2, <2>2, <2>3, <2>4 DEF ScriptIdsBelow
    <2> QED BY <2>3, <2>5, <2>6, <2>7
  <1>8. CASE \E b \in Builders : EndStep(b)
    <2>1. PICK b \in Builders : EndStep(b)
      BY <1>8
    <2> DEFINE l == build[b]
    <2>2. l \in BusyBuild /\ Building = {b} /\ LoopInv(l) /\ RecordInv(l)
          /\ l.step \in 1..9 /\ l.index \in Nat /\ b \in Building
      BY <1>3, <2>1, BuilderSteps DEF IInv
    <2>3. \A base \in Bases : script'[base] \subseteq script[base] \cup JobNames(l)
      BY <2>1 DEF EndStep, IInv, TypeOK
    <2>4. l.step # 5 => UNCHANGED script
      <3>1. Steps[l.step] = "close_submit" => l.step = 5
        BY <2>2 DEF Steps
      <3> QED BY <2>1, <3>1, Zenon DEF EndStep
    <2>5. \A name \in JobNames(l) : name[2] < l.index
      BY <2>2, BuildType DEF JobNames
    <2>6. \A base \in Bases : \A name \in script'[base] : name[2] < l.index
      BY <1>2, <2>2, <2>3, <2>5 DEF ScriptIdsBelow
    <2>7. /\ l.step = 9 => build' = [build EXCEPT ![b] = IdleBuild]
          /\ l.step # 9 => build' = [build EXCEPT ![b] = [l EXCEPT !.step = @ + 1]]
          /\ maxId' = IF l.step = 3 THEN Empty
                      ELSE IF l.step = 8 THEN l.index - 1 ELSE maxId
      BY <2>1, <2>2, EndEffect DEF IInv
    <2>8. CASE l.step = 9
      <3>1. Building' = {} /\ maxId' = l.index - 1
        BY <2>2, <2>7, <2>8 DEF Building, IInv, TypeOK, RecordInv
      <3> QED BY <2>2, <2>6, <3>1 DEF ScriptIdsBelow
    <2>9. CASE l.step # 9
      <3>1. build'[b].index = l.index /\ build'[b].step = l.step + 1
            /\ build'[b].stage = l.stage
        BY <2>2, <2>7, <2>9 DEF IInv, TypeOK, BusyBuild
      <3>2. b \in Building' /\ Building' \subseteq {b}
        BY <2>1, <2>2, <3>1, IdleStage, BuilderSteps, BuildType DEF Building, IInv
      <3>3. ScriptIdsBelow(build[b].index)'
        BY <2>6, <3>1 DEF ScriptIdsBelow
      <3>4. (build[b].step < 3 => ScriptIdsBelow(maxId + 1))'
        BY <1>2, <2>2, <2>4, <2>7, <3>1 DEF ScriptIdsBelow
      <3> QED BY <3>2, <3>3, <3>4
    <2> QED BY <2>8, <2>9
  <1>9. CASE \E b \in Builders : KillBuild(b)
    <2>1. PICK b \in Builders : KillBuild(b)
      BY <1>9
    <2>2. Building = {b} /\ RecordInv(build[b]) /\ build[b].step \in 1..9
          /\ build[b].index \in Nat
      BY <1>3, <2>1, BuilderSteps DEF IInv
    <2>3. Building' = {} /\ UNCHANGED <<script, maxSeed, maxId>>
      BY <2>1, <2>2 DEF KillBuild, Building, IInv, TypeOK, dirVars
    <2>4. CASE build[b].step < 3
      BY <1>2, <2>2, <2>3, <2>4 DEF ScriptIdsBelow
    <2>5. CASE ~(build[b].step < 3)
      <3>1. StateReadable => maxId = build[b].index - 1
        BY <2>2, <2>5 DEF RecordInv, StateReadable
      <3>2. StateReadable => maxId + 1 = build[b].index
        BY <2>2, <3>1
      <3> QED BY <1>2, <2>2, <2>3, <3>2 DEF ScriptIdsBelow, StateReadable
    <2> QED BY <2>4, <2>5
  <1>13. CASE \E b \in Builders : InterruptBuild(b)
    <2>1. PICK b \in Builders : InterruptBuild(b)
      BY <1>13
    <2> DEFINE l == build[b]
    <2>2. /\ Building = {b} /\ l \in BusyBuild /\ LoopInv(l) /\ RecordInv(l)
          /\ l.step \in 1..9 /\ l.index \in Nat /\ b \in Building
      BY <1>3, <2>1, BuilderSteps DEF IInv
    <2>3. SeedsGuarded'
      BY <2>1, <2>2, CutUnharmed
    <2>4. /\ Building' = {}
          /\ l.step < 3 => l.index = l.minId /\ UNCHANGED maxId
          /\ l.step >= 3 /\ StateReadable' => maxId' = l.index - 1
          /\ script' = [script EXCEPT ![l.base] = script'[l.base]]
          /\ script'[l.base] \subseteq script[l.base] \cup JobNames(l)
      BY <2>1, <2>2, <2>3, InterruptEffect DEF IInv
    <2>5. \A base \in Bases : script'[base] \subseteq script[base] \cup JobNames(l)
      BY <2>4 DEF IInv, TypeOK
    <2>6. \A name \in JobNames(l) : name[2] < l.index /\ l.index # l.minId
      BY <2>2, BuildType DEF JobNames
    <2>7. CASE l.step < 3
      <3>1. \A base \in Bases : script'[base] \subseteq script[base]
        BY <2>4, <2>5, <2>6, <2>7
      <3> QED BY <1>2, <2>2, <2>4, <2>7, <3>1 DEF ScriptIdsBelow
    <2>8. CASE ~(l.step < 3)
      <3>1. \A base \in Bases : \A name \in script'[base] : name[2] < l.index
        BY <1>2, <2>2, <2>5, <2>6 DEF ScriptIdsBelow
      <3>2. StateReadable' => maxId' + 1 = l.index
        BY <2>2, <2>4, <2>8
      <3> QED BY <2>4, <3>1, <3>2 DEF ScriptIdsBelow
    <2> QED BY <2>7, <2>8
  <1>10. CASE \E s \in Schedulers : AutoSubmit(s)
    BY <1>5, <1>10, SchedulerStarts DEF IInv, dirVars
  <1>11. CASE \E s \in Schedulers :
                CountRunning(s) \/ SubmitNext(s) \/ MoveDone(s) \/ SubmitEnds(s)
                \/ KillScheduler(s)
    <2>1. UNCHANGED <<build, script, maxSeed, maxId>>
      BY <1>11 DEF CountRunning, SubmitNext, MoveDone, SubmitEnds, KillScheduler,
         dirVars
    <2> QED BY <1>5, <2>1
  <1>12. CASE UNCHANGED <<dirVars, build, sched>>
    BY <1>5, <1>12 DEF dirVars
  <1> QED BY <1>6, <1>7, <1>8, <1>9, <1>10, <1>11, <1>12, <1>13, StepKinds

-----------------------------------------------------------------------------
(* What is submitted.                                                      *)

LEMMA SubmittedJobs ==
  ASSUME NEW names, Submit(names), NEW x \in submitted'
  PROVE  x \in submitted \/ \E n \in names : x = [name |-> n, job |-> bulk[n]]
BY DEF Submit

LEMMA WholeNext ==
  ASSUME IInv, ApartInv, EmptyInv, ScriptsInv, WholeInv, [Next]_vars
  PROVE  WholeInv'
  <1> SUFFICES ASSUME Undisturbed', NEW x \in submitted'
               PROVE  x.job # EmptyJob
    BY DEF WholeInv
  <1>1. Undisturbed
    BY MishapsKept, UndisturbedFacts
  <1>2. Guarded /\ (Building = {} \/ Scheduling = {})
    BY <1>1, UndisturbedFacts DEF ApartInv
  <1>3. \A y \in submitted : y.job # EmptyJob
    BY <1>1 DEF WholeInv
  <1>4. CASE UNCHANGED submitted
    BY <1>3, <1>4
  <1>5. CASE \E s \in Schedulers : SubmitNext(s)
    <2>1. PICK s \in Schedulers : SubmitNext(s)
      BY <1>5
    <2>2. Building = {}
      BY <1>2, <2>1, SchedulerSteps DEF IInv
    <2>3. \A n \in DOMAIN bulk : bulk[n] # EmptyJob
      BY <1>2, <2>2 DEF EmptyInv
    <2>4. CASE \E file \in DOMAIN bulk : Submit({file})
      BY <1>3, <2>3, <2>4, SubmittedJobs
    <2> QED BY <1>4, <2>1, <2>4 DEF SubmitNext, queueVars
  <1>6. CASE RunSubmitScript
    <2>1. PICK base \in Bases : Submit(script[base] \cap DOMAIN bulk)
      BY <1>6 DEF RunSubmitScript
    <2>2. ASSUME NEW n \in script[base] \cap DOMAIN bulk
          PROVE  bulk[n] # EmptyJob
      <3> SUFFICES ASSUME bulk[n] = EmptyJob PROVE FALSE
        OBVIOUS
      <3>1. PICK b \in Building : n = JobName(build[b])
        BY <1>2 DEF EmptyInv
      <3>2. n[2] < build[b].index
        BY <1>2 DEF ScriptsInv, ScriptIdsBelow
      <3>3. build[b] \in BusyBuild
        BY BusyType DEF IInv, Building
      <3> QED BY <3>1, <3>2, <3>3, JobNameType, BuildType
    <2> QED BY <1>3, <2>1, <2>2, SubmittedJobs
  <1>7. CASE \E b \in Builders : StartBuild(b)
    BY <1>4, <1>7 DEF StartBuild, queueVars
  <1>8. CASE \E b \in Builders :
               OpenJob(b) \/ CloseJob(b) \/ EndStep(b) \/ KillBuild(b) \/ InterruptBuild(b)
    BY <1>4, <1>8, BuilderSteps DEF IInv, queueVars
  <1>9. CASE \E s \in Schedulers :
               AutoSubmit(s) \/ CountRunning(s) \/ MoveDone(s) \/ SubmitEnds(s)
               \/ KillScheduler(s)
    BY <1>4, <1>9 DEF AutoSubmit, CountRunning, MoveDone, SubmitEnds,
       KillScheduler, queueVars
  <1>10. CASE JobEnds \/ UNCHANGED vars
    BY <1>4, <1>10 DEF JobEnds, vars, queueVars
  <1> QED BY <1>5, <1>6, <1>7, <1>8, <1>9, <1>10, StepKinds

(* A step that submits nothing and brings no new job file, while no        *)
(* scheduler has a file to move that it will not move.                     *)
LEMMA OnceQuiet ==
  ASSUME TypeOK, OnceInv, UNCHANGED <<submitted, again>>,
         mishaps \subseteq mishaps',
         Alone' => \A x \in submitted : x.name \in DOMAIN bulk' => x.name \in DOMAIN bulk,
         Alone' => \A s \in Scheduling :
           sched[s].stage = "move" /\ sched[s].file \in DOMAIN bulk' =>
             sched'[s] = sched[s]
  PROVE  OnceInv'
  <1> SUFFICES ASSUME Alone'
               PROVE  /\ again' = {}
                      /\ \A x \in submitted' : x.name \in DOMAIN bulk' =>
                           \E s \in Scheduling' :
                             sched'[s].stage = "move" /\ sched'[s].file = x.name
    BY DEF OnceInv
  <1>1. Alone
    BY BarredBefore DEF Alone, Barring
  <1>2. ASSUME NEW x \in submitted, x.name \in DOMAIN bulk'
        PROVE  \E s \in Scheduling' :
                 sched'[s].stage = "move" /\ sched'[s].file = x.name
    <2>1. PICK s \in Scheduling : sched[s].stage = "move" /\ sched[s].file = x.name
      BY <1>1, <1>2 DEF OnceInv
    <2>2. sched'[s] = sched[s]
      BY <1>2, <2>1
    <2>3. s \in Scheduling'
      BY <2>2 DEF Scheduling
    <2> QED BY <2>1, <2>2, <2>3
  <1> QED BY <1>1, <1>2 DEF OnceInv

LEMMA AloneFacts ==
  ASSUME OneScheduler, Alone
  PROVE  /\ Guarded
         /\ \A s, t \in Scheduling : s = t
         /\ "scheduler_killed" \notin mishaps /\ "submit_script" \notin mishaps
BY DEF Alone, Guarded, Barring, Mishaps, OneScheduler

LEMMA OnceNext ==
  ASSUME IInv, OneScheduler, OnceInv, [Next]_vars
  PROVE  OnceInv'
  <1>1. mishaps \subseteq mishaps' /\ TypeOK
    BY MishapsKept DEF IInv
  <1>2. Alone' => Alone
    BY <1>1 DEF Alone, Barring
  <1>3. CASE UNCHANGED <<submitted, again, sched>> /\ DOMAIN bulk' = DOMAIN bulk
    BY <1>1, <1>3, OnceQuiet
  <1>4. CASE \E b \in Builders : StartBuild(b)
    BY <1>3, <1>4 DEF StartBuild, queueVars
  <1>5. CASE \E b \in Builders : OpenJob(b)
    <2>1. PICK b \in Builders : OpenJob(b)
      BY <1>5
    <2>2. UNCHANGED <<sched, submitted, again>>
      BY <2>1 DEF OpenJob, queueVars
    <2>3. Alone' => \A x \in submitted : x.name # JobName(build[b])
      <3> SUFFICES ASSUME Alone', NEW x \in submitted
                   PROVE  x.name # JobName(build[b])
        OBVIOUS
      <3>1. Guarded /\ build[b].stage = "next_job"
        BY <1>2, <2>1, AloneFacts DEF OpenJob
      <3>2. build[b] \in BusyBuild /\ IdsInv(build[b])
        BY <3>1, OneNumberedRun, IdleStage DEF IInv
      <3>3. x \in Jobs
        BY DEF Jobs
      <3>4. x.name[2] < build[b].index
        BY <3>1, <3>2, <3>3 DEF IdsInv
      <3> QED BY <3>2, <3>4, BuildType, JobNameType
    <2>4. DOMAIN bulk' = DOMAIN bulk \cup {JobName(build[b])}
      BY <2>1 DEF OpenJob
    <2> QED BY <1>1, <2>2, <2>3, <2>4, OnceQuiet
  <1>6. CASE \E b \in Builders : CloseJob(b) \/ EndStep(b) \/ KillBuild(b) \/ InterruptBuild(b)
    BY <1>3, <1>6
    DEF CloseJob, WithJob, EndStep, KillBuild, InterruptBuild, queueVars, dirVars
  <1>7. CASE \E s \in Schedulers : AutoSubmit(s)
    <2>1. PICK s \in Schedulers : AutoSubmit(s)
      BY <1>7
    <2>2. s \notin Scheduling
      BY <2>1 DEF AutoSubmit, Scheduling
    <2>3. \A t \in Scheduling : sched'[t] = sched[t]
      BY <1>1, <2>1, <2>2, SchedulerStarts DEF Scheduling
    <2> QED BY <1>1, <2>1, <2>3, OnceQuiet, SchedulerStarts DEF dirVars, queueVars
  <1>8. CASE \E s \in Schedulers : CountRunning(s) \/ SubmitEnds(s)
    <2>1. PICK s \in Schedulers : CountRunning(s) \/ SubmitEnds(s)
      BY <1>8
    <2>2. sched[s].stage # "move" /\ UNCHANGED <<bulk, submitted, again>>
      BY <2>1 DEF CountRunning, SubmitEnds, dirVars, queueVars
    <2>3. \A t \in Scheduling : sched[t].stage = "move" => sched'[t] = sched[t]
      BY <1>1, <2>1, <2>2, SchedulerSteps DEF Scheduling
    <2> QED BY <1>1, <2>2, <2>3, OnceQuiet
  <1>9. CASE \E s \in Schedulers : SubmitNext(s)
    <2>1. PICK s \in Schedulers : SubmitNext(s)
      BY <1>9
    <2>2. sched[s].stage = "submit" /\ UNCHANGED bulk /\ s \in Scheduling
      BY <1>1, <2>1, SchedulerSteps DEF SubmitNext, dirVars
    <2>3. CASE UNCHANGED queueVars
      <3>1. \A t \in Scheduling : sched[t].stage = "move" => sched'[t] = sched[t]
        BY <1>1, <2>1, <2>2, SchedulerSteps DEF Scheduling
      <3> QED BY <1>1, <2>2, <2>3, <3>1, OnceQuiet DEF queueVars
    <2>4. CASE \E file \in DOMAIN bulk :
                 /\ Submit({file})
                 /\ sched' = [sched EXCEPT ![s] =
                                [stage |-> "move", files |-> sched[s].files \ {file},
                                 n |-> sched[s].n, file |-> file]]
      <3> PICK file \in DOMAIN bulk :
                 /\ Submit({file})
                 /\ sched' = [sched EXCEPT ![s] =
                                [stage |-> "move", files |-> sched[s].files \ {file},
                                 n |-> sched[s].n, file |-> file]]
        BY <2>4
      <3> SUFFICES ASSUME Alone'
                   PROVE  /\ again' = {}
                          /\ \A x \in submitted' : x.name \in DOMAIN bulk' =>
                               \E t \in Scheduling' :
                                 sched'[t].stage = "move" /\ sched'[t].file = x.name
        BY DEF OnceInv
      <3>1. \A t \in Scheduling : t = s
        BY <1>2, <2>2, AloneFacts
      <3>2. \A x \in submitted : x.name \notin DOMAIN bulk
        BY <1>2, <2>2, <3>1 DEF OnceInv
      <3>3. again' = {}
        BY <1>2, <3>2 DEF OnceInv, Submit
      <3>4. sched'[s].stage = "move" /\ sched'[s].file = file
        BY DEF IInv, TypeOK
      <3>5. s \in Scheduling'
        BY <3>4, IdleStage DEF Scheduling
      <3>6. \A x \in submitted' : x.name \in DOMAIN bulk => x.name = file
        BY <3>2, SubmittedJobs
      <3> QED BY <2>2, <3>3, <3>4, <3>5, <3>6
    <2> QED BY <2>1, <2>3, <2>4 DEF SubmitNext
  <1>10. CASE \E s \in Schedulers : MoveDone(s)
    <2>1. PICK s \in Schedulers : MoveDone(s)
      BY <1>10
    <2>2. DOMAIN bulk' = DOMAIN bulk \ {sched[s].file}
          /\ UNCHANGED <<submitted, again>>
      BY <2>1 DEF MoveDone, queueVars
    <2>3. \A t \in Scheduling :
             sched[t].stage = "move" /\ sched[t].file \in DOMAIN bulk' =>
               sched'[t] = sched[t]
      BY <1>1, <2>1, <2>2, SchedulerSteps DEF Scheduling
    <2> QED BY <1>1, <2>2, <2>3, OnceQuiet
  <1>11. CASE \E s \in Schedulers : KillScheduler(s)
    <2>1. PICK s \in Schedulers : KillScheduler(s)
      BY <1>11
    <2>2. UNCHANGED <<bulk, submitted, again>>
      BY <2>1 DEF KillScheduler, dirVars, queueVars
    <2>3. Alone' => sched[s].stage # "move"
      BY <2>1 DEF KillScheduler, Beside, Alone, Barring, Mishaps
    <2>4. Alone' => \A t \in Scheduling :
             sched[t].stage = "move" => sched'[t] = sched[t]
      BY <1>1, <2>1, <2>3, SchedulerSteps DEF Scheduling
    <2> QED BY <1>1, <2>2, <2>4, OnceQuiet
  <1>12. CASE RunSubmitScript
    BY <1>12 DEF RunSubmitScript, OnceInv, Alone, Barring, Mishaps
  <1>13. CASE JobEnds \/ UNCHANGED vars
    BY <1>3, <1>13 DEF JobEnds, vars, dirVars, queueVars
  <1> QED BY <1>4, <1>5, <1>6, <1>7, <1>8, <1>9, <1>10, <1>11, <1>12, <1>13, StepKinds

-----------------------------------------------------------------------------
(* Places in the queue.                                                    *)

Within(s) ==
  /\ sched[s].stage = "submit" => running + sched[s].n <= QueueLimit
  /\ sched[s].stage = "move" => running + sched[s].n <= QueueLimit + 1

LEMMA LimitQuiet ==
  ASSUME LimitInv, UNCHANGED running, mishaps \subseteq mishaps',
         \A s \in Scheduling' : sched'[s] = sched[s] \/ sched'[s].stage = "count"
  PROVE  LimitInv'
  <1>1. Barring({"two_schedulers", "submit_script"})' =>
          Barring({"two_schedulers", "submit_script"})
    BY BarredBefore
  <1>2. ASSUME NEW s \in Scheduling', \A t \in Scheduling : Within(t)
        PROVE  Within(s)'
    <2>1. CASE sched'[s] = sched[s]
      BY <1>2, <2>1 DEF Within, Scheduling
    <2>2. CASE sched'[s].stage = "count"
      BY <2>2 DEF Within
    <2> QED BY <2>1, <2>2
  <1> QED BY <1>1, <1>2 DEF LimitInv, Within

LEMMA LimitNext ==
  ASSUME TypeOK, OneScheduler, LimitInv, [Next]_vars
  PROVE  LimitInv'
  <1> DEFINE what == {"two_schedulers", "submit_script"}
  <1>1. mishaps \subseteq mishaps'
    BY MishapsKept
  <1>2. CASE UNCHANGED <<running, sched>>
    BY <1>1, <1>2, LimitQuiet
  <1>3. CASE \E b \in Builders : StartBuild(b)
    BY <1>2, <1>3 DEF StartBuild, queueVars
  <1>4. CASE \E b \in Builders :
               OpenJob(b) \/ CloseJob(b) \/ EndStep(b) \/ KillBuild(b) \/ InterruptBuild(b)
    BY <1>2, <1>4, BuilderSteps DEF queueVars
  <1>5. CASE \E s \in Schedulers : AutoSubmit(s)
    <2>1. PICK s \in Schedulers : AutoSubmit(s)
      BY <1>5
    <2>2. UNCHANGED running
          /\ \A t \in Scheduling' : sched'[t] = sched[t] \/ sched'[t].stage = "count"
      BY <2>1, SchedulerStarts DEF queueVars, Scheduling
    <2> QED BY <1>1, <2>2, LimitQuiet
  <1>6. CASE \E s \in Schedulers : SubmitEnds(s) \/ KillScheduler(s)
    <2>1. PICK s \in Schedulers : SubmitEnds(s) \/ KillScheduler(s)
      BY <1>6
    <2>2. sched'[s] = IdleSched /\ UNCHANGED running
      BY <2>1 DEF SubmitEnds, KillScheduler, queueVars, TypeOK
    <2>3. \A t \in Scheduling' : sched'[t] = sched[t]
      BY <2>1, <2>2, SchedulerSteps DEF Scheduling
    <2> QED BY <1>1, <2>2, <2>3, LimitQuiet
  <1>7. CASE RunSubmitScript
    BY <1>7 DEF RunSubmitScript, LimitInv, Barring
  <1>8. CASE \E s \in Schedulers : CountRunning(s) \/ SubmitNext(s) \/ MoveDone(s)
    <2>1. PICK s \in Schedulers : CountRunning(s) \/ SubmitNext(s) \/ MoveDone(s)
      BY <1>8
    <2> SUFFICES ASSUME Barring(what)'
                 PROVE  running' <= QueueLimit /\ \A t \in Scheduling' : Within(t)'
      BY DEF LimitInv, Within
    <2> DEFINE l == sched[s]
               m == sched'[s]
    <2>2. Barring(what)
      BY <1>1, BarredBefore
    <2>3. s \in Scheduling /\ Scheduling' \subseteq {s}
      <3>1. Barring({"two_schedulers"})
        BY <2>2 DEF Barring
      <3> QED BY <2>1, <3>1, SchedulerSteps DEF OneScheduler
    <2>4. running <= QueueLimit /\ Within(s)
      BY <2>2, <2>3 DEF LimitInv, Within
    <2>5. l \in Sched /\ running \in Nat /\ QueueLimit \in Nat
      BY BoundsType DEF TypeOK
    <2>6. CASE CountRunning(s)
      <3>1. m.stage = "submit" /\ m.n = QueueLimit - running /\ running' = running
        BY <2>6 DEF CountRunning, TypeOK, queueVars
      <3>2. Within(s)'
        BY <2>5, <3>1 DEF Within
      <3> QED BY <2>3, <2>4, <3>1, <3>2
    <2>7. CASE SubmitNext(s)
      <3>1. l.stage = "submit" /\ l.n > 0 /\ l.n \in Int
        BY <2>5, <2>7, SchedType DEF SubmitNext
      <3>2. CASE m = IdleSched /\ UNCHANGED queueVars
        BY <2>3, <2>4, <3>2 DEF Scheduling, queueVars
      <3>3. CASE \E file \in l.files :
                   Submit({file}) /\ m = [stage |-> "move", files |-> l.files \ {file},
                                          n |-> l.n, file |-> file]
        <4>1. running' = running + 1 /\ m.stage = "move" /\ m.n = l.n
          <5>1. PICK file : Submit({file})
            BY <3>3
          <5>2. running' = running + Cardinality({file}) /\ Cardinality({file}) = 1
            BY <5>1, FS_Singleton DEF Submit
          <5>3. m.stage = "move" /\ m.n = l.n
            BY <3>3
          <5> QED BY <5>2, <5>3
        <4>2. running + l.n <= QueueLimit
          BY <2>4, <3>1 DEF Within
        <4>3. running' <= QueueLimit
          BY <2>5, <3>1, <4>1, <4>2
        <4>4. Within(s)'
          BY <2>5, <3>1, <4>1, <4>2 DEF Within
        <4> QED BY <2>3, <4>3, <4>4
      <3> QED BY <2>7, <3>2, <3>3 DEF SubmitNext, TypeOK
    <2>8. CASE MoveDone(s)
      <3>1. l.stage = "move" /\ l.n \in Int /\ running' = running
        BY <2>5, <2>8, SchedType DEF MoveDone, queueVars
      <3>2. CASE m = IdleSched
        BY <2>3, <2>4, <3>1, <3>2 DEF Scheduling
      <3>3. CASE m = [stage |-> "submit", files |-> l.files, n |-> l.n - 1]
        <4>1. running + l.n <= QueueLimit + 1 /\ m.stage = "submit" /\ m.n = l.n - 1
          BY <2>4, <3>1, <3>3 DEF Within
        <4>2. Within(s)'
          BY <2>5, <3>1, <4>1 DEF Within
        <4> QED BY <2>3, <2>4, <3>1, <4>2
      <3> QED BY <2>8, <3>2, <3>3 DEF MoveDone, TypeOK
    <2> QED BY <2>1, <2>6, <2>7, <2>8
  <1>9. CASE JobEnds
    <2>1. running \in Nat /\ running' = running - 1 /\ UNCHANGED <<sched, mishaps>>
      BY <1>9 DEF JobEnds, TypeOK
    <2> SUFFICES ASSUME Barring(what)
                 PROVE  running' <= QueueLimit /\ \A t \in Scheduling' : Within(t)'
      BY <2>1 DEF LimitInv, Within, Barring
    <2>2. running' <= QueueLimit
      BY <2>1, BoundsType DEF LimitInv
    <2>3. ASSUME NEW t \in Scheduling PROVE Within(t)'
      <3>1. sched[t] \in Sched /\ Within(t)
        BY DEF TypeOK, Scheduling, LimitInv, Within
      <3>2. sched[t].stage \in {"submit", "move"} => sched[t].n \in Int
        BY <3>1, SchedType
      <3> QED BY <2>1, <3>1, <3>2, BoundsType DEF Within
    <2> QED BY <2>1, <2>2, <2>3 DEF Scheduling
  <1>10. CASE UNCHANGED vars
    BY <1>2, <1>10 DEF vars, queueVars
  <1> QED BY <1>3, <1>4, <1>5, <1>6, <1>7, <1>8, <1>9, <1>10, StepKinds

-----------------------------------------------------------------------------
(* No job gets lost.                                                       *)

LEMMA CoveredKept ==
  ASSUME NEW k, Covered(k), WholeJobs \subseteq WholeJobs'
  PROVE  \A id \in 0..k : \E x \in WholeJobs' : x.name[2] = id
BY DEF Covered

LEMMA FileKept ==
  ASSUME NEW file, NEW x \in WholeJobs, x \in submitted, x.name = file,
         WholeJobs \subseteq WholeJobs', submitted \subseteq submitted'
  PROVE  \E y \in WholeJobs' : y \in submitted' /\ y.name = file
OBVIOUS

LEMMA KeptNext ==
  ASSUME IInv, ApartInv, WholeInv', KeptInv, [Next]_vars
  PROVE  KeptInv'
  <1> DEFINE Submitted(file) ==
               \E x \in WholeJobs : x \in submitted /\ x.name = file
  <1> SUFFICES ASSUME Undisturbed'
               PROVE  /\ Covered(maxId)'
                      /\ \A b \in Building' :
                           /\ Covered(build[b].index - 1)'
                           /\ build'[b].stage = "write_job" =>
                                JobName(build'[b]) \in DOMAIN bulk'
                      /\ \A s \in Scheduling' : sched'[s].stage = "move" =>
                           Submitted(sched[s].file)'
    BY DEF KeptInv
  <1>1. Undisturbed /\ TypeOK
    BY MishapsKept, UndisturbedFacts DEF IInv
  <1>2. Guarded /\ (Building = {} \/ Scheduling = {})
    BY <1>1, UndisturbedFacts DEF ApartInv
  <1>3. /\ Covered(maxId)
        /\ \A b \in Building :
             /\ Covered(build[b].index - 1)
             /\ build[b].stage = "write_job" => JobName(build[b]) \in DOMAIN bulk
        /\ \A s \in Scheduling : sched[s].stage = "move" => Submitted(sched[s].file)
    BY <1>1 DEF KeptInv
  <1>4. ASSUME NEW b \in Building
        PROVE  /\ build[b] \in BusyBuild /\ Building = {b} /\ LoopInv(build[b])
               /\ RecordInv(build[b]) /\ IdsInv(build[b]) /\ build[b].step \in 1..9
               /\ build[b].index \in Nat /\ Scheduling = {}
    <2>1. b \in Builders /\ build[b] # IdleBuild
      BY <1>4 DEF Building
    <2>2. build[b] \in BusyBuild /\ Building = {b} /\ LoopInv(build[b])
          /\ RecordInv(build[b]) /\ IdsInv(build[b])
      BY <1>2, <2>1, OneNumberedRun DEF IInv
    <2> QED BY <1>2, <2>2, BuildType
  <1>5. \A b : Covered(build[b].index - 1)' <=>
          \A id \in 0..(build'[b].index - 1) : \E x \in WholeJobs' : x.name[2] = id
    BY DEF Covered
  <1>6. Covered(maxId)' <=> \A id \in 0..maxId' : \E x \in WholeJobs' : x.name[2] = id
    BY DEF Covered
  <1>7. CASE UNCHANGED <<build, maxId, bulk>> /\ submitted \subseteq submitted'
             /\ \A s \in Scheduling' : sched'[s].stage = "move" =>
                  sched'[s] = sched[s] \/ Submitted(sched[s].file)'
    <2>1. WholeJobs \subseteq WholeJobs' /\ Building' = Building
      BY <1>7 DEF WholeJobs, Jobs, Building
    <2>2. Covered(maxId)'
      BY <1>3, <1>6, <1>7, <2>1, CoveredKept
    <2>3. ASSUME NEW b \in Building'
          PROVE  /\ Covered(build[b].index - 1)'
                 /\ build'[b].stage = "write_job" => JobName(build'[b]) \in DOMAIN bulk'
      BY <1>3, <1>5, <1>7, <2>1, CoveredKept
    <2>4. ASSUME NEW s \in Scheduling', sched'[s].stage = "move"
          PROVE  Submitted(sched[s].file)'
      <3>1. CASE sched'[s] = sched[s]
        <4>1. Submitted(sched[s].file)
          BY <1>3, <2>4, <3>1 DEF Scheduling
        <4> QED BY <1>7, <2>1, <3>1, <4>1, FileKept
      <3> QED BY <1>7, <2>4, <3>1
    <2> QED BY <2>2, <2>3, <2>4
  <1>8. CASE \E b \in Builders : StartBuild(b)
    <2>1. PICK b \in Builders : StartBuild(b)
      BY <1>8
    <2>2. Building = {} /\ Scheduling = {} /\ UNCHANGED <<bulk, submitted, sched, maxId>>
      BY <1>1, <2>1 DEF StartBuild, Beside, Undisturbed, NumbersKept, Barring,
         queueVars
    <2>3. CASE UNCHANGED build
      BY <1>7, <2>2, <2>3
    <2>4. CASE \E o \in Options :
                 StateReadable /\ build' = [build EXCEPT ![b] = NewRun(o)]
      <3> PICK o \in Options :
             StateReadable /\ build' = [build EXCEPT ![b] = NewRun(o)]
        BY <2>4
      <3>1. build'[b] = NewRun(o) /\ Building' \subseteq {b} /\ Scheduling' = {}
        BY <1>1, <2>2 DEF TypeOK, Building, Scheduling
      <3>2. build'[b].stage = "next_job" /\ build'[b].index = FirstId
        BY <3>1 DEF NewRun
      <3>3. WholeJobs' = WholeJobs
        BY <2>2 DEF WholeJobs, Jobs
      <3>4. maxId \in Int /\ Absent = -3
        BY <1>1 DEF TypeOK, Number, Absent, Empty
      <3>5. Covered(FirstId - 1)
        BY <1>3, <3>4 DEF FirstId, Covered
      <3>6. Covered(build[b].index - 1)'
        BY <1>5, <3>2, <3>3, <3>5, CoveredKept
      <3>7. Covered(maxId)'
        BY <1>3, <1>6, <2>2, <3>3, CoveredKept
      <3> QED BY <3>1, <3>2, <3>6, <3>7
    <2> QED BY <2>1, <2>3, <2>4 DEF StartBuild
  <1>9. CASE \E b \in Builders : OpenJob(b)
    <2>1. PICK b \in Builders : OpenJob(b)
      BY <1>9
    <2> DEFINE l == build[b]
               m == [l EXCEPT !.stage = "write_job"]
    <2>2. b \in Building /\ l.stage = "next_job" /\ UNCHANGED <<maxId, sched, submitted>>
      BY <1>1, <2>1, BuilderSteps DEF OpenJob, queueVars
    <2>3. l \in BusyBuild /\ Building = {b} /\ IdsInv(l) /\ l.index \in Nat
          /\ Scheduling = {}
      BY <1>4, <2>2
    <2>4. build'[b] = m /\ Building' \subseteq {b} /\ Scheduling' = {}
      BY <1>1, <2>1, <2>2, <2>3, BuilderSteps DEF OpenJob, TypeOK, Scheduling
    <2>5. m.index = l.index /\ m.base = l.base
      BY <2>3 DEF BusyBuild
    <2>6. JobName(l) \notin DOMAIN bulk
      <3> SUFFICES ASSUME JobName(l) \in DOMAIN bulk PROVE FALSE
        OBVIOUS
      <3>1. [name |-> JobName(l), job |-> bulk[JobName(l)]] \in Jobs
        BY DEF Jobs
      <3>2. JobName(l)[2] < l.index
        BY <2>2, <2>3, <3>1 DEF IdsInv
      <3> QED BY <2>3, <3>2, JobNameType
    <2>7. WholeJobs \subseteq WholeJobs'
      <3>1. \A name \in DOMAIN bulk : name \in DOMAIN bulk' /\ bulk'[name] = bulk[name]
        BY <2>1, <2>6 DEF OpenJob
      <3> QED BY <2>2, <3>1 DEF WholeJobs, Jobs
    <2>8. JobName(build'[b]) \in DOMAIN bulk'
      BY <2>1, <2>4, <2>5 DEF OpenJob, JobName
    <2>9. Covered(build[b].index - 1)'
      BY <1>3, <1>5, <2>2, <2>4, <2>5, <2>7, CoveredKept
    <2>10. Covered(maxId)'
      BY <1>3, <1>6, <2>2, <2>7, CoveredKept
    <2> QED BY <2>4, <2>8, <2>9, <2>10
  <1>10. CASE \E b \in Builders : CloseJob(b)
    <2>1. PICK b \in Builders : CloseJob(b)
      BY <1>10
    <2> DEFINE l == build[b]
               new == [name |-> JobName(l), job |-> JobText(l)]
    <2>2. b \in Building /\ l.stage = "write_job" /\ UNCHANGED <<maxId, sched, submitted>>
      BY <1>1, <2>1, BuilderSteps DEF CloseJob, queueVars
    <2>3. l \in BusyBuild /\ Building = {b} /\ LoopInv(l) /\ l.index \in Nat
          /\ Scheduling = {} /\ JobName(l) \in DOMAIN bulk
      BY <1>3, <1>4, <2>2
    <2>4. build'[b] = AfterJob(l) /\ Building' \subseteq {b} /\ Scheduling' = {}
      BY <1>1, <2>1, <2>2, <2>3, BuilderSteps DEF CloseJob, TypeOK, Scheduling
    <2>5. AfterJob(l).index = l.index + 1 /\ AfterJob(l).stage = "next_job"
      BY <2>3 DEF AfterJob, BusyBuild
    <2>6. new \in WholeJobs' /\ new.name[2] = l.index
      <3>1. new \in Jobs'
        BY <2>1, <2>3 DEF CloseJob, WithJob, Jobs
      <3> QED BY <2>3, <3>1, WrittenNotEmpty, JobNameType DEF WholeJobs
    <2>7. \A x \in WholeJobs : x \in WholeJobs' \/ x.name[2] = l.index
      <3> TAKE x \in WholeJobs
      <3>1. x \in submitted => x \in WholeJobs'
        BY <2>2 DEF WholeJobs, Jobs
      <3>2. ASSUME NEW name \in DOMAIN bulk, x = [name |-> name, job |-> bulk[name]],
                   name # JobName(l)
            PROVE  x \in WholeJobs'
        BY <2>1, <3>2 DEF WholeJobs, Jobs, CloseJob, WithJob
      <3> QED BY <2>3, <3>1, <3>2, JobNameType DEF WholeJobs, Jobs
    <2>8. ASSUME NEW k \in Int, Covered(k), NEW id \in 0..k
          PROVE  \E x \in WholeJobs' : x.name[2] = id
      <3>1. PICK x \in WholeJobs : x.name[2] = id
        BY <2>8 DEF Covered
      <3> QED BY <2>6, <2>7, <3>1
    <2>9. Covered(maxId)'
      <3>1. maxId \in Int
        BY <1>1 DEF TypeOK, Number, Absent, Empty
      <3> QED BY <1>3, <1>6, <2>2, <2>8, <3>1
    <2>10. Covered(build[b].index - 1)'
      <3>1. \A id \in 0..l.index : id \in 0..(l.index - 1) \/ id = l.index
        BY <2>3
      <3>2. build'[b].index - 1 = l.index
        BY <2>3, <2>4, <2>5
      <3>3. Covered(l.index - 1) /\ l.index - 1 \in Int
        BY <1>3, <2>2, <2>3
      <3> QED BY <1>5, <2>6, <2>8, <3>1, <3>2, <3>3
    <2> QED BY <2>4, <2>5, <2>9, <2>10
  <1>11. CASE \E b \in Builders : EndStep(b) \/ KillBuild(b) \/ InterruptBuild(b)
    <2>1. PICK b \in Builders : EndStep(b) \/ KillBuild(b) \/ InterruptBuild(b)
      BY <1>11
    <2> DEFINE l == build[b]
               m == [l EXCEPT !.step = @ + 1]
    <2>0. b \in Building /\ UNCHANGED <<sched, submitted>> /\ Guarded'
      BY <1>1, <2>1, BuilderSteps, UndisturbedFacts
      DEF queueVars, Undisturbed, NumbersKept, Guarded
    <2>3. l \in BusyBuild /\ Building = {b} /\ LoopInv(l) /\ l.index \in Nat
          /\ Scheduling = {} /\ l.step \in 1..9
      BY <1>4, <2>0
    <2>r. l.stage = "next_job"
      BY <2>0, <2>1, <2>3, CutUnharmed DEF EndStep
    <2>2. b \in Building /\ UNCHANGED <<bulk, sched, submitted>>
      BY <2>0, <2>1, <2>r DEF EndStep, KillBuild, InterruptBuild, dirVars
    <2>4. Building' \subseteq {b} /\ Scheduling' = {} /\ WholeJobs' = WholeJobs
      BY <1>1, <2>1, <2>2, <2>3, BuilderSteps DEF Scheduling, WholeJobs, Jobs
    <2>5. b \in Building' => /\ build'[b].index = l.index
                             /\ build'[b].stage # "write_job"
      <3>1. CASE EndStep(b) /\ l.step = 9
        BY <1>1, <2>3, <3>1, EndEffect DEF TypeOK, Building
      <3>2. CASE EndStep(b) /\ l.step # 9
        <4>1. build'[b] = m
          BY <1>1, <2>3, <3>2, EndEffect DEF TypeOK
        <4>2. m.index = l.index /\ m.stage = l.stage
          BY <2>3 DEF BusyBuild
        <4> QED BY <3>2, <4>1, <4>2 DEF EndStep
      <3>3. CASE KillBuild(b) \/ InterruptBuild(b)
        BY <1>1, <3>3 DEF KillBuild, InterruptBuild, TypeOK, Building
      <3> QED BY <2>1, <3>1, <3>2, <3>3
    <2>6. maxId' = maxId \/ maxId' = Empty \/ maxId' = l.index - 1
      <3>1. CASE EndStep(b)
        BY <1>1, <2>3, <3>1, EndEffect
      <3>2. CASE KillBuild(b) \/ InterruptBuild(b)
        BY <3>2 DEF KillBuild, InterruptBuild, LastId, dirVars
      <3> QED BY <2>1, <3>1, <3>2
    <2>7. Covered(Empty)
      BY DEF Covered, Empty
    <2>8. Covered(maxId)'
      BY <1>3, <1>6, <2>2, <2>4, <2>6, <2>7, CoveredKept
    <2>9. b \in Building' => Covered(build[b].index - 1)'
      BY <1>3, <1>5, <2>2, <2>4, <2>5, CoveredKept
    <2> QED BY <2>4, <2>5, <2>8, <2>9
  <1>12. CASE \E s \in Schedulers : AutoSubmit(s)
    <2>1. PICK s \in Schedulers : AutoSubmit(s)
      BY <1>12
    <2>2. \A t \in Schedulers : sched'[t].stage = "move" => sched'[t] = sched[t]
      BY <1>1, <2>1, SchedulerStarts
    <2>3. UNCHANGED <<build, maxId, bulk, submitted>>
      BY <1>1, <2>1, SchedulerStarts DEF dirVars, queueVars
    <2> QED BY <1>7, <2>2, <2>3 DEF Scheduling
  <1>13. CASE \E s \in Schedulers : CountRunning(s) \/ SubmitEnds(s) \/ KillScheduler(s)
    <2>1. PICK s \in Schedulers : CountRunning(s) \/ SubmitEnds(s) \/ KillScheduler(s)
      BY <1>13
    <2>2. UNCHANGED <<build, maxId, bulk, submitted>>
      BY <2>1 DEF CountRunning, SubmitEnds, KillScheduler, dirVars, queueVars
    <2>3. sched'[s].stage # "move"
      BY <1>1, <2>1, IdleStage DEF CountRunning, SubmitEnds, KillScheduler, TypeOK
    <2>4. \A t \in Schedulers \ {s} : sched'[t] = sched[t]
      BY <1>1, <2>1, SchedulerSteps
    <2> QED BY <1>7, <2>2, <2>3, <2>4 DEF Scheduling
  <1>14. CASE \E s \in Schedulers : SubmitNext(s)
    <2>1. PICK s \in Schedulers : SubmitNext(s)
      BY <1>14
    <2>2. UNCHANGED <<build, maxId, bulk>>
      BY <2>1 DEF SubmitNext, dirVars
    <2>3. \A t \in Schedulers \ {s} : sched'[t] = sched[t]
      BY <1>1, <2>1, SchedulerSteps
    <2>4. CASE UNCHANGED queueVars /\ sched' = [sched EXCEPT ![s] = IdleSched]
      <3>1. sched'[s].stage # "move"
        BY <1>1, <2>4, IdleStage DEF TypeOK
      <3> QED BY <1>7, <2>2, <2>3, <2>4, <3>1 DEF Scheduling, queueVars
    <2>5. CASE \E file \in DOMAIN bulk :
                 Submit({file}) /\ sched'[s].file = file
      <3> PICK file \in DOMAIN bulk : Submit({file}) /\ sched'[s].file = file
        BY <2>5
      <3> DEFINE x == [name |-> file, job |-> bulk[file]]
      <3>1. submitted \subseteq submitted' /\ x \in submitted'
        BY DEF Submit
      <3>2. x.job # EmptyJob
        BY <3>1 DEF WholeInv
      <3>3. x \in WholeJobs' /\ x.name = sched'[s].file
        BY <3>1, <3>2 DEF WholeJobs, Jobs
      <3>4. Submitted(sched[s].file)'
        BY <3>1, <3>3
      <3> QED BY <1>7, <2>2, <2>3, <3>1, <3>4 DEF Scheduling
    <2>6. PICK file \in sched[s].files :
             IF file \in DOMAIN bulk
             THEN /\ Submit({file})
                  /\ sched' = [sched EXCEPT ![s] =
                                 [stage |-> "move", files |-> sched[s].files \ {file},
                                  n |-> sched[s].n, file |-> file]]
             ELSE sched' = [sched EXCEPT ![s] = IdleSched] /\ UNCHANGED queueVars
      BY <2>1 DEF SubmitNext
    <2>7. CASE file \in DOMAIN bulk
      <3>1. sched'[s].file = file
        BY <1>1, <2>6, <2>7 DEF TypeOK
      <3> QED BY <2>5, <2>6, <2>7, <3>1
    <2> QED BY <2>4, <2>6, <2>7
  <1>15. CASE \E s \in Schedulers : MoveDone(s)
    <2>1. PICK s \in Schedulers : MoveDone(s)
      BY <1>15
    <2>2. s \in Scheduling /\ sched[s].stage = "move" /\ UNCHANGED <<build, maxId, submitted>>
      BY <1>1, <2>1, SchedulerSteps DEF MoveDone, queueVars
    <2>3. Building' = {} /\ Submitted(sched[s].file)
      BY <1>2, <1>3, <2>2 DEF Building
    <2>4. PICK y \in WholeJobs : y \in submitted /\ y.name = sched[s].file
      BY <2>3
    <2>5. submitted \cap WholeJobs \subseteq WholeJobs'
      BY <2>2 DEF WholeJobs, Jobs
    <2>6. ASSUME NEW x \in WholeJobs
          PROVE  \E z \in WholeJobs' : z.name = x.name
      <3>1. CASE x \in submitted
        BY <2>5, <3>1
      <3>2. ASSUME NEW name \in DOMAIN bulk, x = [name |-> name, job |-> bulk[name]]
            PROVE  \E z \in WholeJobs' : z.name = x.name
        <4>1. CASE name = sched[s].file
          BY <2>4, <2>5, <3>2, <4>1
        <4>2. CASE name # sched[s].file
          <5>1. x \in WholeJobs'
            BY <2>1, <3>2, <4>2 DEF WholeJobs, Jobs, MoveDone
          <5> QED BY <5>1
        <4> QED BY <4>1, <4>2
      <3> QED BY <3>1, <3>2 DEF WholeJobs, Jobs
    <2>7. Covered(maxId)'
      BY <1>3, <1>6, <2>2, <2>6 DEF Covered
    <2>8. ASSUME NEW t \in Scheduling', sched'[t].stage = "move"
          PROVE  Submitted(sched[t].file)'
      <3>1. sched'[s].stage # "move"
        BY <1>1, <2>1, IdleStage DEF MoveDone, TypeOK
      <3>2. t \in Scheduling /\ sched'[t] = sched[t]
        BY <1>1, <2>1, <2>8, <3>1, SchedulerSteps DEF Scheduling
      <3>3. Submitted(sched[t].file)
        BY <1>3, <2>8, <3>2
      <3> QED BY <2>2, <2>5, <3>2, <3>3
    <2> QED BY <2>3, <2>7, <2>8
  <1>16. CASE (RunSubmitScript \/ JobEnds \/ UNCHANGED vars)
              /\ UNCHANGED <<dirVars, build, sched>>
    <2>1. submitted \subseteq submitted'
      BY <1>16 DEF RunSubmitScript, Submit, JobEnds, vars, queueVars
    <2> QED BY <1>7, <1>16, <2>1 DEF dirVars
  <1> QED BY <1>8, <1>9, <1>10, <1>11, <1>12, <1>13, <1>14, <1>15, <1>16, StepKinds

(* What a step at the end of create_jobs does to the control files.        *)
LEMMA ControlEffect ==
  ASSUME TypeOK, NEW b \in Builders, EndStep(b), build[b] \in BusyBuild
  PROVE  control' = IF build[b].step = 1 THEN control \ {build[b].base}
                    ELSE IF build[b].step = 6 THEN control \cup {build[b].base}
                    ELSE control
  <1>1. build[b].step \in 1..9
    BY BuildType
  <1>2. \A k \in 1..9 :
          /\ Steps[k] = "open_control" <=> k = 1
          /\ Steps[k] = "close_control" <=> k = 6
    BY DEF Steps
  <1>3. control' = CASE Steps[build[b].step] = "open_control" ->
                          control \ {build[b].base}
                     [] Steps[build[b].step] = "close_control" ->
                          control \cup {build[b].base}
                     [] OTHER -> control
    BY Zenon DEF EndStep, ControlOf
  <1>4. control' = IF Steps[build[b].step] = "open_control"
                   THEN control \ {build[b].base}
                   ELSE IF Steps[build[b].step] = "close_control"
                        THEN control \cup {build[b].base} ELSE control
    BY <1>3, Zenon
  <1> HIDE DEF Steps
  <1> QED BY <1>1, <1>2, <1>4

LEMMA MatchNext ==
  ASSUME IInv, MatchInv, [Next]_vars
  PROVE  MatchInv'
  <1> SUFFICES ASSUME Guarded'
               PROVE  /\ (Building = {} /\ StateReadable => MatchedBut({}))'
                      /\ \A b \in Building' :
                           /\ MatchedBut({build[b].base})'
                           /\ build'[b].step > 6 => build'[b].base \in control'
                           /\ build'[b].step = 1 /\ build'[b].stage = "next_job"
                              /\ build'[b].index = build'[b].minId =>
                                MatchedBut({})'
    BY DEF MatchInv
  <1>1. Guarded /\ TypeOK
    BY MishapsKept, GuardedBefore DEF IInv
  <1>2. /\ Building = {} /\ StateReadable => MatchedBut({})
        /\ \A b \in Building :
             /\ MatchedBut({build[b].base})
             /\ build[b].step > 6 => build[b].base \in control
             /\ build[b].step = 1 /\ build[b].stage = "next_job"
                /\ build[b].index = build[b].minId => MatchedBut({})
    BY <1>1 DEF MatchInv
  <1>3. ASSUME NEW b \in Building
        PROVE  /\ build[b] \in BusyBuild /\ Building = {b} /\ LoopInv(build[b])
               /\ RecordInv(build[b]) /\ build[b].step \in 1..9
               /\ build[b].index \in Nat /\ build[b].minId \in Nat
               /\ build[b].stage \in {"next_job", "write_job"}
    <2>1. b \in Builders /\ build[b] # IdleBuild
      BY <1>3 DEF Building
    <2>2. build[b] \in BusyBuild /\ Building = {b} /\ LoopInv(build[b])
          /\ RecordInv(build[b])
      BY <1>1, <2>1, OneNumberedRun DEF IInv
    <2> QED BY <2>2, BuildType
  <1>4. CASE UNCHANGED <<build, control, maxSeed, maxId>> /\ DOMAIN bulk' \subseteq DOMAIN bulk
    BY <1>2, <1>4 DEF Building, StateReadable, MatchedBut
  <1>5. CASE \E b \in Builders : StartBuild(b)
    <2>1. PICK b \in Builders : StartBuild(b)
      BY <1>5
    <2>2. Building = {} /\ UNCHANGED <<bulk, control, maxSeed, maxId>>
      BY <2>1, <1>1 DEF StartBuild, Beside, Guarded, Barring
    <2>3. CASE UNCHANGED build
      BY <1>4, <2>2, <2>3
    <2>4. CASE \E o \in Options :
                 StateReadable /\ build' = [build EXCEPT ![b] = NewRun(o)]
      <3> PICK o \in Options :
             StateReadable /\ build' = [build EXCEPT ![b] = NewRun(o)]
        BY <2>4
      <3>1. build'[b] = NewRun(o) /\ Building' = {b}
        BY <1>1, <2>2, NewRunType, BuildType DEF TypeOK, Building
      <3>2. build'[b].step = 1
        BY <3>1 DEF NewRun
      <3>3. MatchedBut({})' /\ MatchedBut({build[b].base})'
        BY <1>2, <2>2 DEF MatchedBut
      <3> QED BY <3>1, <3>2, <3>3
    <2> QED BY <2>1, <2>3, <2>4 DEF StartBuild
  <1>6. CASE \E b \in Builders : OpenJob(b) \/ CloseJob(b)
    <2>1. PICK b \in Builders : OpenJob(b) \/ CloseJob(b)
      BY <1>6
    <2> DEFINE l == build[b]
               m == build'[b]
    <2>2. b \in Building /\ Building' \subseteq Building /\ UNCHANGED control
      BY <1>1, <2>1, BuilderSteps DEF OpenJob, CloseJob
    <2>3. l \in BusyBuild /\ Building = {b} /\ LoopInv(l) /\ l.index \in Nat
          /\ l.minId \in Nat
      BY <1>3, <2>2
    <2>4. m = [l EXCEPT !.stage = "write_job"] \/ m = AfterJob(l)
      BY <1>1, <2>1 DEF OpenJob, CloseJob, TypeOK
    <2>5. /\ m.base = l.base /\ m.step = l.step
          /\ m.stage = "write_job" \/ m.index = l.index + 1
          /\ m.minId = l.minId
      <3>1. CASE m = [l EXCEPT !.stage = "write_job"]
        BY <2>3, <3>1 DEF BusyBuild
      <3>2. CASE m = AfterJob(l)
        BY <2>3, <3>2 DEF AfterJob, BusyBuild
      <3> QED BY <2>4, <3>1, <3>2
    <2>6. l.step = 1 /\ l.index >= l.minId
      <3>1. /\ l.step \in 1..9 /\ l.point \in Nat /\ Points(l.options) \in Nat
            /\ l.stage \in {"next_job", "write_job"}
        BY <1>3, <2>2, <2>3, LoopTypes
      <3>2. l.stage = "write_job" \/ l.point <= Points(l.options)
        BY <2>1 DEF OpenJob, CloseJob
      <3>3. l.index >= l.minId /\ (l.step > 1 =>
              l.stage = "next_job" /\ l.point > Points(l.options))
        BY <2>3 DEF LoopInv
      <3> QED BY <3>1, <3>2, <3>3
    <2>7. MatchedBut({build[b].base})'
      <3>1. DOMAIN bulk' \subseteq DOMAIN bulk \cup {JobName(l)}
        BY <2>1 DEF OpenJob, CloseJob, WithJob
      <3>2. JobName(l)[1] = l.base
        BY DEF JobName
      <3> QED BY <1>2, <2>2, <2>5, <3>1, <3>2 DEF MatchedBut
    <2>8. \A c \in Building' : c = b
      BY <2>2, <2>3
    <2>9. ~(m.stage = "next_job" /\ m.index = m.minId)
      <3>1. l.index + 1 # l.minId
        BY <2>3, <2>6
      <3> QED BY <2>5, <3>1
    <2>10. ~(m.step > 6)
      BY <2>5, <2>6
    <2>11. ~(Building = {})'
      <3>1. [l EXCEPT !.stage = "write_job"] \in BusyBuild
        BY <2>3 DEF BusyBuild
      <3>2. m # IdleBuild
        BY <2>3, <2>4, <3>1, AfterJobType, BuildType
      <3> QED BY <2>1, <3>2 DEF Building
    <2> QED BY <2>7, <2>8, <2>9, <2>10, <2>11
  <1>7. CASE \E b \in Builders : EndStep(b)
    <2>1. PICK b \in Builders : EndStep(b)
      BY <1>7
    <2> DEFINE l == build[b]
               m == [l EXCEPT !.step = @ + 1]
    <2>2. b \in Building /\ Building' \subseteq Building /\ UNCHANGED bulk
      BY <1>1, <2>1, BuilderSteps DEF EndStep
    <2>3. l \in BusyBuild /\ Building = {b} /\ l.step \in 1..9
      BY <1>3, <2>2
    <2>4. control' = IF l.step = 1 THEN control \ {l.base}
                     ELSE IF l.step = 6 THEN control \cup {l.base}
                     ELSE control
      BY <1>1, <2>1, <2>3, ControlEffect
    <2>5. MatchedBut({l.base}) /\ (l.step > 6 => l.base \in control)
      BY <1>2, <2>2
    <2>6. CASE l.step = 9
      <3>1. Building' = {} /\ UNCHANGED control
        BY <1>1, <2>1, <2>3, <2>4, <2>6, EndEffect DEF TypeOK, Building
      <3> QED BY <2>2, <2>5, <2>6, <3>1 DEF MatchedBut
    <2>7. CASE l.step # 9
      <3>1. build'[b] = m
        BY <1>1, <2>1, <2>3, <2>7, EndEffect DEF TypeOK
      <3>2. m.step = l.step + 1 /\ m.base = l.base /\ m.stage = l.stage
        BY <2>3 DEF BusyBuild
      <3>3. b \in Building'
        BY <2>1, <3>1, <3>2, IdleStage DEF Building, EndStep
      <3>4. MatchedBut({build[b].base})'
        BY <2>2, <2>4, <2>5, <3>1, <3>2 DEF MatchedBut
      <3>5. m.step > 6 => m.base \in control'
        BY <2>3, <2>4, <2>5, <3>2
      <3>6. m.step # 1 /\ \A c \in Building' : c = b
        BY <2>2, <2>3, <3>2
      <3> HIDE DEF m
      <3> QED BY <3>1, <3>3, <3>4, <3>5, <3>6
    <2> QED BY <2>6, <2>7
  <1>8. CASE \E b \in Builders : KillBuild(b)
    <2>1. PICK b \in Builders : KillBuild(b)
      BY <1>8
    <2> DEFINE l == build[b]
    <2>2. b \in Building /\ UNCHANGED <<bulk, control, maxSeed, maxId>>
      BY <1>1, <2>1, BuilderSteps DEF KillBuild, dirVars
    <2>3. l \in BusyBuild /\ Building = {b} /\ l.step \in 1..9 /\ LoopInv(l)
          /\ RecordInv(l) /\ l.index \in Nat /\ l.minId \in Nat
          /\ l.stage \in {"next_job", "write_job"}
      BY <1>3, <2>2
    <2>4. Building' = {}
      BY <1>1, <2>1, <2>3 DEF KillBuild, TypeOK, Building
    <2>5. ASSUME StateReadable
          PROVE  MatchedBut({})
      <3>1. CASE l.step < 3
        <4>1. l.stage = "next_job" /\ l.index = l.minId
          BY <2>1, <2>3, <3>1, CutUnharmed
        <4>2. l.step = 1
          BY <2>1, <2>3, <3>1 DEF KillBuild, Beside, HalfARun, Guarded, Barring
        <4> QED BY <1>2, <2>2, <4>1, <4>2
      <3>2. CASE ~(l.step < 3)
        <4>1. l.step = 9
          BY <2>3, <2>5, <3>2 DEF RecordInv, StateReadable
        <4>2. MatchedBut({l.base}) /\ l.base \in control
          BY <1>2, <2>2, <4>1
        <4> QED BY <4>2 DEF MatchedBut
      <3> QED BY <3>1, <3>2
    <2> QED BY <2>2, <2>4, <2>5 DEF MatchedBut, StateReadable
  <1>12. CASE \E b \in Builders : InterruptBuild(b)
    <2>1. PICK b \in Builders : InterruptBuild(b)
      BY <1>12
    <2> DEFINE l == build[b]
    <2>2. b \in Building
      BY <1>1, <2>1, BuilderSteps
    <2>3. l \in BusyBuild /\ Building = {b} /\ l.step \in 1..9 /\ LoopInv(l)
          /\ RecordInv(l)
      BY <1>3, <2>2
    <2>4. SeedsGuarded'
      BY <2>1, <2>3, CutUnharmed
    <2>5. /\ Building' = {} /\ UNCHANGED bulk /\ l.stage = "next_job"
          /\ l.step < 3 => /\ l.index = l.minId /\ l.step = 1
                           /\ UNCHANGED control
          /\ l.step >= 3 /\ StateReadable' /\ l.step < 7 => l.base \in control'
          /\ control \subseteq control'
      BY <1>1, <2>1, <2>3, <2>4, InterruptEffect
    <2>6. ASSUME StateReadable'
          PROVE  MatchedBut({})'
      <3>1. CASE l.step < 3
        BY <1>2, <2>2, <2>5, <3>1 DEF MatchedBut
      <3>2. CASE ~(l.step < 3)
        <4>1. l.base \in control'
          BY <1>2, <2>2, <2>3, <2>5, <2>6, <3>2
        <4> QED BY <1>2, <2>2, <2>5, <4>1 DEF MatchedBut
      <3> QED BY <3>1, <3>2
    <2> QED BY <2>5, <2>6
  <1>9. CASE \E s \in Schedulers : AutoSubmit(s)
    BY <1>1, <1>4, <1>9, SchedulerStarts DEF dirVars
  <1>10. CASE \E s \in Schedulers :
                CountRunning(s) \/ SubmitNext(s) \/ MoveDone(s) \/ SubmitEnds(s)
                \/ KillScheduler(s)
    <2>1. /\ UNCHANGED <<build, control, maxSeed, maxId>>
          /\ DOMAIN bulk' \subseteq DOMAIN bulk
      BY <1>10 DEF CountRunning, SubmitNext, MoveDone, SubmitEnds, KillScheduler,
         dirVars
    <2> QED BY <1>4, <2>1
  <1>11. CASE UNCHANGED <<dirVars, build, sched>>
    BY <1>4, <1>11 DEF dirVars
  <1> QED BY <1>5, <1>6, <1>7, <1>8, <1>9, <1>10, <1>11, <1>12, StepKinds

-----------------------------------------------------------------------------
(* The whole.                                                              *)

LEMMA SubmitInvInit == Init => SubmitInv
  <1> SUFFICES ASSUME Init PROVE SubmitInv
    OBVIOUS
  <1>1. Building = {} /\ Scheduling = {} /\ DOMAIN bulk = {} /\ submitted = {}
        /\ again = {} /\ running = 0
    BY DEF Init, Building, Scheduling
  <1>2. \A k : ScriptIdsBelow(k)
    BY DEF Init, ScriptIdsBelow
  <1>3. OneScheduler /\ ApartInv /\ EmptyInv /\ WholeInv /\ OnceInv
    BY <1>1 DEF OneScheduler, ApartInv, EmptyInv, WholeInv, OnceInv
  <1>4. ScriptsInv
    BY <1>1, <1>2 DEF ScriptsInv
  <1>5. LimitInv
    BY <1>1, BoundsType DEF LimitInv
  <1>6. KeptInv
    <2>1. maxId = -3
      BY DEF Init, Absent
    <2> QED BY <1>1, <2>1 DEF KeptInv, Covered
  <1>7. MatchInv
    BY <1>1 DEF MatchInv, MatchedBut
  <1> QED BY <1>3, <1>4, <1>5, <1>6, <1>7 DEF SubmitInv

LEMMA SubmitInvNext == IInv /\ SubmitInv /\ [Next]_vars => SubmitInv'
  <1> SUFFICES ASSUME IInv, SubmitInv, [Next]_vars PROVE SubmitInv'
    OBVIOUS
  <1>1. TypeOK
    BY DEF IInv
  <1>2. OneScheduler' /\ ApartInv' /\ LimitInv'
    BY <1>1, OneSchedulerNext, ApartNext, LimitNext DEF SubmitInv
  <1>3. EmptyInv' /\ ScriptsInv'
    BY EmptyNext, ScriptsNext DEF SubmitInv
  <1>4. WholeInv' /\ OnceInv'
    BY WholeNext, OnceNext DEF SubmitInv
  <1>5. KeptInv' /\ MatchInv'
    BY <1>4, KeptNext, MatchNext DEF SubmitInv
  <1> QED BY <1>2, <1>3, <1>4, <1>5 DEF SubmitInv

LEMMA BothAlways == Spec => [](IInv /\ SubmitInv)
  <1>1. Init => IInv /\ SubmitInv
    BY IInvInit, SubmitInvInit
  <1>2. IInv /\ SubmitInv /\ [Next]_vars => (IInv /\ SubmitInv)'
    BY IInvNext, SubmitInvNext
  <1> QED BY <1>1, <1>2, PTL DEF Spec

(* No job file is submitted while it is still written, no job twice, and   *)
(* one scheduler alone keeps to max_number_jobs: submit_jobs in            *)
(* PBSJobScheduler.py against create_jobs in PBSJobBuilder.py, both killed *)
(* at any moment, for any number of runs and any command lines.            *)
THEOREM SubmissionsAreRight == Spec => []SubmittedRight
  <1>1. SubmitInv => SubmittedRight
    BY DEF SubmitInv, WholeInv, OnceInv, Alone, LimitInv, SubmittedRight
  <1> QED BY <1>1, BothAlways, PTL

(* No job gets lost: as long as no two runs of PBSJobBuilder.py go on at a *)
(* time and none ends among its job files or between max_seed and max_id,  *)
(* every job number that max_id says is used has a whole job that is there *)
(* or was submitted (no scheduler beside the script), and every job file   *)
(* that is there between two runs matches the pattern of a control file:   *)
(* auto_submit finds it.                                                   *)
THEOREM NoJobIsLost == Spec => []NoJobLost
  <1>1. IInv /\ SubmitInv => NoJobLost
    <2> SUFFICES ASSUME IInv, SubmitInv, Guarded, Building = {}
                 PROVE  /\ Barring({"builder_beside_scheduler"}) =>
                             \A id \in 0..maxId :
                               \E x \in WholeJobs : x.name[2] = id
                        /\ maxSeed # Empty /\ maxId # Empty =>
                             \A name \in DOMAIN bulk : name[1] \in control
      BY DEF NoJobLost, NumbersKept, Guarded
    <2>1. Barring({"builder_beside_scheduler"}) => Covered(maxId)
      BY DEF SubmitInv, KeptInv, Undisturbed, NumbersKept, Guarded
    <2>2. StateReadable => MatchedBut({})
      BY DEF SubmitInv, MatchInv
    <2> QED BY <2>1, <2>2 DEF Covered, MatchedBut, StateReadable
  <1> QED BY <1>1, BothAlways, PTL

-----------------------------------------------------------------------------
(* The jobs of a run and the grid.                                         *)

(* One value that a scan reaches is in the range of one job.               *)
LEMMA ScanCovered ==
  ASSUME NEW scan, IsScan(scan), NEW v \in ReachedValues(scan)
  PROVE  /\ \E k \in 0..Starts(scan) - 1 :
              v \in ScanRange(scan, k).start..ScanRange(scan, k).end
         /\ \A j, k \in 0..Starts(scan) - 1 :
              /\ v \in ScanRange(scan, j).start..ScanRange(scan, j).end
              /\ v \in ScanRange(scan, k).start..ScanRange(scan, k).end
              => j = k
  <1> DEFINE inc == scan.inc
             perjob == scan.perjob
             w == inc * perjob
             from == scan.start
             to == scan.end
             At(k) == ScanRange(scan, k)
  <1>1. /\ from \in Int /\ to \in Int /\ inc \in Nat
        /\ perjob \in Nat /\ perjob > 0
    BY DEF IsScan
  <1>2. /\ v \in Int /\ from <= v /\ v <= to
        /\ inc = 0 => v = from
        /\ inc # 0 => (v - from) % inc = 0
    BY <1>1 DEF ReachedValues, ScanValues
  <1>3. Starts(scan) = IF inc = 0 THEN 1
                       ELSE ((to - from) \div w) + (IF EndLost(scan) THEN 0 ELSE 1)
    BY <1>1, <1>2 DEF Starts
  <1>e. EndLost(scan) => v # to /\ (to - from) % w = 0
    BY DEF ReachedValues, EndLost
  <1>4. \A k : /\ At(k).start = from + k * inc * perjob
               /\ At(k).end = Lesser(from + k * inc * perjob + inc * (perjob - 1), to)
    BY DEF ScanRange
  <1>5. \A k \in Nat : k * inc * perjob = k * w /\ k * w \in Nat
    BY <1>1
  <1>6. inc * (perjob - 1) = w - inc /\ w \in Nat /\ inc * (perjob - 1) \in Nat
    BY <1>1
  <1> HIDE DEF inc, perjob, w, from, to, At
  <1>7. \A k \in Nat : /\ At(k).start = from + k * w
                       /\ At(k).end = Lesser(from + k * w + (w - inc), to)
    BY <1>4, <1>5, <1>6
  <1>8. \A k \in Nat : v \in At(k).start..At(k).end <=>
                         from + k * w <= v /\ v <= from + k * w + (w - inc)
    <2> TAKE k \in Nat
    <2>1. k * w \in Nat
      BY <1>5
    <2>2. Lesser(from + k * w + (w - inc), to) \in Int
          /\ (v <= Lesser(from + k * w + (w - inc), to) <=> v <= from + k * w + (w - inc))
      BY <1>1, <1>2, <1>6, <2>1 DEF Lesser
    <2> QED BY <1>1, <1>2, <1>7, <2>1, <2>2
  <1>9. CASE inc = 0
    <2>1. Starts(scan) = 1 /\ v = from /\ w = 0
      BY <1>1, <1>2, <1>3, <1>9 DEF w
    <2>2. v \in At(0).start..At(0).end
      BY <1>1, <1>8, <1>9, <2>1
    <2> QED BY <2>1, <2>2 DEF At
  <1>10. CASE inc # 0
    <2>1. w > 0 /\ to - from \in Nat /\ v - from \in Nat
      BY <1>1, <1>2, <1>10 DEF w
    <2> DEFINE d == (to - from) \div w
               t == (v - from) \div inc
               k == t \div perjob
               r == t % perjob
    <2>2. /\ Starts(scan) = d + (IF EndLost(scan) THEN 0 ELSE 1)
          /\ d \in Nat /\ to - from < w * d + w
          /\ (to - from) % w = 0 => to - from = w * d
      <3>1. Starts(scan) = d + (IF EndLost(scan) THEN 0 ELSE 1)
        BY <1>3, <1>10
      <3> DEFINE e == to - from
      <3>2. e \in Nat /\ w \in Nat /\ w > 0
        BY <1>6, <2>1
      <3> HIDE DEF e
      <3>3. /\ e \div w \in Nat /\ e < w * (e \div w) + w
            /\ e % w = 0 => e = w * (e \div w)
        BY <3>2
      <3> QED BY <3>1, <3>3 DEF e
    <2>3. t \in Nat /\ v - from = inc * t
      BY <1>1, <1>2, <1>10, <2>1
    <2> HIDE DEF t
    <2>4. k \in Nat /\ r \in 0..perjob - 1 /\ t = perjob * k + r
      BY <1>1, <2>3
    <2> HIDE DEF k, r, d
    <2>5. v - from = k * w + inc * r
      <3>1. inc * (perjob * k + r) = k * (inc * perjob) + inc * r
        BY <1>1, <2>4
      <3> QED BY <2>3, <2>4, <3>1 DEF w
    <2>6. inc * r \in Nat /\ inc * r <= w - inc
      <3>1. inc * r \in Nat /\ inc * r <= inc * (perjob - 1)
        BY <1>1, <2>4
      <3> QED BY <1>6, <3>1
    <2>7. v \in At(k).start..At(k).end
      <3>1. k * w \in Nat
        BY <1>5, <2>4
      <3>2. from + k * w <= v /\ v <= from + k * w + (w - inc)
        <4>1. \A a, b \in Nat : v - from = a + b /\ b <= w - inc =>
                from + a <= v /\ v <= from + a + (w - inc)
          BY <1>1, <1>2, <1>6
        <4> QED BY ONLY <2>5, <2>6, <3>1, <4>1, Zenon
      <3> QED BY <1>8, <2>4, <3>2
    <2>8. \A a, b \in Nat : a < b => a * w + w <= b * w
      <3>1. \A a, b \in Nat : a < b => (b - (a + 1)) * w >= 0 /\ (b - (a + 1)) * w = b * w - (a * w + w)
        BY <1>6
      <3>2. \A a \in Nat : a * w \in Nat
        BY <1>6
      <3> QED BY <1>6, <3>1, <3>2
    <2>9. k <= d
      <3> SUFFICES ASSUME d < k PROVE FALSE
        BY <2>2, <2>4
      <3>1. d * w + w <= k * w /\ d * w \in Nat /\ k * w \in Nat
        BY <1>5, <2>2, <2>4, <2>8
      <3>2. w * d = d * w
        BY <1>6, <2>2
      <3> QED BY <1>1, <1>2, <1>6, <2>2, <2>5, <2>6, <3>1, <3>2
    <2>10. \A a, b \in Nat : /\ v \in At(a).start..At(a).end
                             /\ v \in At(b).start..At(b).end
                             => ~(a < b)
      <3> SUFFICES ASSUME NEW a \in Nat, NEW b \in Nat, a < b,
                          v \in At(a).start..At(a).end, v \in At(b).start..At(b).end
                   PROVE  FALSE
        OBVIOUS
      <3>1. v <= from + a * w + (w - inc) /\ from + b * w <= v
        BY <1>8
      <3>2. a * w + w <= b * w /\ a * w \in Nat /\ b * w \in Nat
        BY <1>5, <2>8
      <3> QED BY <1>1, <1>2, <1>6, <1>10, <3>1, <3>2
    <2>11. \A a, b \in 0..Starts(scan) - 1 : /\ v \in At(a).start..At(a).end
                                             /\ v \in At(b).start..At(b).end
                                             => a = b
      <3>1. \A a \in 0..Starts(scan) - 1 : a \in Nat
        BY <2>2
      <3> QED BY <2>10, <3>1
    <2>13. EndLost(scan) => k < d
      <3> SUFFICES ASSUME EndLost(scan), k = d PROVE FALSE
        BY <2>2, <2>4, <2>9
      <3>1. to - from = k * w /\ k * w \in Nat /\ v # to
        <4>1. w * d = d * w
          BY <1>6, <2>2
        <4> QED BY <1>e, <1>5, <2>2, <2>4, <4>1
      <3> QED BY <1>1, <1>2, <2>5, <2>6, <3>1
    <2>12. k \in 0..Starts(scan) - 1
      BY <2>2, <2>4, <2>9, <2>13
    <2> QED BY <2>7, <2>11, <2>12 DEF At
  <1> QED BY <1>9, <1>10

(* One point of the grid is in the ranges of one pair of positions of the  *)
(* two loops.                                                              *)
LEMMA GridCoveredOnce ==
  ASSUME NEW o \in Options, NEW v1 \in ReachedValues(o.scan1),
         NEW v2 \in ReachedValues(o.scan2)
  PROVE  \E p \in 1..Points(o) : \A q \in 1..Points(o) :
           \A job : job.range = Grid(o)[q] => (HasPoint(job, v1, v2) <=> q = p)
  <1> DEFINE m == Starts(o.scan1)
             n == Starts(o.scan2)
             In1(k) == v1 \in ScanRange(o.scan1, k).start..ScanRange(o.scan1, k).end
             In2(k) == v2 \in ScanRange(o.scan2, k).start..ScanRange(o.scan2, k).end
  <1>0. IsScan(o.scan1) /\ IsScan(o.scan2)
    BY JobFarmAssumption DEF JobFarmAssumption
  <1>1. m \in Nat /\ n \in Nat
    BY <1>0, StartsFacts
  <1>2. PICK j \in 0..m - 1 : In1(j) /\ \A i \in 0..m - 1 : In1(i) => i = j
    BY <1>0, ScanCovered
  <1>3. PICK k \in 0..n - 1 : In2(k) /\ \A i \in 0..n - 1 : In2(i) => i = k
    BY <1>0, ScanCovered
  <1>4. Points(o) = m * n
    BY DEF Points
  <1>5. \A q \in 1..Points(o) :
          /\ (q - 1) % m \in 0..m - 1 /\ (q - 1) \div m \in 0..n - 1
          /\ \A job : job.range = Grid(o)[q] =>
               (HasPoint(job, v1, v2) <=> In1((q - 1) % m) /\ In2((q - 1) \div m))
    <2> SUFFICES ASSUME NEW q \in 1..Points(o), NEW job, job.range = Grid(o)[q]
                 PROVE  HasPoint(job, v1, v2) <=> In1((q - 1) % m) /\ In2((q - 1) \div m)
      BY GridFacts
    <2>1. /\ job.range.scan1 = ScanRange(o.scan1, (q - 1) % m)
          /\ job.range.scan2 = ScanRange(o.scan2, (q - 1) \div m)
      BY DEF Grid
    <2> QED BY ONLY <2>1, Zenon DEF HasPoint, In1, In2
  <1> HIDE DEF m, n, In1, In2
  <1>6. j \in Nat /\ k \in Nat /\ m > 0 /\ j < m /\ k < n
    BY <1>1
  <1> DEFINE p == k * m + j + 1
  <1>7. p \in 1..m * n
    <2>1. (n - (k + 1)) * m >= 0 /\ (n - (k + 1)) * m = m * n - (k * m + m)
      BY <1>1, <1>6
    <2>2. k * m \in Nat /\ m * n \in Nat
      BY <1>1, <1>6
    <2> QED BY <1>1, <1>6, <2>1, <2>2
  <1>8. (p - 1) % m = j /\ (p - 1) \div m = k
    <2>1. \A a \in Nat : a = k * m + j => a % m = j /\ a \div m = k
      BY <1>1, <1>6
    <2>2. k * m \in Nat
      BY <1>1, <1>6
    <2>3. p - 1 = k * m + j /\ p - 1 \in Nat
      BY <1>6, <2>2
    <2> QED BY <2>1, <2>3
  <1> HIDE DEF p
  <1>9. \A q \in 1..m * n : (q - 1) % m = j /\ (q - 1) \div m = k => q = p
    <2> SUFFICES ASSUME NEW q \in 1..m * n, (q - 1) % m = j, (q - 1) \div m = k
                 PROVE  q = p
      OBVIOUS
    <2>1. q - 1 \in Nat /\ p - 1 \in Nat
      BY <1>1, <1>7
    <2>2. \A a \in Nat : a = (m * (a \div m)) + (a % m)
      BY <1>1, <1>6
    <2>3. q - 1 = p - 1
      BY ONLY <1>8, <2>1, <2>2, (q - 1) % m = j, (q - 1) \div m = k, Zenon
    <2> QED BY <1>7, <2>1, <2>3
  <1>10. \A q \in 1..Points(o) : \A job : job.range = Grid(o)[q] =>
           (HasPoint(job, v1, v2) <=> q = p)
    <2> SUFFICES ASSUME NEW q \in 1..Points(o), NEW job, job.range = Grid(o)[q]
                 PROVE  HasPoint(job, v1, v2) <=> q = p
      OBVIOUS
    <2>1. HasPoint(job, v1, v2) <=> In1((q - 1) % m) /\ In2((q - 1) \div m)
      BY <1>5
    <2>2. /\ In1((q - 1) % m) <=> (q - 1) % m = j
          /\ In2((q - 1) \div m) <=> (q - 1) \div m = k
      BY <1>2, <1>3, <1>5
    <2> QED BY <1>4, <1>8, <1>9, <2>1, <2>2
  <1> QED BY <1>4, <1>7, <1>10
-----------------------------------------------------------------------------
(* The job numbers of a run: so many for each position in the grid.        *)
IdsFrom(l, p) == l.minId + Times(p - 1, l.options.jobs)

Counted(l) ==
  /\ l.index = IdsFrom(l, l.point) + l.i
  /\ l.point <= Points(l.options) + 1
  /\ l.point > Points(l.options) => l.i = 0

(* The jobs so far, each with its range.                                   *)
Ranged(l, name, p) ==
  \E x \in WholeJobs : x.name = name /\ x.job.range = Grid(l.options)[p]
RangesInv(l) ==
  \A p \in 1..Points(l.options), i \in 0..l.options.jobs - 1 :
    IdsFrom(l, p) + i < l.index => Ranged(l, <<l.base, IdsFrom(l, p) + i>>, p)

(* What is open has nothing in it.                                         *)
OpenedInv(l) == l.stage = "write_job" => bulk[JobName(l)] = EmptyJob

OneJob == \A x, y \in Jobs : x.name[2] = y.name[2] => x = y

GridInv ==
  Undisturbed =>
    /\ OneJob
    /\ \A b \in Building :
         Counted(build[b]) /\ OpenedInv(build[b]) /\ RangesInv(build[b])

GridKept ==
  /\ OneJob'
  /\ \A b \in Building' :
       Counted(build'[b]) /\ OpenedInv(build[b])' /\ RangesInv(build[b])'

(* Multiples of a number, with what is between them.                       *)
LEMMA TimesApart ==
  ASSUME NEW n \in Nat, NEW p \in Nat, NEW q \in Nat, NEW i \in 0..n - 1, NEW j \in 0..n - 1,
         Times(p, n) + i = Times(q, n) + j
  PROVE  p = q /\ i = j
  <1>1. Times(p, n) \in Nat /\ Times(q, n) \in Nat
    BY TimesFacts
  <1>2. p < q => Times(p, n) + n <= Times(q, n)
    BY TimesFacts
  <1>3. q < p => Times(q, n) + n <= Times(p, n)
    BY TimesFacts
  <1>4. p = q
    BY <1>1, <1>2, <1>3
  <1> QED BY <1>1, <1>4

(* The numbers of a position, next to each other.                          *)
LEMMA IdsFacts ==
  ASSUME NEW l \in BusyBuild
  PROVE  /\ \A p \in Nat \ {0} : /\ IdsFrom(l, p) \in Nat
                                 /\ IdsFrom(l, p) >= l.minId
                                 /\ IdsFrom(l, p + 1) = IdsFrom(l, p) + l.options.jobs
         /\ IdsFrom(l, 1) = l.minId
         /\ \A p, q \in Nat \ {0} : \A i, j \in 0..l.options.jobs - 1 :
              IdsFrom(l, p) + i = IdsFrom(l, q) + j => p = q /\ i = j
         /\ \A p, q \in Nat \ {0} : p < q => IdsFrom(l, p) + l.options.jobs <= IdsFrom(l, q)
  <1> DEFINE n == l.options.jobs
  <1>1. n \in Nat /\ l.minId \in Nat
    BY LoopTypes
  <1>2. \A p : IdsFrom(l, p) = l.minId + Times(p - 1, n)
    BY DEF IdsFrom
  <1> HIDE DEF n
  <1>3. \A p \in Nat \ {0} : p - 1 \in Nat /\ (p + 1) - 1 = (p - 1) + 1
    OBVIOUS
  <1>4. \A p \in Nat \ {0} : /\ Times(p - 1, n) \in Nat
                             /\ Times((p + 1) - 1, n) = Times(p - 1, n) + n
    BY <1>1, <1>3, TimesFacts
  <1>5. Times(1 - 1, n) = 0
    BY <1>1, TimesFacts
  <1>6. ASSUME NEW p \in Nat \ {0}, NEW q \in Nat \ {0}, NEW i \in 0..n - 1, NEW j \in 0..n - 1,
               IdsFrom(l, p) + i = IdsFrom(l, q) + j
        PROVE  p = q /\ i = j
    <2>1. Times(p - 1, n) \in Nat /\ Times(q - 1, n) \in Nat
      BY <1>4
    <2>2. Times(p - 1, n) + i = Times(q - 1, n) + j
      BY <1>1, <1>2, <1>6, <2>1
    <2>3. p - 1 \in Nat /\ q - 1 \in Nat
      BY <1>3
    <2>4. p - 1 = q - 1 /\ i = j
      BY <1>1, <2>2, <2>3, TimesApart
    <2> QED BY <2>4
  <1>7. ASSUME NEW p \in Nat \ {0}, NEW q \in Nat \ {0}, p < q
        PROVE  IdsFrom(l, p) + n <= IdsFrom(l, q)
    <2>1. Times(p - 1, n) \in Nat /\ Times(q - 1, n) \in Nat
      BY <1>4
    <2>2. p - 1 \in Nat /\ q - 1 \in Nat /\ p - 1 < q - 1
      BY <1>3, <1>7
    <2>3. Times(p - 1, n) + n <= Times(q - 1, n)
      BY <1>1, <2>2, TimesFacts
    <2> QED BY <1>1, <1>2, <2>1, <2>3
  <1>8. \A p \in Nat \ {0} : /\ IdsFrom(l, p) \in Nat
                             /\ IdsFrom(l, p) >= l.minId
                             /\ IdsFrom(l, p + 1) = IdsFrom(l, p) + n
    <2> TAKE p \in Nat \ {0}
    <2>1. /\ IdsFrom(l, p) = l.minId + Times(p - 1, n)
          /\ IdsFrom(l, p + 1) = l.minId + Times((p + 1) - 1, n)
      BY <1>2
    <2>2. Times(p - 1, n) \in Nat /\ Times((p + 1) - 1, n) = Times(p - 1, n) + n
      BY <1>4
    <2> QED BY <1>1, <2>1, <2>2
  <1>9. IdsFrom(l, 1) = l.minId
    <2>1. \A t : t = 0 => l.minId + t = l.minId
      BY <1>1
    <2> QED BY <1>2, <1>5, <2>1
  <1>10. \A p, q \in Nat \ {0} : \A i, j \in 0..n - 1 :
           IdsFrom(l, p) + i = IdsFrom(l, q) + j => p = q /\ i = j
    BY <1>6
  <1> QED BY <1>7, <1>8, <1>9, <1>10 DEF n

(* Nothing but a job file that is opened, or closed, if by an interrupt,   *)
(* brings a job.                                                           *)
LEMMA NoNewJobs ==
  ASSUME TypeOK, [Next]_vars
  PROVE  \/ Jobs' \subseteq Jobs
         \/ \E b \in Builders : OpenJob(b) \/ CloseJob(b) \/ InterruptBuild(b)
  <1> DEFINE Old == Jobs' \subseteq Jobs
  <1>1. ASSUME UNCHANGED <<bulk, submitted>>
        PROVE  Old
    BY <1>1 DEF Jobs
  <1>2. ASSUME NEW names, names \subseteq DOMAIN bulk, Submit(names), UNCHANGED bulk
        PROVE  Old
    BY <1>2, SubmittedJobs DEF Jobs
  <1>3. CASE \E b \in Builders : StartBuild(b) \/ EndStep(b) \/ KillBuild(b)
    BY <1>1, <1>3 DEF StartBuild, EndStep, KillBuild, dirVars, queueVars
  <1>4. CASE \E s \in Schedulers : AutoSubmit(s) \/ CountRunning(s) \/ SubmitEnds(s)
                                   \/ KillScheduler(s)
    BY <1>1, <1>4 DEF AutoSubmit, CountRunning, SubmitEnds, KillScheduler, dirVars, queueVars
  <1>5. CASE \E s \in Schedulers : SubmitNext(s)
    <2>1. UNCHANGED bulk
      BY <1>5 DEF SubmitNext, dirVars
    <2>2. UNCHANGED queueVars \/ \E file \in DOMAIN bulk : Submit({file})
      BY <1>5 DEF SubmitNext
    <2> QED BY <1>1, <1>2, <2>1, <2>2 DEF queueVars
  <1>6. CASE \E s \in Schedulers : MoveDone(s)
    <2>1. UNCHANGED submitted /\ DOMAIN bulk' \subseteq DOMAIN bulk
          /\ \A name \in DOMAIN bulk' : bulk'[name] = bulk[name]
      BY <1>6 DEF MoveDone, queueVars
    <2> QED BY <2>1 DEF Jobs
  <1>7. CASE RunSubmitScript
    <2>1. UNCHANGED bulk /\ \E base \in Bases : Submit(script[base] \cap DOMAIN bulk)
      BY <1>7 DEF RunSubmitScript, dirVars
    <2> QED BY <1>2, <2>1
  <1>8. CASE JobEnds \/ UNCHANGED vars
    BY <1>1, <1>8 DEF JobEnds, vars, dirVars, queueVars
  <1> QED BY <1>3, <1>4, <1>5, <1>6, <1>7, <1>8 DEF Next, BuildStep, SchedStep

(* What there is to show after a step.                                     *)
LEMMA RangesNext ==
  ASSUME NEW b, NEW m, build'[b] = m,
         \A p \in 1..Points(m.options), i \in 0..m.options.jobs - 1 :
           IdsFrom(m, p) + i < m.index =>
             \E x \in WholeJobs' : /\ x.name = <<m.base, IdsFrom(m, p) + i>>
                                   /\ x.job.range = Grid(m.options)[p]
  PROVE  RangesInv(build[b])'
BY DEF RangesInv, Ranged

LEMMA OpenedNext ==
  ASSUME NEW b, NEW m, build'[b] = m,
         m.stage = "write_job" => bulk'[JobName(m)] = EmptyJob
  PROVE  OpenedInv(build[b])'
BY DEF OpenedInv

(* A job that is opened has a number of its own.                           *)
LEMMA GridOpen ==
  ASSUME IInv, GridInv, Undisturbed, NEW b \in Builders, OpenJob(b)
  PROVE  GridKept
  <1> DEFINE l == build[b]
             m == [l EXCEPT !.stage = "write_job"]
             new == [name |-> JobName(l), job |-> EmptyJob]
  <1>1. TypeOK /\ LoopsInv /\ FarmInv /\ NumbersInv /\ Guarded
    BY UndisturbedFacts DEF IInv
  <1>2. b \in Building /\ Building' \subseteq Building /\ l.stage = "next_job"
        /\ l.point <= Points(l.options) /\ submitted' = submitted
    BY <1>1, BuilderSteps DEF OpenJob, queueVars
  <1>3. l \in BusyBuild /\ Building = {b} /\ IdsInv(l) /\ l.index \in Nat
    BY <1>1, <1>2, OneNumberedRun, LoopTypes DEF Building
  <1>4. build'[b] = m
    BY <1>1, <1>2 DEF OpenJob, TypeOK
  <1>5. /\ m.index = l.index /\ m.base = l.base /\ m.options = l.options
        /\ m.minId = l.minId /\ m.point = l.point /\ m.i = l.i
    BY <1>3 DEF BusyBuild
  <1>6. \A x \in Jobs : x.name[2] < l.index /\ x.name[2] \in Nat
    BY <1>1, <1>2, <1>3, JobsType DEF IdsInv
  <1>7. new.name[2] = l.index /\ JobName(l) \notin DOMAIN bulk
    <2>1. JobName(l)[2] = l.index
      BY <1>3, JobNameType
    <2>2. \A name \in DOMAIN bulk : [name |-> name, job |-> bulk[name]] \in Jobs
      BY DEF Jobs
    <2>3. \A name \in DOMAIN bulk : name[2] < l.index
      BY <1>6, <2>2
    <2> QED BY <1>3, <2>1, <2>3
  <1>8. Jobs' = Jobs \cup {new}
    <2>1. \A name : name \in DOMAIN bulk' <=> name \in DOMAIN bulk \/ name = JobName(l)
      BY DEF OpenJob
    <2>2. /\ \A name \in DOMAIN bulk : bulk'[name] = bulk[name]
          /\ bulk'[JobName(l)] = EmptyJob
      BY <1>7 DEF OpenJob
    <2> QED BY <1>2, <2>1, <2>2 DEF Jobs
  <1>9. OneJob /\ Counted(l) /\ RangesInv(l)
    BY <1>2 DEF GridInv
  <1>10. OneJob'
    BY <1>3, <1>6, <1>7, <1>8, <1>9 DEF OneJob
  <1>11. Counted(m)
    BY <1>5, <1>9 DEF Counted, IdsFrom
  <1>12. WholeJobs \subseteq WholeJobs'
    BY <1>8 DEF WholeJobs
  <1>13. RangesInv(build[b])'
    <2>1. \A p : IdsFrom(m, p) = IdsFrom(l, p)
      BY <1>5 DEF IdsFrom
    <2>2. \A p \in 1..Points(l.options), i \in 0..l.options.jobs - 1 :
            IdsFrom(l, p) + i < l.index =>
              \E x \in WholeJobs' : /\ x.name = <<l.base, IdsFrom(l, p) + i>>
                                    /\ x.job.range = Grid(l.options)[p]
      BY <1>9, <1>12 DEF RangesInv, Ranged
    <2> HIDE DEF m
    <2>3. \A p \in 1..Points(m.options), i \in 0..m.options.jobs - 1 :
            IdsFrom(m, p) + i < m.index =>
              \E x \in WholeJobs' : /\ x.name = <<m.base, IdsFrom(m, p) + i>>
                                    /\ x.job.range = Grid(m.options)[p]
      BY <1>5, <2>1, <2>2
    <2> QED BY ONLY <1>4, <2>3, RangesNext
  <1>14. OpenedInv(build[b])'
    <2>1. JobName(m) = JobName(l) /\ bulk'[JobName(l)] = EmptyJob
      BY <1>5 DEF OpenJob, JobName
    <2> QED BY <1>4, <2>1, OpenedNext
  <1> QED BY <1>2, <1>3, <1>4, <1>10, <1>11, <1>13, <1>14 DEF GridKept

(* A job that is closed is the next one of its position in the grid.       *)
LEMMA GridClose ==
  ASSUME IInv, SubmitInv, GridInv, Undisturbed, NEW b \in Builders, CloseJob(b)
  PROVE  GridKept
  <1> DEFINE l == build[b]
             m == AfterJob(l)
             new == [name |-> JobName(l), job |-> JobText(l)]
             old == [name |-> JobName(l), job |-> bulk[JobName(l)]]
  <1>1. TypeOK /\ LoopsInv /\ FarmInv /\ NumbersInv /\ Guarded
    BY UndisturbedFacts DEF IInv
  <1>2. b \in Building /\ Building' \subseteq Building /\ l.stage = "write_job"
        /\ submitted' = submitted
    BY <1>1, BuilderSteps DEF CloseJob, queueVars
  <1>3. l \in BusyBuild /\ Building = {b} /\ LoopInv(l)
    BY <1>1, <1>2, OneNumberedRun DEF Building
  <1>4. /\ l.index \in Nat /\ l.point \in Nat \ {0} /\ l.i \in Nat /\ l.minId \in Nat
        /\ l.options.jobs \in Nat /\ Points(l.options) \in Nat
        /\ l.i < l.options.jobs /\ l.point <= Points(l.options)
    BY <1>2, <1>3, LoopTypes DEF LoopInv
  <1>5. build'[b] = m
    BY <1>1, <1>2 DEF CloseJob, TypeOK
  <1>6. OneJob /\ Counted(l) /\ RangesInv(l)
    BY <1>2 DEF GridInv
  <1>7. JobName(l) \in DOMAIN bulk /\ WholeInv
    BY <1>2 DEF SubmitInv, KeptInv, Undisturbed
  <1>8. /\ JobName(l) = <<l.base, l.index>> /\ JobName(l)[2] = l.index
        /\ JobText(l).range = Grid(l.options)[l.point] /\ JobText(l) # EmptyJob
    BY WrittenNotEmpty DEF JobName, JobText
  <1>9. old \in Jobs
    BY <1>7 DEF Jobs
  <1>10. /\ new \in Jobs'
         /\ \A x \in Jobs' : x = new \/ (x \in Jobs /\ x.name # JobName(l))
         /\ \A x \in Jobs : x.name # JobName(l) => x \in Jobs'
    <2>1. DOMAIN bulk' = DOMAIN bulk /\ bulk'[JobName(l)] = JobText(l)
          /\ \A name \in DOMAIN bulk : name # JobName(l) => bulk'[name] = bulk[name]
      BY <1>7 DEF CloseJob, WithJob
    <2>2. bulk[JobName(l)] = EmptyJob
      BY <1>2 DEF GridInv, OpenedInv
    <2>3. \A x \in submitted : x.name # JobName(l)
      <3> SUFFICES ASSUME NEW x \in submitted, x.name = JobName(l) PROVE FALSE
        OBVIOUS
      <3>1. x = old
        BY <1>6, <1>9 DEF OneJob, Jobs
      <3>2. x.job # EmptyJob
        BY <1>7 DEF WholeInv, Undisturbed
      <3> QED BY <2>2, <3>1, <3>2
    <2> QED BY <1>2, <1>7, <2>1, <2>3 DEF Jobs
  <1>11. new.name = <<l.base, l.index>> /\ new.name[2] = l.index
    BY <1>8
  <1>12. OneJob'
    <2>1. \A x \in Jobs' : x.name[2] = l.index => x = new
      <3> SUFFICES ASSUME NEW x \in Jobs', x.name[2] = l.index, x # new
                   PROVE  FALSE
        OBVIOUS
      <3>1. x \in Jobs /\ x.name # JobName(l)
        BY <1>10
      <3>2. x = old
        BY <1>6, <1>8, <1>9, <3>1 DEF OneJob
      <3> QED BY <3>1, <3>2
    <2>2. \A x \in Jobs' : x = new \/ x \in Jobs
      BY <1>10
    <2> QED BY <1>6, <1>11, <2>1, <2>2 DEF OneJob
  <1>13. /\ m.options = l.options /\ m.base = l.base /\ m.minId = l.minId
         /\ m.index = l.index + 1 /\ m.stage = "next_job"
         /\ IF l.i + 1 < l.options.jobs THEN m.i = l.i + 1 /\ m.point = l.point
            ELSE m.i = 0 /\ m.point = l.point + 1
    BY <1>3 DEF AfterJob, BusyBuild
  <1> HIDE DEF m
  <1>14. \A p : IdsFrom(m, p) = IdsFrom(l, p)
    BY <1>13 DEF IdsFrom
  <1>15. /\ IdsFrom(l, l.point) \in Nat /\ l.index = IdsFrom(l, l.point) + l.i
         /\ IdsFrom(l, l.point + 1) = IdsFrom(l, l.point) + l.options.jobs
    BY <1>3, <1>4, <1>6, IdsFacts DEF Counted
  <1>16. Counted(m)
    <2>1. CASE l.i + 1 < l.options.jobs
      <3>1. m.index = IdsFrom(m, m.point) + m.i
        BY <1>4, <1>13, <1>14, <1>15, <2>1
      <3> QED BY <1>4, <1>13, <2>1, <3>1 DEF Counted
    <2>2. CASE ~(l.i + 1 < l.options.jobs)
      <3>1. l.i + 1 = l.options.jobs
        BY <1>4, <2>2
      <3>2. IdsFrom(m, m.point) = IdsFrom(l, l.point) + l.options.jobs /\ m.i = 0
        BY <1>13, <1>14, <1>15, <2>2
      <3>3. m.index = IdsFrom(m, m.point) + m.i
        BY <1>4, <1>13, <1>15, <3>1, <3>2
      <3> QED BY <1>4, <1>13, <2>2, <3>3 DEF Counted
    <2> QED BY <2>1, <2>2
  <1>17. OpenedInv(build[b])'
    BY <1>5, <1>13, OpenedNext
  <1>18. ASSUME NEW p \in 1..Points(l.options), NEW i \in 0..l.options.jobs - 1,
                IdsFrom(l, p) + i < l.index + 1
         PROVE  \E x \in WholeJobs' : /\ x.name = <<l.base, IdsFrom(l, p) + i>>
                                      /\ x.job.range = Grid(l.options)[p]
    <2>1. p \in Nat \ {0} /\ IdsFrom(l, p) \in Nat /\ i \in Nat
      BY <1>3, <1>4, IdsFacts
    <2>2. CASE IdsFrom(l, p) + i < l.index
      <3>1. PICK x \in WholeJobs : /\ x.name = <<l.base, IdsFrom(l, p) + i>>
                                   /\ x.job.range = Grid(l.options)[p]
        BY <1>6, <2>2 DEF RangesInv, Ranged
      <3>2. x.name # JobName(l)
        BY <1>4, <1>8, <2>1, <2>2, <3>1
      <3>3. x \in WholeJobs'
        BY <1>10, <3>2 DEF WholeJobs
      <3> QED BY <3>1, <3>3
    <2>3. CASE IdsFrom(l, p) + i = l.index
      <3>1. IdsFrom(l, p) + i = IdsFrom(l, l.point) + l.i /\ l.i \in 0..l.options.jobs - 1
        BY <1>4, <1>15, <2>3
      <3>2. p = l.point
        <4>1. \A q, r \in Nat \ {0} : \A j, k \in 0..l.options.jobs - 1 :
                IdsFrom(l, q) + j = IdsFrom(l, r) + k => q = r /\ j = k
          BY <1>3, IdsFacts
        <4> QED BY <1>4, <2>1, <3>1, <4>1
      <3>3. new \in WholeJobs'
        BY <1>8, <1>10 DEF WholeJobs
      <3> QED BY <1>8, <1>11, <2>3, <3>2, <3>3
    <2> QED BY <1>4, <1>18, <2>1, <2>2, <2>3
  <1>19. RangesInv(build[b])'
    <2>1. \A p \in 1..Points(m.options), i \in 0..m.options.jobs - 1 :
            IdsFrom(m, p) + i < m.index =>
              \E x \in WholeJobs' : /\ x.name = <<m.base, IdsFrom(m, p) + i>>
                                    /\ x.job.range = Grid(m.options)[p]
      <3> SUFFICES ASSUME NEW p \in 1..Points(m.options), NEW i \in 0..m.options.jobs - 1,
                          IdsFrom(m, p) + i < m.index
                   PROVE  \E x \in WholeJobs' : /\ x.name = <<m.base, IdsFrom(m, p) + i>>
                                                /\ x.job.range = Grid(m.options)[p]
        OBVIOUS
      <3>1. m.options = l.options /\ m.base = l.base /\ m.index = l.index + 1
        BY <1>13
      <3>2. IdsFrom(m, p) = IdsFrom(l, p)
        BY <1>14
      <3>3. IdsFrom(l, p) + i < l.index + 1
        BY ONLY <3>1, <3>2, IdsFrom(m, p) + i < m.index, Zenon
      <3>4. p \in 1..Points(l.options) /\ i \in 0..l.options.jobs - 1
        BY <3>1
      <3>5. PICK x \in WholeJobs' : /\ x.name = <<l.base, IdsFrom(l, p) + i>>
                                   /\ x.job.range = Grid(l.options)[p]
        BY <1>18, <3>3, <3>4
      <3> QED BY ONLY <3>1, <3>2, <3>5, Zenon
    <2> QED BY ONLY <1>5, <2>1, RangesNext
  <1> QED BY <1>2, <1>3, <1>5, <1>12, <1>16, <1>17, <1>19 DEF GridKept

(* A run that stands still, or that is past its loops.                     *)
LEMMA GridStands ==
  ASSUME GridInv, Undisturbed, NEW b \in Building, NEW m, build'[b] = m,
         m.options = build[b].options, m.base = build[b].base, m.minId = build[b].minId,
         m.index = build[b].index, m.point = build[b].point, m.i = build[b].i,
         m.stage = build[b].stage, UNCHANGED bulk, submitted \subseteq submitted'
  PROVE  Counted(build'[b]) /\ OpenedInv(build[b])' /\ RangesInv(build[b])'
  <1> DEFINE l == build[b]
  <1>1. Counted(l) /\ OpenedInv(l) /\ RangesInv(l)
    BY DEF GridInv
  <1>2. \A p : IdsFrom(m, p) = IdsFrom(l, p)
    BY DEF IdsFrom
  <1>3. Counted(m)
    BY <1>1, <1>2 DEF Counted
  <1>4. JobName(m) = JobName(l)
    BY DEF JobName
  <1>5. OpenedInv(build[b])'
    <2>1. m.stage = "write_job" => bulk'[JobName(m)] = EmptyJob
      BY <1>1, <1>4 DEF OpenedInv
    <2> QED BY ONLY <2>1, build'[b] = m, OpenedNext
  <1>6. WholeJobs \subseteq WholeJobs'
    BY DEF WholeJobs, Jobs
  <1>7. \A p \in 1..Points(m.options), i \in 0..m.options.jobs - 1 :
          IdsFrom(m, p) + i < m.index =>
            \E x \in WholeJobs' : /\ x.name = <<m.base, IdsFrom(m, p) + i>>
                                  /\ x.job.range = Grid(m.options)[p]
    <2>1. \A p \in 1..Points(l.options), i \in 0..l.options.jobs - 1 :
            IdsFrom(l, p) + i < l.index =>
              \E x \in WholeJobs' : /\ x.name = <<l.base, IdsFrom(l, p) + i>>
                                    /\ x.job.range = Grid(l.options)[p]
      BY <1>1, <1>6 DEF RangesInv, Ranged
    <2>2. m.options = l.options /\ m.base = l.base /\ m.index = l.index
      OBVIOUS
    <2> SUFFICES ASSUME NEW p \in 1..Points(m.options), NEW i \in 0..m.options.jobs - 1,
                        IdsFrom(m, p) + i < m.index
                 PROVE  \E x \in WholeJobs' : /\ x.name = <<m.base, IdsFrom(m, p) + i>>
                                              /\ x.job.range = Grid(m.options)[p]
      OBVIOUS
    <2> HIDE DEF l
    <2>3. IdsFrom(m, p) = IdsFrom(l, p)
      BY <1>2
    <2>4. p \in 1..Points(l.options) /\ i \in 0..l.options.jobs - 1
      BY <2>2
    <2>5. IdsFrom(l, p) + i < l.index
      BY ONLY <2>2, <2>3, IdsFrom(m, p) + i < m.index, Zenon
    <2>6. PICK x \in WholeJobs' : /\ x.name = <<l.base, IdsFrom(l, p) + i>>
                                 /\ x.job.range = Grid(l.options)[p]
      BY <2>1, <2>4, <2>5
    <2> QED BY ONLY <2>2, <2>3, <2>6, Zenon
  <1>8. RangesInv(build[b])'
    BY ONLY <1>7, build'[b] = m, RangesNext
  <1> QED BY <1>3, <1>5, <1>8

(* A run that starts has no job yet.                                       *)
LEMMA GridStart ==
  ASSUME TypeOK, NEW b \in Builders, NEW o \in Options, StateReadable,
         build' = [build EXCEPT ![b] = NewRun(o)]
  PROVE  Counted(build'[b]) /\ OpenedInv(build[b])' /\ RangesInv(build[b])'
  <1> DEFINE m == NewRun(o)
  <1>1. build'[b] = m
    BY DEF TypeOK
  <1>2. m \in BusyBuild
    BY NewRunType
  <1>3. m.stage = "next_job" /\ m.index = m.minId /\ m.point = 1 /\ m.i = 0
    BY DEF NewRun
  <1> HIDE DEF m
  <1>4. /\ IdsFrom(m, 1) = m.minId /\ m.minId \in Nat /\ Points(m.options) \in Nat
        /\ \A p \in Nat \ {0} : IdsFrom(m, p) \in Nat /\ IdsFrom(m, p) >= m.minId
    BY <1>2, IdsFacts, LoopTypes
  <1>5. Counted(m)
    BY <1>3, <1>4 DEF Counted
  <1>6. OpenedInv(build[b])'
    BY <1>1, <1>3, OpenedNext
  <1>7. \A p \in 1..Points(m.options), i \in 0..m.options.jobs - 1 :
          ~(IdsFrom(m, p) + i < m.index)
    BY <1>3, <1>4
  <1>8. RangesInv(build[b])'
    BY <1>1, <1>7, RangesNext
  <1> QED BY <1>1, <1>5, <1>6, <1>8

(* Every step keeps the grid.                                              *)
LEMMA GridNext ==
  ASSUME IInv, SubmitInv, GridInv, [Next]_vars
  PROVE  GridInv'
  <1> SUFFICES ASSUME Undisturbed' PROVE GridKept
    BY DEF GridInv, GridKept, Counted, IdsFrom
  <1>1. Undisturbed /\ TypeOK /\ LoopsInv /\ FarmInv /\ NumbersInv /\ Guarded
        /\ (Building = {} \/ Scheduling = {})
    BY MishapsKept, UndisturbedFacts DEF IInv, SubmitInv, ApartInv
  <1>2. ASSUME UNCHANGED <<bulk, build>>, submitted \subseteq submitted', Jobs' \subseteq Jobs
        PROVE  GridKept
    <2>1. OneJob'
      BY <1>1, <1>2 DEF GridInv, OneJob
    <2>2. Building' = Building
      BY <1>2 DEF Building
    <2>3. \A b \in Building :
            Counted(build'[b]) /\ OpenedInv(build[b])' /\ RangesInv(build[b])'
      BY <1>1, <1>2, GridStands
    <2> QED BY <2>1, <2>2, <2>3 DEF GridKept
  <1>3. CASE \E b \in Builders : StartBuild(b)
    <2>1. PICK b \in Builders : StartBuild(b)
      BY <1>3
    <2>2. Building = {} /\ UNCHANGED <<bulk, submitted>>
      BY <1>1, <2>1 DEF StartBuild, Beside, Barring, Undisturbed, NumbersKept,
         queueVars
    <2>3. Jobs' = Jobs
      BY <2>2 DEF Jobs
    <2>4. CASE UNCHANGED build
      BY <1>2, <2>2, <2>3, <2>4
    <2>5. ASSUME NEW o \in Options, StateReadable, build' = [build EXCEPT ![b] = NewRun(o)]
          PROVE  GridKept
      <3>1. Building' \subseteq {b}
        BY <1>1, <2>2, <2>5 DEF TypeOK, Building
      <3>2. OneJob'
        BY <1>1, <2>3 DEF GridInv, OneJob
      <3>3. Counted(build'[b]) /\ OpenedInv(build[b])' /\ RangesInv(build[b])'
        BY <1>1, <2>5, GridStart
      <3> QED BY <3>1, <3>2, <3>3 DEF GridKept
    <2> QED BY <2>1, <2>4, <2>5 DEF StartBuild
  <1>4. CASE \E b \in Builders : OpenJob(b)
    BY <1>1, <1>4, GridOpen
  <1>5. CASE \E b \in Builders : CloseJob(b)
    BY <1>1, <1>5, GridClose
  <1>6. CASE \E b \in Builders : EndStep(b) \/ KillBuild(b) \/ InterruptBuild(b)
    <2>1. PICK b \in Builders : EndStep(b) \/ KillBuild(b) \/ InterruptBuild(b)
      BY <1>6
    <2> DEFINE l == build[b]
               m == [l EXCEPT !.step = @ + 1]
    <2>0. b \in Building /\ Building' \subseteq Building /\ UNCHANGED submitted /\ Guarded'
      BY <1>1, <2>1, BuilderSteps, UndisturbedFacts
      DEF queueVars, Undisturbed, NumbersKept, Guarded
    <2>3. l \in BusyBuild /\ Building = {b} /\ l.step \in 1..9 /\ LoopInv(l)
      BY <1>1, <2>0, OneNumberedRun, BuildType DEF Building
    <2>r. l.stage = "next_job"
      BY <2>0, <2>1, <2>3, CutUnharmed DEF EndStep
    <2>2. b \in Building /\ Building' \subseteq Building /\ UNCHANGED <<bulk, submitted>>
      BY <2>0, <2>1, <2>r DEF EndStep, KillBuild, InterruptBuild, dirVars
    <2>4. Jobs' = Jobs
      BY <2>2 DEF Jobs
    <2>5. OneJob'
      BY <1>1, <2>4 DEF GridInv, OneJob
    <2>6. b \notin Building' \/ build'[b] = m
      <3>1. CASE EndStep(b) /\ l.step = 9
        BY <1>1, <2>3, <3>1, EndEffect DEF TypeOK, Building
      <3>2. CASE EndStep(b) /\ l.step # 9
        BY <1>1, <2>3, <3>2, EndEffect DEF TypeOK
      <3>3. CASE KillBuild(b) \/ InterruptBuild(b)
        BY <1>1, <3>3 DEF KillBuild, InterruptBuild, TypeOK, Building
      <3> QED BY <2>1, <3>1, <3>2, <3>3
    <2>7. /\ m.options = l.options /\ m.base = l.base /\ m.minId = l.minId
          /\ m.index = l.index /\ m.point = l.point /\ m.i = l.i /\ m.stage = l.stage
      BY <2>3 DEF BusyBuild
    <2>8. build'[b] = m =>
            Counted(build'[b]) /\ OpenedInv(build[b])' /\ RangesInv(build[b])'
      BY <1>1, <2>2, <2>7, GridStands
    <2> QED BY <2>2, <2>3, <2>5, <2>6, <2>8 DEF GridKept
  <1>7. CASE \E s \in Schedulers : MoveDone(s)
    <2>1. PICK s \in Schedulers : MoveDone(s)
      BY <1>7
    <2>2. s \in Scheduling /\ UNCHANGED build
      BY <1>1, <2>1, SchedulerSteps
    <2>3. Building' = {}
      BY <1>1, <2>2 DEF Building
    <2>4. Jobs' \subseteq Jobs
      <3>1. UNCHANGED submitted /\ DOMAIN bulk' \subseteq DOMAIN bulk
            /\ \A name \in DOMAIN bulk' : bulk'[name] = bulk[name]
        BY <2>1 DEF MoveDone, queueVars
      <3> QED BY <3>1 DEF Jobs
    <2>5. OneJob'
      BY <1>1, <2>4 DEF GridInv, OneJob
    <2> QED BY <2>3, <2>5 DEF GridKept
  <1>8. CASE \E s \in Schedulers :
               AutoSubmit(s) \/ CountRunning(s) \/ SubmitNext(s) \/ SubmitEnds(s)
               \/ KillScheduler(s)
    <2>1. UNCHANGED <<bulk, build>>
      BY <1>8 DEF AutoSubmit, CountRunning, SubmitNext, SubmitEnds, KillScheduler, dirVars
    <2>2. submitted \subseteq submitted'
      BY <1>8 DEF AutoSubmit, CountRunning, SubmitNext, SubmitEnds, KillScheduler, Submit,
                  queueVars
    <2>3. \/ Jobs' \subseteq Jobs
          \/ \E b \in Builders : OpenJob(b) \/ CloseJob(b) \/ InterruptBuild(b)
      BY <1>1, NoNewJobs
    <2> QED BY <1>2, <1>4, <1>5, <1>6, <2>1, <2>2, <2>3
  <1>9. CASE (RunSubmitScript \/ JobEnds \/ UNCHANGED vars)
             /\ UNCHANGED <<dirVars, build, sched>>
    <2>1. UNCHANGED <<bulk, build>> /\ submitted \subseteq submitted'
      BY <1>9 DEF RunSubmitScript, Submit, JobEnds, vars, queueVars, dirVars
    <2>2. \/ Jobs' \subseteq Jobs
          \/ \E b \in Builders : OpenJob(b) \/ CloseJob(b) \/ InterruptBuild(b)
      BY <1>1, NoNewJobs
    <2> QED BY <1>2, <1>4, <1>5, <1>6, <2>1, <2>2
  <1> QED BY <1>3, <1>4, <1>5, <1>6, <1>7, <1>8, <1>9, StepKinds

(* At the start there is no job and no run.                                *)
LEMMA GridInit == Init => GridInv
BY DEF Init, GridInv, OneJob, Jobs, Building

(* No job goes past the end of its scan.                                   *)
LEMMA RangeEnds ==
  ASSUME NEW scan, IsScan(scan), NEW k \in 0..Starts(scan) - 1
  PROVE  ScanRange(scan, k).end <= scan.end
  <1>1. scan.start \in Int /\ scan.end \in Int /\ scan.inc \in Nat /\ scan.perjob \in Nat \ {0}
    BY DEF IsScan
  <1>2. k \in Nat
    BY StartsFacts
  <1> DEFINE last == scan.start + k * scan.inc * scan.perjob + scan.inc * (scan.perjob - 1)
  <1>3. last \in Int
    BY <1>1, <1>2
  <1>4. ScanRange(scan, k).end = Lesser(last, scan.end)
    BY DEF ScanRange
  <1> HIDE DEF last
  <1> QED BY <1>1, <1>3, <1>4 DEF Lesser

(* Where a run has got to after its loops: its jobs are those of the       *)
(* positions in the grid, so many for each, and it has no other.           *)
LEMMA RunIsWhole ==
  ASSUME IInv, GridInv, Undisturbed, NEW b \in Building, NEW l, l = build[b], l.step > 1
  PROVE  /\ \A p \in 1..Points(l.options), i \in 0..l.options.jobs - 1 :
              /\ <<l.base, IdsFrom(l, p) + i>> \in JobNames(l)
              /\ Ranged(l, <<l.base, IdsFrom(l, p) + i>>, p)
         /\ \A x \in WholeJobs : x.name \in JobNames(l) =>
              \E p \in 1..Points(l.options), i \in 0..l.options.jobs - 1 :
                /\ x.name = <<l.base, IdsFrom(l, p) + i>>
                /\ x.job.range = Grid(l.options)[p]
  <1> DEFINE n == l.options.jobs
             g == Points(l.options)
  <1>1. l \in BusyBuild /\ LoopInv(l) /\ Counted(l) /\ RangesInv(l) /\ OneJob
    BY BusyType DEF IInv, LoopsInv, GridInv, Building
  <1>2. n \in Nat /\ n > 0 /\ g \in Nat /\ l.point \in Nat /\ l.minId \in Nat /\ l.index \in Nat
    BY <1>1, LoopTypes
  <1>3. /\ \A p \in Nat \ {0} : IdsFrom(l, p) \in Nat /\ IdsFrom(l, p) >= l.minId
        /\ \A p, q \in Nat \ {0} : p < q => IdsFrom(l, p) + n <= IdsFrom(l, q)
    BY <1>1, IdsFacts
  <1>4. l.point = g + 1 /\ l.i = 0 /\ l.index = IdsFrom(l, l.point) + l.i
    BY <1>1, <1>2 DEF LoopInv, Counted
  <1>5. l.index = IdsFrom(l, g + 1)
    <2>1. IdsFrom(l, g + 1) \in Nat
      BY <1>2, <1>3
    <2> QED BY <1>4, <2>1
  <1>6. \A id : id \in l.minId..l.index - 1 => <<l.base, id>> \in JobNames(l)
    BY DEF JobNames
  <1>7. \A p \in 1..g, i \in 0..n - 1 :
          IdsFrom(l, p) + i < l.index => Ranged(l, <<l.base, IdsFrom(l, p) + i>>, p)
    BY <1>1 DEF RangesInv
  <1>8. \A name \in JobNames(l) : \E id \in l.minId..l.index - 1 : name = <<l.base, id>>
    BY DEF JobNames
  <1>9. \A p : IdsFrom(l, p) = l.minId + Times(p - 1, n)
    BY DEF IdsFrom
  <1> HIDE DEF n, g
  <1>10. \A p \in 1..g, i \in 0..n - 1 :
           /\ IdsFrom(l, p) + i < l.index
           /\ IdsFrom(l, p) + i \in l.minId..l.index - 1
    BY <1>2, <1>3, <1>5
  <1>11. \A p \in 1..g, i \in 0..n - 1 :
           /\ <<l.base, IdsFrom(l, p) + i>> \in JobNames(l)
           /\ Ranged(l, <<l.base, IdsFrom(l, p) + i>>, p)
    BY <1>6, <1>7, <1>10
  <1>12. ASSUME NEW x \in WholeJobs, x.name \in JobNames(l)
         PROVE  \E p \in 1..g, i \in 0..n - 1 :
                  /\ x.name = <<l.base, IdsFrom(l, p) + i>>
                  /\ x.job.range = Grid(l.options)[p]
    <2>1. PICK id \in l.minId..l.index - 1 : x.name = <<l.base, id>>
      BY <1>8, <1>12
    <2> DEFINE d == id - l.minId
               q == d \div n
               i == d % n
    <2>2. d \in Nat /\ id = l.minId + d
      BY <1>2
    <2> HIDE DEF d
    <2>3. q \in Nat /\ i \in 0..n - 1 /\ d = q * n + i /\ q * n \in Nat
      BY <1>2, <2>2
    <2> HIDE DEF q, i
    <2>4. IdsFrom(l, q + 1) = l.minId + q * n
      <3>1. (q + 1) - 1 = q
        BY <2>3
      <3>2. IdsFrom(l, q + 1) = l.minId + Times((q + 1) - 1, n)
        BY <1>9
      <3>3. Times((q + 1) - 1, n) = q * n
        BY ONLY <3>1 DEF Times
      <3> QED BY ONLY <3>2, <3>3, Zenon
    <2>5. id = IdsFrom(l, q + 1) + i
      BY <1>2, <2>2, <2>3, <2>4
    <2>6. q + 1 \in 1..g
      <3>1. q + 1 \in Nat \ {0} /\ g + 1 \in Nat \ {0}
        BY <1>2, <2>3
      <3>2. g + 1 < q + 1 => IdsFrom(l, g + 1) + n <= IdsFrom(l, q + 1)
        BY <1>3, <3>1
      <3>3. g + 1 = q + 1 => IdsFrom(l, g + 1) = IdsFrom(l, q + 1)
        OBVIOUS
      <3>4. IdsFrom(l, g + 1) \in Nat /\ IdsFrom(l, q + 1) \in Nat
        BY <1>3, <3>1
      <3> QED BY <1>2, <1>5, <2>3, <2>5, <3>1, <3>2, <3>3, <3>4
    <2>7. PICK y \in WholeJobs : /\ y.name = <<l.base, IdsFrom(l, q + 1) + i>>
                                 /\ y.job.range = Grid(l.options)[q + 1]
      BY <1>11, <2>3, <2>6 DEF Ranged
    <2>8. x = y
      <3>1. x.name = y.name
        BY <2>1, <2>5, <2>7
      <3> QED BY <1>1, <3>1 DEF OneJob, WholeJobs
    <2> QED BY <2>3, <2>6, <2>7, <2>8
  <1> QED BY <1>11, <1>12 DEF n, g

(* A run past its loops has covered its grid.                              *)
LEMMA RunCovers ==
  ASSUME IInv, GridInv, Undisturbed, NEW b \in Building, NEW l, l = build[b], l.step > 1,
         NEW o, o = l.options,
         NEW mine, mine = {x \in WholeJobs : x.name \in JobNames(l)}
  PROVE  /\ \A v1 \in ReachedValues(o.scan1), v2 \in ReachedValues(o.scan2) :
              Cardinality({x \in mine : HasPoint(x.job, v1, v2)}) = o.jobs
         /\ \A x \in mine : /\ x.job.range.scan1.end <= o.scan1.end
                            /\ x.job.range.scan2.end <= o.scan2.end
  <1> DEFINE n == o.jobs
             g == Points(o)
  <1>1. l \in BusyBuild /\ o \in Options /\ n \in Nat /\ g \in Nat /\ OneJob
    BY BusyType, LoopTypes DEF IInv, GridInv, Building
  <1>2. \A p \in 1..g, i \in 0..n - 1 :
          /\ <<l.base, IdsFrom(l, p) + i>> \in JobNames(l)
          /\ \E x \in WholeJobs : /\ x.name = <<l.base, IdsFrom(l, p) + i>>
                                  /\ x.job.range = Grid(o)[p]
    <2>1. \A p \in 1..Points(l.options), i \in 0..l.options.jobs - 1 :
            /\ <<l.base, IdsFrom(l, p) + i>> \in JobNames(l)
            /\ Ranged(l, <<l.base, IdsFrom(l, p) + i>>, p)
      BY ONLY IInv, GridInv, Undisturbed, b \in Building, l = build[b], l.step > 1, RunIsWhole
    <2> QED BY <2>1 DEF Ranged
  <1>3. \A x \in mine : \E p \in 1..g, i \in 0..n - 1 :
          /\ x.name = <<l.base, IdsFrom(l, p) + i>>
          /\ x.job.range = Grid(o)[p]
    BY RunIsWhole
  <1>4. \A p, q \in 1..g : \A i, j \in 0..n - 1 :
          IdsFrom(l, p) + i = IdsFrom(l, q) + j => p = q /\ i = j
    <2>1. /\ \A p \in 1..g : p \in Nat \ {0}
          /\ n = l.options.jobs
      BY <1>1
    <2> HIDE DEF n, g
    <2>2. \A p, q \in Nat \ {0} : \A i, j \in 0..n - 1 :
            IdsFrom(l, p) + i = IdsFrom(l, q) + j => p = q /\ i = j
      BY <1>1, <2>1, IdsFacts
    <2> QED BY <2>1, <2>2
  <1>5. \A x, y \in mine : x.name[2] = y.name[2] => x = y
    BY <1>1 DEF OneJob, WholeJobs
  <1>6. \A x \in WholeJobs : x.name \in JobNames(l) => x \in mine
    OBVIOUS
  <1> HIDE DEF n, g
  <1>7. ASSUME NEW v1 \in ReachedValues(o.scan1), NEW v2 \in ReachedValues(o.scan2)
        PROVE  Cardinality({x \in mine : HasPoint(x.job, v1, v2)}) = n
    <2>1. PICK p \in 1..g : \A q \in 1..g :
            \A job : job.range = Grid(o)[q] => (HasPoint(job, v1, v2) <=> q = p)
      BY <1>1, GridCoveredOnce DEF g
    <2> DEFINE S == {x \in mine : HasPoint(x.job, v1, v2)}
               Nth(i) == <<l.base, IdsFrom(l, p) + (i - 1)>>
               f == [i \in 1..n |-> CHOOSE x \in S : x.name = Nth(i)]
    <2>2. \A i \in 1..n : i - 1 \in 0..n - 1
      BY <1>1
    <2>3. \A i \in 1..n : \E x \in S : x.name = Nth(i)
      <3> SUFFICES ASSUME NEW i \in 1..n PROVE \E x \in S : x.name = Nth(i)
        OBVIOUS
      <3>1. Nth(i) \in JobNames(l)
        BY <1>2, <2>2
      <3>2. PICK x \in WholeJobs : x.name = Nth(i) /\ x.job.range = Grid(o)[p]
        BY <1>2, <2>2
      <3>3. x \in mine /\ HasPoint(x.job, v1, v2)
        BY <1>6, <2>1, <3>1, <3>2
      <3> QED BY <3>2, <3>3
    <2>4. \A x \in S : \E i \in 1..n : x.name = Nth(i)
      <3> SUFFICES ASSUME NEW x \in S PROVE \E i \in 1..n : x.name = Nth(i)
        OBVIOUS
      <3>1. PICK q \in 1..g, i \in 0..n - 1 : /\ x.name = <<l.base, IdsFrom(l, q) + i>>
                                              /\ x.job.range = Grid(o)[q]
        BY <1>3
      <3>2. q = p
        BY <2>1, <3>1
      <3>3. i + 1 \in 1..n /\ i = (i + 1) - 1
        BY <1>1
      <3>4. x.name = Nth(i + 1)
        BY <3>1, <3>2, <3>3
      <3> QED BY <3>3, <3>4
    <2>5. \A i, j \in 1..n : Nth(i)[2] = Nth(j)[2] => i = j
      <3> SUFFICES ASSUME NEW i \in 1..n, NEW j \in 1..n,
                          IdsFrom(l, p) + (i - 1) = IdsFrom(l, p) + (j - 1)
                   PROVE  i = j
        OBVIOUS
      <3>1. i - 1 = j - 1
        BY <1>4, <2>2
      <3> QED BY <3>1
    <2>6. \A x, y \in S : x.name[2] = y.name[2] => x = y
      BY <1>5
    <2> HIDE DEF S, Nth
    <2>7. \A i \in 1..n : f[i] \in S /\ f[i].name = Nth(i)
      BY <2>3
    <2>8. f \in [1..n -> S]
      BY <2>7
    <2> HIDE DEF f
    <2>9. \A i, j \in 1..n : f[i] = f[j] => i = j
      BY <2>5, <2>7
    <2>10. \A x \in S : \E i \in 1..n : f[i] = x
      BY <2>4, <2>6, <2>7
    <2>11. ExistsBijection(1..n, S)
      BY <2>8, <2>9, <2>10 DEF ExistsBijection, Bijection, Injection, Surjection, IsInjective
    <2>12. Cardinality(S) = n
      BY <1>1, <2>11, FS_CountingElements
    <2> QED BY <2>12 DEF S
  <1>8. ASSUME NEW x \in mine
        PROVE  x.job.range.scan1.end <= o.scan1.end /\ x.job.range.scan2.end <= o.scan2.end
    <2>1. PICK p \in 1..g : x.job.range = Grid(o)[p]
      BY <1>3
    <2> DEFINE j == (p - 1) % Starts(o.scan1)
               k == (p - 1) \div Starts(o.scan1)
    <2>2. x.job.range.scan1 = ScanRange(o.scan1, j) /\ x.job.range.scan2 = ScanRange(o.scan2, k)
      BY <2>1 DEF Grid, g
    <2>3. j \in 0..Starts(o.scan1) - 1 /\ k \in 0..Starts(o.scan2) - 1
      BY <1>1, GridFacts DEF g
    <2>4. IsScan(o.scan1) /\ IsScan(o.scan2)
      BY <1>1, JobFarmAssumption DEF JobFarmAssumption
    <2> HIDE DEF j, k
    <2> QED BY <2>2, <2>3, <2>4, RangeEnds
  <1> QED BY <1>7, <1>8 DEF n

LEMMA GridAlways == Spec => [](IInv /\ SubmitInv /\ GridInv)
  <1>1. Init => IInv /\ SubmitInv /\ GridInv
    BY IInvInit, SubmitInvInit, GridInit
  <1>2. IInv /\ SubmitInv /\ GridInv /\ [Next]_vars => (IInv /\ SubmitInv /\ GridInv)'
    BY IInvNext, SubmitInvNext, GridNext
  <1> QED BY <1>1, <1>2, PTL DEF Spec

(* The jobs of a run share the values that its scans reach, for any        *)
(* command line: when the loops of create_jobs are through, there are for  *)
(* each pair of values of the two scan parameters so many whole job files  *)
(* with it, or submissions of them, as the command line says, and none of  *)
(* the run's jobs goes past the end of a scan.  What a scan may not reach  *)
(* is its end, when that is all that the last job would have.              *)
THEOREM GridIsCovered == Spec => []GridCovered
  <1>1. IInv /\ GridInv => GridCovered
    <2> SUFFICES ASSUME IInv, GridInv, Undisturbed, NEW b \in Building, build[b].step > 1
                 PROVE  LET o == build[b].options IN
                        /\ \A v1 \in ReachedValues(o.scan1), v2 \in ReachedValues(o.scan2) :
                             Cardinality(JobsAt(build[b], v1, v2)) = o.jobs
                        /\ \A x \in WholeJobs : x.name \in JobNames(build[b]) =>
                             /\ x.job.range.scan1.end <= o.scan1.end
                             /\ x.job.range.scan2.end <= o.scan2.end
      BY DEF GridCovered
    <2> DEFINE l == build[b]
               o == l.options
               mine == {x \in WholeJobs : x.name \in JobNames(l)}
    <2>1. /\ \A v1 \in ReachedValues(o.scan1), v2 \in ReachedValues(o.scan2) :
               Cardinality({x \in mine : HasPoint(x.job, v1, v2)}) = o.jobs
          /\ \A x \in mine : /\ x.job.range.scan1.end <= o.scan1.end
                             /\ x.job.range.scan2.end <= o.scan2.end
      BY RunCovers, Zenon
    <2>2. ASSUME NEW v1, NEW v2
          PROVE  JobsAt(l, v1, v2) = {x \in mine : HasPoint(x.job, v1, v2)}
      BY DEF JobsAt
    <2> HIDE DEF l, o
    <2>3. \A x \in WholeJobs : x.name \in JobNames(l) => x \in mine
      OBVIOUS
    <2> HIDE DEF mine
    <2>4. /\ \A v1 \in ReachedValues(o.scan1), v2 \in ReachedValues(o.scan2) :
               Cardinality(JobsAt(l, v1, v2)) = o.jobs
          /\ \A x \in WholeJobs : x.name \in JobNames(l) =>
               /\ x.job.range.scan1.end <= o.scan1.end
               /\ x.job.range.scan2.end <= o.scan2.end
      BY <2>1, <2>2, <2>3
    <2> QED BY <2>4 DEF l, o
  <1> QED BY <1>1, GridAlways, PTL
=============================================================================
