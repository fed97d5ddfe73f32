# DooFit verification

TLA+ models of DooFit, a framework for fits and toy studies on top of ROOT and
RooFit: what its components promise, how the code keeps the promises, and where
it does not. The modules are translated from the C++ sources; ROOT, RooFit,
boost and doocore are modelled from the way DooFit uses them.

## 1. The system

A *toy study* generates samples from a PDF (`ToyFactoryStd`), fits them
(`EasyFit` or RooFit directly), hands the fit results to `ToyStudyStd`, which
saves them in a ROOT file, and later reads the files of many jobs again to
evaluate them (`ToyStudyStd`, the profilers). The jobs are made by
`PBSJobBuilder.py`, run independently of each other and may share a file.

| Component | State | Operations | Interacts with |
|---|---|---|---|
| `ToyStudyStd`, saving | shared queue, worker's own queue, half-asynchronous mutex, `accepting_fit_results_`, static `abort_save_`, file lock, the file | `StoreFitResult`, `FinishFitResultSaving`, constructor, destructor, `SaveFitResultWorker`, `HandleSignal` | main thread, worker thread, signals, other processes through the file |
| `ToyStudyStd`, reading | read queue, release queue, `fit_results_`, `fit_results_by_seed_`, `fit_results_bookkeep_`, `evaluated_values_` | `ReadFitResults`, `GetFitResult`, `ReleaseFitResult`, `PurgeReleasedFitResults`, `EvaluateFitResults`, `EmptyResults` | the files written above; profilers take and release results |
| `ToyStudyStd`, EasyFit results | queue of trees, open tree and position, counter, the two result objects | `NumberOfAvailableEasyFitResults`, `GetEasyFitResult` | `ReadFitResults` fills the queue; `FeldmanCousinsProfiler` empties it |
| `ToyFactoryStd` | the recursion (yields, rounding errors, proto data), static `signal_caught_` | `Generate`, `GenerateForPdf` and the functions for each kind of PDF, `GenerateProtoSample`, `GenerateDiscreteSample`, `MixMergeDatasets`, `AppendDatasets`, `SignalHandler` | RooFit; a factory of its own for proto data |
| `FeldmanCousinsProfiler`, `LikelihoodProfiler` | maps from scan points to results and to differences of NLLs, hand-owned copies of results | `ReadFitResults*`, `ProcessToyFitResult`, `PlotHandler`, `SetSamplePoint` | `ToyStudyStd`, `EasyFitResult` |
| `EasyFit`, `SPlotFit2` | how far a fit is, PDF, dataset, options, result; the EasyFit to use and the input data | `Fit`, setters | each other and every caller through the EasyFit, each other through the parameters of a shared PDF |
| `EasyFitResult` | statuses, values of parameters in three maps, all bound to branches of a tree | `ConvertRooFitResult`, `RegisterBranchesInTree`, constructors, copies | ROOT trees; `ToyStudyStd` reads them |
| `plotting` | `plot_stack_open_` and `plot_appendix_` of each `PlotConfig`, the files | `Plot::PlotHandler`, `PlotSimultaneous::PlotHandler`, `OnDemandOpenPlotStack`, `ClosePlotStack`, `set_plot_appendix` | each other and `ToyStudyStd::PlotEvaluatedParameters` through the file `AllPlots.pdf` |
| `EasyPdf` | sets of variables, formulas and PDFs by name | one function per kind of PDF | RooFit workspaces, `ToyFactoryStd` |
| `numerobis`, `bobthebuilder`, `fitmodelbrewery`, `BuilderStd` | maps of dimensions, components and recipes | registration with dependants, building | RooFit workspaces |
| `config` | a static registry of configurations, typed values | parse, print | every other component |
| `PBSJobBuilder.py`, `PBSJobScheduler.py` | job files, control files, `max_seed`, `max_id`, `basename` | one run makes jobs; one submits what is there; a submit script | each other through the directory, the batch system |
| `roofit`, `libjson`, `lhcb`, `main`, `examples` | none worth modelling | formulas, vendored code | |

What is hard about each, and what makes it correct:

* **Saving.** Two threads, two queues, a mutex that is locked by one call and
  unlocked by the next, signals, and several processes at one file. Correct
  means: no accepted result is lost, doubled or moved while its process lives;
  after `FinishFitResultSaving` all are in the file; one process at the file at
  a time; the worker off ROOT while the caller fits; no deadlock; a signal
  never damages the file.
* **Reading.** Long sequences of calls over containers that share pointers.
  Correct means: every result has one owner and is deleted once, the asked
  number of good entries is read in order, reference toys are compared with
  their own partner.
* **EasyFit results.** A position, a counter and a queue that must agree.
  Correct means: every entry is handed out once and in order, and a count is
  never more than what is there.
* **Toy generation.** Real yields that become whole events at each leaf, a 0
  with two meanings, slices of proto data, `longjmp` out of RooFit. Correct
  means: a fixed size is met, factors of a product have equal size, slices
  stay inside, one bad sample does not spoil the next.
* **Sample around the recursion.** Parameters read and drawn from several
  constraints, samples shuffled into one, discrete variables drawn and merged or
  mixed in. Correct means: every order of the events is equally likely, each event
  is kept whole and once, what is recorded of a parameter is what was used, and the
  random search for places ends.
* **Profilers.** Long loops over results that may be bad, missing or single, copies
  freed by hand, and searches on a graph whose shape is what came in. Correct
  means: the grid is covered once, the minimum is the minimum, the interval holds
  what it should, nothing is freed twice, and the search ends.
* **Fit results in trees.** One object takes in fit after fit and is written and
  overwritten through addresses that a tree keeps, among branches that may be missing or
  there twice. Correct means: the values of one fit stay together on all these ways,
  and a limit or an error never stands beside the value of another fit.
* **Fits.** An object with three flags that any caller may set up, fit, fit again and set
  again, a PDF whose parameters stay constant for good after an sPlot. Correct means: a
  result is of the setup its object has and is never replaced, and weights come from a
  fit to the data they are for.
* **Plots.** A flag in each configuration for a file that all with the same
  directory share, and that ROOT has open or not. Correct means: the stack has every
  plot once and in order behind its title, and no plot overwrites another one.
* **Blueprints.** Things declared in any order that depend on each other through
  two registrars, flags kept per object, and calls that fail half way. Correct means:
  a call succeeds exactly when all it needs is declared, and every object is on
  the workspace once and after what it is made of.
* **Job files.** State kept in files between runs of a script, runs killed at any
  moment, schedulers beside it. Correct means: no seed twice at a scan point, no
  job number twice, the whole grid, every job submitted once and none lost.

## 2. Modules

| Module | Models | Source |
|---|---|---|
| `ResultStore` | what the caller may expect of saving: results are accepted, stored in order, and the store closes when all are in | abstract |
| `ToyStudySave` | saving in full: every step of main thread, worker and environment | `ToyStudyStd.cpp` 65-157, 1201-1204, 1379-1591; `ToyStudyStd.h` 190-197, 404-407 |
| `ToyStudySaveProofs` | theorems about `ToyStudySave` | |
| `ToyStudyRead` | reading and evaluation | `ToyStudyStd.cpp` 159-196, 282-382, 734-800, 1206-1377 |
| `FoldFacts` | lemmas: folds over sequences by induction, for any operator | |
| `EasyFitReader` | EasyFit results and the loop that asks for them | `ToyStudyStd.cpp` 198-279, 1245-1253; `FeldmanCousinsProfiler.cpp` 251-262 |
| `ToyStudyResults` | a program that reads results of either kind | |
| `ToyStudyResultsProofs` | theorems about `ToyStudyRead` and `EasyFitReader`, composed in `ToyStudyResults` | |
| `ToyFactory` | generation for a tree of PDFs | `ToyFactoryStd.cpp` 52-88, 260-277, 475-915; `ToyFactoryStd.h` 135-183 |
| `ToySample` | `Generate` around it: parameters, shuffle, discrete variables, merging and mixing | `ToyFactoryStd.cpp` 72-142, 182-343, 353-444, 917-1049 |
| `ToyGeneration` | generation of toys, seen from both sides | |
| `ToySampleProofs` | theorems about `ToySample` and `ToyFactory`, composed in `ToyGeneration` | |
| `LevelSearch` | where a graph reaches a level; used by both profilers | `FeldmanCousinsProfiler.cpp` 336-384; `LikelihoodProfiler.cpp` 564-613 |
| `FeldmanCousins` | reading of nominal, data and toy results, the points of the plot, the intervals | `FeldmanCousinsProfiler.cpp` 38-288, 408-448, 489-634 |
| `LikelihoodProfile` | scan, reading, minimum and interval | `LikelihoodProfiler.cpp` 28-274 |
| `Profiles` | a program that uses one of the two profilers | |
| `ProfilesProofs` | theorems about `Profiles`: copies of pairs, grid, minimum, ends, intervals | |
| `FitResultTree` | `EasyFitResult`: taking in fits, copies, branches, entries written and read | `EasyFitResult.cpp` 24-349; `EasyFitResult.h` 110-330 |
| `EasyFit` | setup, options and the three parts of a fit, by several callers | `EasyFit.cpp` 38-483 |
| `SPlotFit2` | the sPlot fit, with the EasyFits, the PDFs and the file of starting values it shares | `SPlotFit2.cpp` 50-352 |
| `Fits` | a program that fits, or one that passes results of fits through a tree | |
| `FitsProofs` | theorems about `EasyFit`, `SPlotFit2` and `FitResultTree`, composed in `Fits` | |
| `PlotStack` | the pages and files of plots, alone and stacked | `Plot.cpp` 136-167, 499-611; `PlotSimultaneous.cpp` 47-506; `PlotConfig.cpp` 113-133; `ToyStudyStd.cpp` 396, 685-716 |
| `PlotStackProofs` | theorems about `PlotStack`: plots are kept, titles lead | |
| `Blueprint` | declaration and registration in numerobis | `builder/numerobis/blueprint/` |
| `JobFarm` | job builder, schedulers and submit script, with a batch system | `PBSJobBuilder.py` 101-211, `PBSJobScheduler.py` 14-48 |
| `JobFarmProofs` | theorems about `JobFarm`: types, seeds and names, submissions, no job lost, the grid | |
| `MC...` | finite instances for TLC | |

Compositions: `ToyStudySave` is checked against `ResultStore`
(`INSTANCE ResultStore WITH` a mapping of queues and tree to the store);
`EasyFitReader` joins the reader and the profiler that calls it; `SPlotFit2` extends
`EasyFit` with the users of its objects; `ToyStudyResults` joins `ToyStudyRead` and
`EasyFitReader`, `ToyGeneration` joins `ToySample` and `ToyFactory`, `Profiles` the two
profilers, both of which instantiate `LevelSearch`, `Fits` joins `SPlotFit2` and
`FitResultTree`; `PlotStack` joins plots, their configurations
and the toy study at one file; `JobFarm` joins two scripts and the batch system.

In `ToyStudyResults`, `ToyGeneration`, `Profiles` and `Fits` a program does one of two things, which it chooses at the
start (`wanted`, `task`, `program`; for the profiles the first call), because the code
has one hand its output to the other as values: the components of a pair share no state
while they run. Both are checked in one run, each for every choice of its own inputs.

### How state and actions correspond to the code

`ToyStudySave` keeps for each process `p` the program counters of its two
threads (`mpc`, `wpc`), `fate` (running, exited, killed), the member variables
(`accepting`, `enabled` for the queue, `queue`, `mutex`, `abort`), the worker's
local queue (`saver`) and the tree in memory (`filled`, `bound2`: the second
branch has an address); globally the lock (`flock`) and the file (`tree`,
`rows`, `seconds`, `corrupt`). `accepted`, `rows` and `seconds` also record the
history the properties speak about. An action is one
step between two accesses to something another thread, process or a signal can
see: `StoreFitResult` unlocks the mutex, `PushFitResult` puts the result into the
queue, `LockSaveFitResultMutex` waits for the mutex. `boost::mutex` does not
check its owner, so unlocking from the wrong thread just frees it. A fit result
is its process, the number of its call and whether it is a pair.

`ToyStudyRead` keeps a result as its place (pass, file, entry) with its seed and
run id. The files are lists of entries that are good, not okay, or NULL.
`held` is what the caller has taken. Reading is one action per entry, so that a
reader can be seen in the middle of a file; no other thread runs there (the
background reader is commented out in the code), and the calls of one user come
one after the other.

`EasyFitReader` needs the number of entries of each tree only. `queued` and
`delivered` are histories.

`ToyFactory` writes the recursion as a stack of frames, one for each open call
of `GenerateForPdf`, with the arguments and local variables that matter. A
sample is its number of entries. Yields are real numbers in the code: here they
are integers that count parts of an event (`Unit` parts make one), and the
instances use yields and fractions whose products are exact, so nothing is
gained or lost by the representation. The random generator may give any number.

`ToySample` takes the opposite view: the sizes of the samples that the recursion
appends are given (`parts`), and each event is a row of cells, a cell saying where
its value comes from (an event of the PDF, a turn of the discrete loop, neither).
`status` is the place in `Generate`; `Shuffle` is one turn of the inside-out
shuffle in `AppendDatasets`, `DrawPosition` one drawn position of
`MixMergeDatasets`. A parameter's value is the tag of what set it. `choices`
records the random numbers of the shuffle.

`FeldmanCousins` has one action per turn of the loop over results, `at` naming the
loop; `copies` is what the two local pointers point to. Vectors of differences are
bags, as only their counts are used. The end of the program is a value of `at`: the plot,
or the fault that ended it. `LikelihoodProfile` has one action per scan point; the
value of a variable is a whole multiple of the scan's step. `LevelSearch` compares
heights exactly (fractions) and rounds places to integers, with `Eps` for the
precision of the loop; an exact hit is therefore possible in the model as it is in
the code.

`FitResultTree` keeps of a value only the fit it comes from. `obj` has for each object
what the code keeps outside of the maps (`fixed`) and the parameters by kind and name; a
parameter is its value and the rest (limits, errors, flags), because a tree stores the rest
of the floating final ones only. `tree` has for each name the addresses of its branches,
which may be several, and the entries. `fitOf` is a history: the fit that an object has
taken in last or read from an entry, none after an exception or where a branch or a part of
the entry was not there. A fit is the number of its statuses and the names of the
parameters that the loops over them get to: they end at the first that is no `RooRealVar`.

`EasyFit` has one action per setter and one for `Fit`, whose three parts are
operators that change nothing where the code only warns. `PrepareFit` turns the options
into arguments (`args`). `pars` has for each parameter but the yields the PDF and the
dataset of the fit that moved it last and whether it is constant; PDFs may have parameters
in common (`Shape`). `SPlotFit2` adds its objects and the file of starting values, which a
user has written (`UserFiles`) or `WriteParametersFile`: reading it sets each parameter
that it lists and the PDF has, constant or free as its line says, and leaves the others.
There is one action per call, and `running` ends where the code uses a NULL pointer. `why` records for each
parameter what kept a call from fitting it to the data.

`PlotStack` has one action per call. A page is its kind, name, scale and the data it shows;
a file is its pages, and `disk.open` are the files ROOT has open for more pages. What a
`TCanvas` prints into a file depends on that set, not on the flag of the
configuration. `history` records the plots of each configuration and whether it alone
wrote to its file since that was opened.

`Blueprint` has one action per call of the user. An operator follows the recursion
of the registrars and threads the flags (`objects`) through it; a fault that ends
the program (`recursion`, `null`, `unexpected`, `deleted`) is a value of
`objects.fault`. What the objects are made of is the list of names only.

`JobFarm` has one action per access to a file: Python writes a file when it is
closed, so a file is there, empty, before it has its content, and `Steps` lists in
which order `create_jobs` opens and closes its files. A run ends early in two ways:
killed, it leaves what it has open empty (`KillBuild`); interrupted from the keyboard,
or by an exception, Python closes its files with the text they were given
(`InterruptBuild`; `late` if the last of them has no text yet). A job is its range of scan
points and its range of seeds. The scan options are floats in the script; the model
counts them in units of their last decimal place, as a job file prints them, and keeps
of the rounding what it can decide: whether a sum that should be the end of the scan is
above it (`over`, `EndLost`), as 0.1 + 0.2 is above 0.3. Rounding is thus taken to be
small against the unit, `--scan1-per-job` to be whole, and increments not negative. A file
that is written in part when the process dies is left out (job files and those of the
state are shorter than the buffer). `mishaps` records what the scripts do not guard
against (two builders at a time, one that ends among its job files or, interrupted,
between `max_seed` and `max_id`, a scheduler started beside another); each property
excepts exactly those that break it, and TLC finds it violated without the exception.

Left out of these modules: the wording of messages, times, the progress bar, the
values of parameters, leaks without consequences, and the numbers in a pull.

## 3. Runs

`tlc -config X.cfg M` with the module M that `PROJECT.json` names.

**Saving** (`MCToyStudySave`)

* `SaveTwoProcesses`: two symmetric processes, two results each, single or in
  pairs, signals at any step, lock files left behind by the dead. `FileExclusive`,
  `SignalsSpareTheFile`, `HalfAsynchronous`, `Conservation`,
  `FinishSavesEverything` and the refinement of `ResultStore` (`ImplementsStore`).
  Two processes are all that can compete for one lock; two results each let a worker
  save a batch, be late for a batch, or have the second result arrive while it
  waits for the lock.
* `SaveWithKills`: two processes that get the file name late and may be killed at
  any step; `TypeOK`, `MutexGivenBackByHolder`, and under `FairSpec` `CallsReturn`:
  `FinishFitResultSaving` returns from its join and `StoreFitResult` from its wait.
* `SavePairsSplit`, `SaveSignalSwallowed`: disagreements, see section 6.

Deadlock is checked in these runs: `Terminating` is the only way to stop, so no
combination of join, mutex, queue and lock gets stuck.

**Reading** (`MCToyStudyResults`)

* `ReadAndEvaluate`, results of RooFit: every kind of file and entry, with and without
  reference toys (seeds in different files, a seed used a third time, a run that is
  missing) and a limit on the number of toys, two passes, any order of calls;
  `OwnedOnce`, `ReadsWhatIsAsked`, `PairedByToy`. Two passes are what it takes to
  have results of an earlier pass in every container.
* `ReadAndEvaluate`, EasyFit results: a caller that asks for the number before each
  result, or one that calls in any order, while trees are queued and vanish, one of them
  empty. `DeliveredInOrder` for both callers; `CountIsHonest` (the counter
  is what is left, and zero means that nothing is; the types of both readers are part of
  it) and, under `FairSpec`, `ReadingEnds` for the first caller, which is the loop of
  `FeldmanCousinsProfiler`. Up to four queued trees with none to two entries: the first
  and the last entry of a tree, and the change from one tree to the next or to the same
  one again.
* `ReadAfterEmpty`: a disagreement.

**Generation** (`MCToyGeneration`)

* `Toys`, the sizes: fixed sizes for a product of a leaf and two sums with different fractions
  (1 to 12 events) and for a sum with proto data (all sizes in eighths of an event
  up to 12 events, and 200 events, where 5% are more than the rounding errors) and for
  a sum with proto data that has a sum in it (4, 8 and 12 events);
  extended samples of a simultaneous PDF with all kinds of PDFs, Poisson
  distributed numbers up to two, SIGABRT, two calls on the same factory or on two.
  `SizesMatch` (the size asked for is met, factors of a product have equal sizes),
  `ProtoSuffices` (with the types of both sides; a slice of the proto data is too short
  only for yields that are not those asked for, or for a sum in a sum that got a carried
  event after its slice was cut, and then by no more than two). With fractions in eighths twelve events
  give every remainder, the halves included.
* `Toys`, the events: up to five events, one or two discrete variables that always or
  sometimes get a value, that the PDF generates or not; constraints that share
  parameters, a file of parameters that is there or missing; samples of other columns,
  which are not appended. `ShuffleUniform`:
  each order of the events comes from exactly one sequence of random numbers.
  `MixedRight`: events stay whole, draws are used once, values are fresh.
  `ConstrainedAsRecorded`: a parameter that one constraint draws and none reads
  again from a file has the value that is recorded of it. `GenerationEnds` under
  `FairGeneration`: the loops end, and requests whose outcome is certain do not fail in
  the merge or for want of events.

**Profilers** (`MCProfiles`)

* `Profiles`: up to three results of the data and four of toys, in pairs, single,
  bad, or without the scan variable, in any order, at three places; scans of a
  grid of three samples in one and two variables, two scans; up to three results
  that are read. `GridOnce`, `MinIsMinimum`, `IntervalsCover`, `EndsExplained`
  (with the types of both). Three points give a graph that falls, rises, has its extremum inside
  or touches a level; four toys are enough for two at two places.

**Fits and their results** (`MCFits`)

* `Fits`: a program that fits, or one that takes in results; a behaviour is of one of them.
  The first has two EasyFits and one sPlot fit over two datasets and two PDFs with a
  parameter in common. One EasyFit is given options, strategies inside and outside of the
  range among them, and NULL pointers; the other one has the defaults; setters and fits come
  in any order. A file of starting values at first sets one parameter constant and the other
  free, and later is what the sPlot has written. `ResultIsOfTheSetup`,
  `WeightsExplained`, `GivenResultStays`. With two
  of each there is another EasyFit, PDF or dataset to take by mistake; that only one is
  `Tuned` bounds the state space, and the sPlot may use either. The state space
  is finite without another bound.
* The second program has two objects and one tree that is new or has an entry without
  branches; up to three fits taken in, of five kinds (with two statuses, with none, with
  another parameter floating, with more statuses than there are slots, with fewer
  parameters); copies, branches created, created twice and bound anew, two entries filled
  and read back, the file opened again. `ValuesStayTogether` (with the types of both programs). Two objects
  are the one that writes and the one that reads; the third fit meets what the first two left.

**Plots** (`MCPlotStack`)

* `PlotStack`: two configurations and the toy study in one directory, a plot with and one
  without a PDF, a simultaneous one with three types of a category made of two inputs, one
  type without a PDF, at most one without data; linear and logarithmic scales;
  stacks that are closed, opened again and renamed, two plots. `PlotsAreKept`
  (the stack has the plots, and every plot a file of its own, and the types) and
  `TitlesLeadTheirPlots`: behind the title of a category or slice stand all the plots of
  these data, one after the other, and no plot of a category or slice stands elsewhere.
  Plots of another call may follow them without a title, and do. Two plots are what
  a stack needs to lose, repeat or reorder one; the second may be in the same or in
  the other configuration. Deadlock is checked.

**Blueprints** (`MCBlueprint`)

* `Blueprint`: four elements and two PDFs that may depend on each other in a cycle,
  on a thing of the wrong kind or on one that is missing, two dimensions, two
  components, two workspaces; declared, declared again, assembled and registered in
  any order. `RegisteredIffComplete`, `DependantsFirst`, `FaultsExplained` (with the
  types). The state space is finite without a bound.

**Job files** (`MCJobFarm`)

* `JobFarm`: two runs of the builder with any of four command lines (none, a cut, an
  empty scan and one whose end is lost), two schedulers, the submit script, two of them
  at a time, any killed, and the builder interrupted, at any step, one kind of mishap.
  `UniqueSeeds`, `GridCovered`, `SubmittedRight`, `NoJobLost`,
  `JobFilesFresh`, `TypeOK`.

The runs for reading, generation, profilers, fits, blueprints and job files do not check
for deadlock: their programs end, or stop in the state that the run looks for.

### Bounds

Constants in the guards: `MaxCalls` (calls of one caller), `MaxPasses` (calls of
`ReadFitResults`), `MaxQueued` (queued trees), `MaxDraw` and `MaxPoisson` (Poisson
distributed numbers of events of a sample and of its parts), `CountModulus` (a small
modulus in place of 2^64), `MaxData`, `MaxToys`, `MaxRead` (results a profiler reads),
`MaxScans`, `MaxVars`, `MaxRuns`, `MaxAtATime`, `MaxMishaps`, `MaxFits` (fits an object
takes in), `MaxRows`, `MaxBranches` (branches of one name), `Tuned` (the
EasyFits that get options or NULL pointers), `MaxEmpty` (types without
data). `MaxCalls` and `MaxToys` of `PlotStack` are the plots and the evaluations. Scaled
numbers: `Steps` = 4 steps of the coarse scan in place of 100, `Samples` = 3 in place of
30, `FewToys` = 0 in place of 100 toys, `QueueLimit` = 1, `NumSlots` = 2 statuses in
place of 10, `Unit`, `EventParts` and `ProbUnit` parts of an event and of the
probability 1. `TreeEntries` are the entries of the trees of EasyFit results, `Given`
the fits that an `EasyFitResult` takes in. The properties speak about the order of steps
around a change of hands (queue to queue, tree to tree, frame to frame, run to run);
more repetitions meet the same changes again. For saving, reading, EasyFit results, the
samples around the recursion, the sizes of the trees that the theorems are about, job files, fits, sPlots, fit results in trees, the profilers
and the plots the proofs remove the bounds: none of them depends on their values.

### Fairness

* The worker thread is always scheduled: `WF` on its steps.
* The main thread finishes a call it has begun, and need not begin another:
  `WF` on the steps within a call only.
* Mutex and file lock are given back and taken again by others: to get one in
  the end takes `SF`. For the mutex `boost::mutex` gives it (the worker lets go
  of it and yields, or sleeps at least a second, between two attempts); for the
  file lock it is the random waiting time of at least one second between attempts,
  while the lock is held for one save.
* Lock files left behind by the dead are not in the run with liveness: nothing in the code would
  remove them.
* The caller of the EasyFit results goes on with its loop; a reader goes on with
  its files.
* `Generate` runs in one thread to its end: `WF` on its next step. A random
  position that is taken already is drawn again; that this ends is the chance
  of the generator, and only steps that take a new position count for `WF`.

## 4. Proofs

| Module | Theorem | States |
|---|---|---|
| `ToyStudySaveProofs` | `TypeCorrect` | `Spec => []TypeOK` |
| | `ResultsConserved` | `Spec => []Conservation` |
| | `FinishSaves` | `Spec => []FinishSavesEverything` |
| | `HalfAsynchrony` | `Spec => []HalfAsynchronous` |
| | `FileExclusion` | `Spec => []FileExclusive` |
| | `SignalSafety` | `Spec => []SignalsSpareTheFile` |
| | `MutexDiscipline` | `Spec => MutexGivenBackByHolder` |
| | `Refinement` | `Spec => ImplementsStore`, that is `Store!Spec` |
| `JobFarmProofs` | `JobFarmTypes` | `Spec => []TypeOK` |
| | `SeedsAreUnique` | `Spec => []UniqueSeeds` |
| | `JobFilesAreFresh` | `Spec => JobFilesFresh` |
| | `SubmissionsAreRight` | `Spec => []SubmittedRight` |
| | `NoJobIsLost` | `Spec => []NoJobLost` |
| | `GridIsCovered` | `Spec => []GridCovered` |
| `ToyStudyResultsProofs` | `OneOwner` | `Spec => []OwnedOnce` |
| | `AskedIsRead` | `Spec => []ReadsWhatIsAsked` |
| | `PairsAreToys` | `Spec => []PairedByToy` |
| | `EntriesInOrder` | `ResultsSpec => []DeliveredInOrder` |
| | `CountHolds` | `ResultsSpec => []CountIsHonest` |
| `ToySampleProofs` | `ParametersAsRecorded` | `GenerationSpec => []ConstrainedAsRecorded` |
| | `OrdersComeOnce` | `GenerationSpec => []ShuffleUniform` |
| | `SamplesMixRight` | `GenerationSpec => []MixedRight` |
| | `SamplesAreTyped` | `GenerationSpec => []TypeOK` |
| | `SizesAddUp` | `SumsOfWholes(P)` implies `GenerationSpec => []SizesMatch` |
| | `ProtoIsEnough` | `SumsOfWholes(P)` implies `GenerationSpec => [](ProtoSuffices /\ SlicesSuffice)` |
| `ProfilesProofs` | `OnlySinglesBreakTheLoop` | `Spec => []OnlySinglesBreak`, a part of `EndsExplained` |
| | `GridVisitedOnce` | `Spec => []GridOnce` |
| | `MinimumIsLeast` | `Spec => []MinIsMinimum` |
| | `EndsAreExplained` | `Spec => []EndsExplained` |
| | `IntervalsCoverTheirPoints` | `Spec => []IntervalsCover` |
| `FitsProofs` | `SPlotTypes` | `Spec => []TypeOK` |
| | `ResultOfTheSetup` | `Spec => []ResultIsOfTheSetup` |
| | `ResultStays` | `Spec => GivenResultStays` |
| | `WeightsAreExplained` | `Spec => []WeightsExplained` |
| | `FitsStayTogether` | `FitsSpec => []ValuesStayTogether` |
| `PlotStackProofs` | `PlotsAreAlwaysKept` | `Spec => []PlotsAreKept` |
| | `TitlesAlwaysLead` | `Spec => []TitlesLeadTheirPlots` |

The assumptions are those on the constants (`SaveAssumption`, `JobFarmAssumption`,
`ReadAssumption`, `ResultsAssumption`, `ToySampleAssumption`, `GenerationAssumption`,
`FeldmanCousinsAssumption`,
`ProfilesAssumption`, `EasyFitAssumption`, `SPlotAssumption`, `FitsAssumption`, `PlotStackAssumption`): their types; in
`JobFarm` that scan values are decimal numbers that do not fall and a job has one at
least (otherwise the loops over the scan do not end); for EasyFit results that all entries that may be
queued can be counted by an unsigned number. The theorems hold for any number of
processes, calls, runs, results, files, events, fits and plots, any trees and any options.

*Saving.* The properties are not inductive alone. `Conservation` needs to know
where the queues must be empty: the tree in memory holds unwritten results only
while the worker is at the step that fills it, and a worker that is done leaves no
result behind, because it leaves its loop only when it sees `accepting` false and
then both queues empty. `HalfAsynchronous` needs that the holder of the mutex is
known from the two program counters; `FileExclusive` that a process at the file
holds the lock; `SignalsSpareTheFile` that signals are handled wherever the file
may be damaged. The strengthening conjoins these facts; each is shown to hold initially and to be kept by
every action, one proof step per action. The refinement uses the same invariant:
`WriteTree` is `Commit`, the return from `JoinWorker` is `Close`, everything else
stutters or accepts or dies.

*Job files.* As long as no two builders run at a time and none ended among its
job files, every seed of every job, on the disk or submitted, is at most the
recorded `max_seed`, but for the jobs of the run under way; these are ordered by
the two loops: those of earlier rounds at the scan point of this step lie below its
next seed. When a run ends the largest seed of all its jobs is what it
writes. The same argument with job numbers and `max_id` gives `JobFilesFresh`. A
run that finds a file empty ends at once, which is why a run killed among its last
writes is harmless. An interrupted one leaves `max_seed` and `max_id` with their text,
one of them or none: the seeds are safe in each case; the numbers are not when it ends
between the two, which is the mishap `seeds_without_ids`.

*Submissions.* `SubmitInv` is inductive together with the invariant of the job
files. An empty job file is the one that a run has open (`EmptyInv`); a scheduler that
was not started beside the run does not meet it (`ApartInv`), and no submit script
names it, as the numbers in the scripts lie below the next one of the run, or
below the recorded one between runs (`ScriptsInv`). A submitted file that is
still there is the one that the only scheduler is about to move (`OnceInv`), so what
it submits next was not submitted; and as jobs only end beside it, the number of jobs
and its remaining places stay within the limit together (`LimitInv`). For
`NoJobLost` the invariant follows a job file as well: a run takes its number when it opens
the file, and only a scheduler that has submitted it whole moves it away, so each
number below the next one keeps its job (`KeptInv`); a run has written its control
file when it ends, so only files of a run under way may match none (`MatchInv`).
For `GridCovered` it is shown with division and remainder that each value of a scan is
in the range of exactly one job of it, so each pair of values in that of exactly one
position of the two loops; the invariant (`GridInv`) gives each position the numbers that
follow those of the positions before, each with a whole job of its range.

*Folds.* What the readers and the evaluation make of a sequence is a fold of the
community modules. The library has no induction that these provers can use, as its theorems
take an operator. `FoldFacts` gets around this with what the provers do have: a
set of natural numbers has a least element, which gives induction for a property stated as
a set, and a module with a constant operator, instantiated once per fold. From these it
proves what a fold is of the empty sequence and of one more element, what type it has, and
that the equation of a recursive function holds when a measure in the natural numbers goes
down with each call (`RecursionByMeasure`).

*Reading.* Every result in a container, in the hands of the caller or deleted was
read before the reader's place, and the queue of results to read holds none
twice; so what is read next is new, and every operation moves a result from one
owner to one other. For `ReadsWhatIsAsked` the invariant says of every step of a pass that
the places read so far are the good entries before the reader, cut at the number asked
for (`ReadingInv`); the good entries of more files have those of fewer at their
beginning, so a pass that stops early has read the first of all. For `PairedByToy` insertion
by seed and the choice of usable results use no result twice, and of a seed that
occurs twice there is no third, so the partner of a row is the other one.

*EasyFit results.* What was delivered, the rest of the open tree and the entries of the
queue make up the entries of all trees that were queued; each step takes the first
pending entry, opens the next tree or closes one that is at its end. The count
is a sum over the queue that leaves out trees that vanished; it stays below the modulus of
the counter because the whole queue does (`ResultsAssumption`), so it does not wrap and
is no more than what is pending. Between two counts it shrinks with what is delivered.

*Samples.* A recorded value was drawn by a constraint that is done, and if no other one
draws the parameter only a later constraint that reads it from the file takes its place
(`ParamsInv`). For `ShuffleUniform` the order is the last of orders of 1, 2, ... elements, each
made from the one before by one choice (`Shuffled`, `OrderInv`): the position of the
greatest element tells the choice, and `TakeBack` gives the order before, so the choices
read off the result are the ones that were made. For `MixedRight` the data are the events
of the samples so far, numbered from one sample to the next, each in one row (`AllEvents`,
`EventsInv`); appending in an order that is a permutation keeps that, merging leaves the
columns of the PDF alone, and mixing is a fold in which the position with `k` others below it
gets event `k` of the discrete sample (`RowsMixed`). The numbers of positions below are 0, 1, ...
without a gap (`Ranks`), so each of these events is used once and in order.

*Sizes.* `SizesMatch` and `SlicesSuffice` do not hold for every tree of PDFs: a sum
within a sum may return half an event less than its yield says, or get a carried event
that its slice was not cut for, and Poisson distributed
sizes may go beyond any proto data. The theorems are about the trees for which the
code's rounding is meant (`SumsOfWholes(P)`): sizes are fixed and positive; the sub PDFs
of a sum are in the set `P`, of leaves and products of such, which all round a yield to
the nearest whole event, and have no section of proto data of their own, as their yield
may be nothing; and the shares of a sum add up to its yield, which they do for fractions
each of whose parts of the yield is exact (`FractionsAddUp`). The PDFs 1 to 10 of the
instance are such a tree, with `P` = {3, 4, 5, 6, 8, 9}; the others show the rest.
Within a sum the events so far and the carried error make up the shares so far, and the
error is half an event at most (`CarryFacts`, `SharesUsed`): the share of the next sub
PDF plus the carry rounds to the share rounded plus the carry, also when the share is
half an event or nothing. The last share makes the sum whole, so what the sum returns is
its yield to within half an event. That the stack is inductive needs an open call to
know what the call above it is going to return (`Waiting`), which in these trees is its
yield, rounded. The factors of a product may then differ only if the yield is half an
event above a whole number (`TwoSizes`), which is the exception that the property makes.
Proto data for a yield have at least 5 % and two events more than the yield (`Ample`),
while the slice for a share begins within the shares before it and exceeds the share by
5 % and less than one event, so it ends within them (`SliceFits`).

*Profilers.* Within one call the copies of a pair are deleted and not replaced exactly
when a single result comes after a pair: the invariant ties the state of the
pointers to what the last container was. The sample of a variable in a scan is a digit
of the step; division by a power is division by the base again and again, so the
digits of two steps below the number of points agree only if the steps do (`Digits`).
The minimum so far is a usable value, and it or 0 is the least one so far (`Found`): when
the minimum is 0 and the next value, which is not less, takes its place, 0 stays the
least of them.

*Intervals.* The bisection is a recursive function of the two places it is between. A turn that moves
one of them brings them closer by one at least (`SearchStepGoesDown`), so its equation
holds and induction over the distance shows where it ends: it stays between the places it
begins with; what begins below the level stays below, and above above (`BisectKeeps`); and
it goes on for ever only if some place in between has exactly the height of the level. The
coarse scan stops at the first place beyond the level with the last place on the other side
before it, or an end of the graph (`CoarseScanFacts`). Together (`RiseFacts`, `FallFacts`):
the end of an interval is a crossing or an end of the graph, and what the search saw on the
inner side lies within it. That a graph is in ascending order, not empty and made of whole
numbers (`IsGraph`) follows from the types of what was read; a sum of numbers of toys
is zero only when each of them is, which explains the empty plot, and two results at
one place make the set of places smaller than the number of results, which explains the read
past the end. The invariants say that what a profiler printed is what the search finds in the graph it
still has (`FCPlotInv`, `ProfilePlotInv`). While proving this, one claim turned out to
be too strong: the places looked at from the left need not be within the end that was
looked for from the right, as the two scans look at different places where the number of steps does not divide
the width of the graph. The property is about the places of each search.

*Fits.* An object is good when its options are frozen into arguments once it is prepared,
a fit was done only with PDF and dataset known, and a result is that of its own PDF, dataset
and arguments (`GoodFit`). Every setter and each of the three parts of `Fit` leads from a
good object to a good one that keeps a result given out before; a step changes at most one
object. From there `ResultIsOfTheSetup` and `GivenResultStays` follow. For the weights
the invariant adds the types of parameters, sPlots and the file: if none of the five
reasons holds for a parameter, the EasyFit has the data and the PDF of the sPlot, has not
fitted and the parameter is free when it does, or it is free after the file was read, so the
fit moves it to these data, and being set constant does not change where it is from. The theorems about `Spec` of
`SPlotFit2` hold of `FitsSpec`, which implements it (`FitsAreFits`).

*Fit results in trees.* `ValuesOfOneFit` is not inductive: a result that reads an entry
has the values of one fit only if the entry has a value for each of its parameters, of
that fit, and its branches are where the addresses say. The invariant (`TreeInv`) adds
that a branch only has addresses of results that have its parameter (`AddressesIn`), that
an entry has as many values of each name as the tree has branches, each of the kind the
branch stores, and if it is of one fit then all parameters of that fit (`RowOf`), beside
which there may be what was left of others. Branches are added only where there are no entries, so none of this is lost when
a result is bound. The last branch with an address of a result is the one that remains
after `GetEntry` (`LastBoundIs`).

*Plots.* A call prints its pages one after the other, which is a fold over them
(`PrintPagesFacts`): each goes to the end of a stack that is open, and a plot to its own
file before. As long as one configuration alone wrote to a stack since it was opened, ROOT
has the stack open exactly when that configuration takes it to be (`StackOK`); so a call
either begins an empty file or goes on where the last one ended (`PrintedStep`).
The plots among pages, and the order of titles and plots, can be split where two calls
meet (`PlotsOfJoin`, `TitledJoin`). For the files of their own the proof follows where
the names in a call come from: the scales asked for are chosen from a list of different ones
(`ChosenFacts`), pulls and plain plots differ in kind, and the parts of a simultaneous plot in the
names of their types (`PartsOfFacts`). This showed what the property needs: the
types of the category and of its inputs must all have different names, and none the name
"summed" of the sum, or a part overwrites another. The code asks for neither. `PlotsAreKept`
has it as a condition (`DifferentNames`), which the instance that is checked
fulfils. No prover knows that a literal is a string; the three literals that are names are
added to the strings in the types (`Text`).

Only model-checked: liveness (it needs fairness, which the prover does not treat) and
the absence of deadlock; `SizesMatch` and `ProtoSuffices` for other trees than those of
`SumsOfWholes`, which the instance has; and the three properties of `Blueprint`. Its
registrars are recursive functions over all flags that objects may have, and `Register`
also calls itself along a cycle, where nothing decreases: that the functions fulfil
their equations does not follow from `RecursionByMeasure`.

## 5. What is not modelled, and why

* `FitResultPrinter` prints a result; `AbsFitter` is an interface of virtual functions
  with setters, and has no state that a sequence of calls could spoil.
* `EasyPdf`: maps from names to objects of RooFit, filled by one function for each
  kind of PDF, and most of its lines are these functions. A name that exists, or is
  missing, throws before the object of that name is made; of a function that makes
  several objects those made before the throw stay, each complete under its own name.
* `bobthebuilder`, `BuilderStd`, `fitmodelbrewery`: straight-line construction of
  PDFs from text; the `CreateTempRooObj` of the blueprints are calls of constructors.
* `config`: parsing of options with `boost::program_options` before a study
  begins. The options that matter are CONSTANTS of the modules.
* What is drawn on a page of a plot, and `CorrelationPlot`, which writes one page; profile
  plots of two variables, the graphs with errors and of Wilks'
  theorem, pulls and residuals of `ToyStudyStd`: numbers and figures without state. The options of
  `EasyFit` that are set and handed over like another one are not repeated.
* `roofit`: formulas over real numbers. `libjson`, `lhcb`, `cmake`, `external`:
  vendored or build files, which make up by far the most of the lines in `src/`;
  a map of this project's own control flow covers a small share of the whole.
* `jobmonitor.sh`: prints the output of `qstat` in a loop.

Within modelled components: the plain `bool` `accepting_fit_results_` is read
without a lock; the model takes a read to see the last write. Several
`ToyStudyStd` in one process share `abort_save_` and the signal handlers; the
model has one per process. All sPlots read and write one file of starting values, and
`set_startingvalues` is a choice of the call of `Fit`; yields, which are never set
constant, are left out of `pars`. Results that wait in a queue when their `ToyStudyStd`
ends, and copies of results in the profilers, are never deleted: leaks without a
consequence for the state.

## 6. Disagreements between code and documentation

Each of these is shown by a run that TLC ends with a counterexample;
`PROJECT.json` has the lines and the quotations.

* Saving: a single result at the head of a batch takes the second branch from
  the pairs behind it; a signal between the check of the flag and the reset of the
  handlers is lost until the next save, which it cancels.
* Reading: `EmptyResults` leaves the results of the earlier pass to the
  evaluation.

These were met too. The models contain them, as states or steps of the passing
runs (in brackets), but no run asks for them alone:

* Saving: a `StoreFitResult` that throws leaves the mutex unlocked
  (`StoreFitResult` with `named` false).
* Reading: an evaluation without a usable result reads beyond its container
  (`past_end`); a NULL entry, "neglected", ends in an endless loop (`spinning`).
* EasyFit results: a tree without entries is never closed (`EmptyTreeOpen`, the
  exception in `ReadingEnds`); the counter wraps for a caller that did not ask for
  it first, which is why `CountIsHonest` is about the other caller.
* Proto data: a slice is cut for a share of the yield (line 782) before the events that
  rounding lost are added to it (line 799), so that a sum in a sum may ask for entries
  behind its end, a null pointer (`past_proto`). The 5% that the comment at
  `ToyFactoryStd.cpp:778-781` says are for such a case are too few for small shares: of
  8 events a sum of 1.25 with a carried one gets the third of two entries.
  `SlicesSuffice` is what the comment says; it is proved for trees without such sums
  (`ProtoIsEnough`), and `ProtoSuffices` excepts just these (`CutBeforeCarry`).
* Job files: the value of a scan is a float that grows by `+=` (`PBSJobBuilder.py:190`) and is
  compared with the end (line 158), so that a scan from 0.2 to 0.3 by 0.1 has no job for
  0.3, which `--scan1-end`, "End value of scan parameter 1", is (`EndLost`, the exception in
  `GridCovered`).
* Generation: half an event is lost between an outer and an inner sum, and the
  factors of a product may differ by one for half events; no event drawn is taken for
  no yield given; a proto section of a sub PDF without events fails an assertion
  (`assert_failed`); one SIGABRT spoils all later samples of a factory
  (`RefuseAfterSigabrt`).
* Samples: the warning at `ToyFactoryStd.cpp:945`, "Will overwrite the already
  generated values", holds for probabilities below 1; at 1 the merge throws
  (`not_disjoint`). A variable that the PDF does not generate with a
  probability below 1 replaces events by copies of those before them and its column
  is lost. A fixed yield with a fraction ends the program without a PDF
  (line 137). A parameter that is constrained twice is recorded with its first
  value. After a merge the argument set of the sample itself is deleted (line 144), which
  is undefined and may end anyhow (`argset_deleted`). `ToyFactoryStd.h:106-108` speaks of a null pointer where data is returned.
* Profilers: a single result after a pair deletes both copies again
  (`deleted_twice`); a graph that ends above the level collapses the interval, which
  for less than some 370 toys is so for 3 sigma; an exact hit in the
  bisection never ends (`hangs`); no point with enough toys takes the front of an
  empty vector (`empty`); two results at one place read past the end of a vector
  (`past_end`); a minimum of exactly 0.0 is taken for none; a second scan is centred
  at the last sample of the first.
* Blueprints: declaring an element twice uses the deleted one (`deleted`); cyclic
  formulas recurse without end (`recursion`); on a second workspace dependants are
  null (`null`).
* Fit results: a fit without statuses leaves the number of statuses at that of the fit that
  was in the object before, as it is set inside the loop over them
  (`EasyFitResult.cpp:172`; `EasyFitResult.h:135` says "Number of stored fit status"), while
  the statuses are cleared. `FixedOf` excepts the number for such a fit alone.
* Fit results in trees: the parameters that a fit does not have stay in the object from
  the fit before, without an exception (`EasyFitResult.cpp:183-211`), and so do those behind one
  that is no `RooRealVar`; `ValuesOfOneFit` speaks about the parameters that the fit has.
  A tree without a branch of a parameter clears its value when the
  object is bound; a conversion that ends by an exception leaves a mixture of two fits, and so
  does reading with some branches bound (`fitOf` blank).
* Fits: the weights of an sPlot with an EasyFit are those of whatever data that EasyFit
  was fitted to (`otherData`; `SPlotFit2.h:104` says "Fit the pdf to the data and extract
  sweighted datasets afterwards."). MINOS runs on the set of parameters after it was
  switched off (`EasyFit.cpp:161`; `EasyFit.h:340`: "Requires @ref fc_minos_ to be set to
  true."). The minimizers that `EasyFit.h:172` lists as "Allowed combinations" are not
  asked for: `CheckMinimizerCombiOk` is called nowhere. An sPlot without a PDF or data
  crashes (`FitCrashes`); the PDF of the EasyFit is taken when the sPlot is made, and may
  be NULL then; parameters stay constant after an sPlot, so a later fit of this PDF, or of
  one that has some of them, does not move them (`constantBefore`); the file that
  `WriteParametersFile` writes then has them constant, and starting values read from it
  are not fitted (`constantInFile`).
* Plots: a stack that is closed and used again, or used by another configuration, is
  overwritten (`Plot.h:127-129`: "Every plot being created will be appended to a file
  called AllPlots.pdf"); a configuration whose file another one closed takes it to be open
  still (`plot_stack_open_`, "Stack already opened"), and each page replaces the file:
  both are why `PlotsAreKept` is about stacks that one configuration alone has open. The
  title of the sum has the name of the plot before it, and is printed before the stack is
  open if there is none (`PlotSimultaneousHandler`); two types or inputs of one name
  overwrite each other's files, which `PlotsAreKept` leaves out (`DifferentNames`).
* Job files: after a builder that ended among its job files, or with two at a time,
  seeds and names are used twice; after one that was interrupted between `max_seed` and
  `max_id`, names; two schedulers, or one killed before it moved a file, submit it
  twice; a scheduler beside the builder may submit an empty file (`mishaps`).

## 7. What could be added

* Saving and reading together: the rows that saving leaves are the entries that
  reading finds, over restarts of a job with the same file.
* Theorems for blueprints, that an object comes after what it is made of: `Register`
  would have to know the open calls, as `CheckReady` does; the names that are not among
  them are a measure.
