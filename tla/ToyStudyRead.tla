---------------------------- MODULE ToyStudyRead ----------------------------
(***************************************************************************)
(* Reading stored fit results back with toy::ToyStudyStd and evaluating    *)
(* them.  All of it runs in the caller's thread: ReadFitResults fills      *)
(* fit_results_read_queue_ from the configured files; the caller takes     *)
(* results with GetFitResult and returns them with ReleaseFitResult, or    *)
(* has EvaluateFitResults take what is left and evaluate it.               *)
(*                                                                         *)
(* Data is abstracted: an entry of a tree is its quality, its seed and its *)
(* run id; the evaluation keeps which fit result (and which reference fit  *)
(* result) goes into each row of evaluated_values_.                        *)
(***************************************************************************)
EXTENDS Integers, FiniteSets, SequencesExt

CONSTANTS
  Configs,      \* the possible settings, see the names below
  ReferenceId,  \* reference_toys_id
  MaxPasses     \* bound: calls of ReadFitResults

(* A file: what opening it and looking for the tree and its branches finds *)
(* and, for a tree of fit results, its entries.                            *)
FileKinds == {"zombie", "no_tree", "other", "easyfit", "results"}
Quality == {"good", "bad", "null"}

TreeEntry == [quality: Quality, seed: Nat, run: Nat]

ASSUME ReadAssumption ==
  /\ \A c \in Configs :
       /\ c.files \in Seq([kind: FileKinds, entries: Seq(TreeEntry)])
       /\ c.numToysRead \in Int
       /\ c.evaluateReference \in BOOLEAN
  /\ MaxPasses \in Nat

VARIABLES
  config,     \* config_toystudy_
  pc,         \* what the thread is doing
  outcome,    \* how the last call of ReadFitResults or EvaluateFitResults ended
  pass,       \* number of the last pass over the files
  fileAt,     \* current file of this pass
  entryAt,    \* next entry in it
  read,       \* what this pass has put into the read queue (results_stored)
  readQueue,  \* fit_results_read_queue_
  releaseQueue, \* fit_results_release_queue_
  held,       \* results the caller took and has not released
  fitResults, \* fit_results_
  bySeed,     \* fit_results_by_seed_, in order of insertion
  bookkeep,   \* fit_results_bookkeep_
  deleted,    \* results that were deleted
  evaluated,  \* rows of evaluated_values_
  easyFiles   \* results_files_easyfit_, as positions in files

position == <<config, pass, fileAt, entryAt, read>>
stored == <<fitResults, bySeed, bookkeep>>
vars == <<config, pc, outcome, pass, fileAt, entryAt, read, readQueue,
          releaseQueue, held, fitResults, bySeed, bookkeep, deleted, evaluated,
          easyFiles>>

files == config.files                         \* read_results_filename_treename
NumToysRead == config.numToysRead             \* num_toys_read, all if < 1
EvaluateReference == config.evaluateReference \* evaluate_reference_toys

NoFit == [pass |-> 0]
Container == [pass: 1..MaxPasses, file: Nat, entry: Nat, seed: Nat, run: Nat]

TypeOK ==
  /\ config \in Configs
  /\ pc \in {"idle", "reading", "spinning", "past_end", "gone"}
  /\ outcome \in {"none", "ok", "cannot_read", "cannot_evaluate"}
  /\ pass \in 0..MaxPasses
  /\ fileAt \in 1..Len(files) + 1
  /\ entryAt \in Nat
  /\ read \in Seq(Container)
  /\ readQueue \in Seq(Container)
  /\ releaseQueue \in Seq(Container)
  /\ held \subseteq Container
  /\ fitResults \in Seq(Container)
  /\ bySeed \in Seq(Container)
  /\ bookkeep \in Seq(Container)
  /\ deleted \subseteq Container
  /\ evaluated \in Seq([fit: Container, reference: Container \cup {NoFit}])
  /\ easyFiles \in Seq(1..Len(files))

Init ==
  /\ config \in Configs
  /\ pc = "idle"
  /\ outcome = "none"
  /\ pass = 0
  /\ fileAt = Len(files) + 1
  /\ entryAt = 1
  /\ read = <<>>
  /\ readQueue = <<>>
  /\ releaseQueue = <<>>
  /\ held = {}
  /\ fitResults = <<>>
  /\ bySeed = <<>>
  /\ bookkeep = <<>>
  /\ deleted = {}
  /\ evaluated = <<>>
  /\ easyFiles = <<>>

-----------------------------------------------------------------------------
(* Reading.                                                                *)

CannotRead == files = <<>> \/ fitResults # <<>>

ReadFitResults ==
  /\ pc = "idle"
  /\ ~CannotRead
  /\ pass < MaxPasses
  /\ pc' = "reading"
  /\ pass' = pass + 1
  /\ fileAt' = 1
  /\ entryAt' = 1
  /\ read' = <<>>
  /\ UNCHANGED <<config, outcome, readQueue, releaseQueue, held, stored,
                 deleted, evaluated, easyFiles>>

ReadFitResultsThrows ==
  /\ pc = "idle"
  /\ CannotRead
  /\ outcome' = "cannot_read"
  /\ UNCHANGED <<pc, position, readQueue, releaseQueue, held, stored, deleted,
                 evaluated, easyFiles>>

EnoughRead(results) == NumToysRead > 0 /\ Len(results) >= NumToysRead

AtFile(kinds) ==
  /\ pc = "reading"
  /\ fileAt <= Len(files)
  /\ files[fileAt].kind \in kinds

(* A file that cannot be used is reported and skipped.                     *)
SkipFile ==
  /\ AtFile({"zombie", "no_tree", "other"})
  /\ fileAt' = fileAt + 1
  /\ UNCHANGED <<config, pc, outcome, pass, entryAt, read, readQueue,
                 releaseQueue, held, stored, deleted, evaluated, easyFiles>>

QueueEasyFitFile ==
  /\ AtFile({"easyfit"})
  /\ easyFiles' = Append(easyFiles, fileAt)
  /\ fileAt' = fileAt + 1
  /\ UNCHANGED <<config, pc, outcome, pass, entryAt, read, readQueue,
                 releaseQueue, held, stored, deleted, evaluated>>

Entries == files[fileAt].entries

ContainerAt(e) ==
  [pass |-> pass, file |-> fileAt, entry |-> e,
   seed |-> Entries[e].seed, run |-> Entries[e].run]

AtEntry(quality) ==
  /\ AtFile({"results"})
  /\ ~EnoughRead(read) \/ entryAt = 1
  /\ entryAt <= Len(Entries)
  /\ Entries[entryAt].quality = quality

(* Every entry ends with PurgeReleasedFitResults.                          *)
PurgeReleased == {releaseQueue[i] : i \in 1..Len(releaseQueue)}

ReadGoodEntry ==
  /\ AtEntry("good")
  /\ read' = Append(read, ContainerAt(entryAt))
  /\ readQueue' = Append(readQueue, ContainerAt(entryAt))
  /\ entryAt' = entryAt + 1
  /\ deleted' = deleted \cup PurgeReleased
  /\ releaseQueue' = <<>>
  /\ UNCHANGED <<config, pc, outcome, pass, fileAt, held, stored, evaluated,
                 easyFiles>>

(* Faulty variant: a result that is not okay is deleted but queued too.    *)
BugBadEntryQueued ==
  /\ AtEntry("bad")
  /\ deleted' = deleted \cup PurgeReleased \cup {ContainerAt(entryAt)}
  /\ readQueue' = Append(readQueue, ContainerAt(entryAt))
  /\ releaseQueue' = <<>>
  /\ entryAt' = entryAt + 1
  /\ UNCHANGED <<config, pc, outcome, pass, fileAt, read, held, stored,
                 evaluated, easyFiles>>

NeglectBadEntry ==
  /\ AtEntry("bad")
  /\ deleted' = deleted \cup PurgeReleased \cup {ContainerAt(entryAt)}
  /\ releaseQueue' = <<>>
  /\ entryAt' = entryAt + 1
  /\ UNCHANGED <<config, pc, outcome, pass, fileAt, read, readQueue, held,
                 stored, evaluated, easyFiles>>

(* A NULL entry is reported as neglected; then comes while (true) {}.      *)
SpinAtNullEntry ==
  /\ AtEntry("null")
  /\ pc' = "spinning"
  /\ UNCHANGED <<outcome, position, readQueue, releaseQueue, held, stored,
                 deleted, evaluated, easyFiles>>

FileFinished ==
  /\ AtFile({"results"})
  /\ entryAt > Len(Entries) \/ (EnoughRead(read) /\ entryAt > 1)

(* Faulty variant: the loop over the files is not left when enough results *)
(* have been read.                                                         *)
BugReadOn ==
  /\ FileFinished
  /\ fileAt' = fileAt + 1
  /\ entryAt' = 1
  /\ UNCHANGED <<config, pc, outcome, pass, read, readQueue, releaseQueue, held,
                 stored, deleted, evaluated, easyFiles>>

FinishFile ==
  /\ FileFinished
  /\ fileAt' = IF EnoughRead(read) THEN Len(files) + 1 ELSE fileAt + 1
  /\ entryAt' = 1
  /\ UNCHANGED <<config, pc, outcome, pass, read, readQueue, releaseQueue, held,
                 stored, deleted, evaluated, easyFiles>>

FinishReading ==
  /\ pc = "reading"
  /\ fileAt > Len(files)
  /\ pc' = "idle"
  /\ outcome' = "ok"
  /\ UNCHANGED <<position, readQueue, releaseQueue, held, stored, deleted,
                 evaluated, easyFiles>>

-----------------------------------------------------------------------------
(* Use by the caller.                                                      *)

(* With an empty queue the caller gets null pointers.                      *)
GetFitResult ==
  /\ pc = "idle"
  /\ readQueue # <<>>
  /\ held' = held \cup {Head(readQueue)}
  /\ readQueue' = Tail(readQueue)
  /\ UNCHANGED <<pc, outcome, position, releaseQueue, stored, deleted,
                 evaluated, easyFiles>>

ReleaseFitResult ==
  /\ pc = "idle"
  /\ \E c \in held :
       /\ held' = held \ {c}
       /\ releaseQueue' = Append(releaseQueue, c)
  /\ UNCHANGED <<pc, outcome, position, readQueue, stored, deleted, evaluated,
                 easyFiles>>

(* "(deprecated?)": only fit_results_ is cleared.                          *)
EmptyResults ==
  /\ pc = "idle"
  /\ fitResults' = <<>>
  /\ UNCHANGED <<pc, outcome, position, readQueue, releaseQueue, held, bySeed,
                 bookkeep, deleted, evaluated, easyFiles>>

(* ~ToyStudyStd deletes what was evaluated, not what waits in the queues.  *)
Destruct ==
  /\ pc = "idle"
  /\ pc' = "gone"
  /\ deleted' = deleted \cup {bookkeep[i] : i \in 1..Len(bookkeep)}
  /\ UNCHANGED <<outcome, position, readQueue, releaseQueue, held, stored,
                 evaluated, easyFiles>>

-----------------------------------------------------------------------------
(* Evaluation.                                                             *)

(* std::multimap::insert: behind the results with the same seed.           *)
InsertBySeed(sorted, c) ==
  InsertAt(sorted,
           Cardinality({i \in 1..Len(sorted) : sorted[i].seed <= c.seed}) + 1, c)

(* The multimap's order: by seed, equal seeds in order of insertion.       *)
InSeedOrder(results) ==
  FoldLeft(LAMBDA sorted, c : InsertBySeed(sorted, c), <<>>, results)

(* std::multimap::count.                                                   *)
Occurrences(results, seed) ==
  Cardinality({i \in 1..Len(results) : results[i].seed = seed})

(* BuildEvaluationArgSet for reference toys: the fit with the reference id *)
(* and the other one with the same seed, if the seed occurs exactly twice. *)
Partners(results, c) ==
  {i \in 1..Len(results) : results[i].seed = c.seed /\ results[i].run # c.run}

(* Faulty variant: the run id of the fit is not looked at.                 *)
BugAnyRunPaired(results, c) ==
  /\ Occurrences(results, c.seed) = 2
  /\ Partners(results, c) # {}

HasReference(results, c) ==
  /\ Occurrences(results, c.seed) = 2
  /\ c.run = ReferenceId
  /\ Partners(results, c) # {}

(* BuildEvaluationArgSet returns an empty set for a result it cannot use.  *)
Usable(results, c) == EvaluateReference => HasReference(results, c)

Row(results, c) ==
  [fit |-> c,
   reference |-> IF EvaluateReference
                 THEN results[CHOOSE i \in Partners(results, c) : TRUE]
                 ELSE NoFit]

(* The rows of evaluated_values_: the first usable result starts the data  *)
(* set, the others follow only if fit_results_ holds more than one result. *)
UsableOf(results) ==
  FoldLeft(LAMBDA usable, c : IF Usable(results, c) THEN Append(usable, c)
                              ELSE usable,
           <<>>, InSeedOrder(results))

RowsOf(results, numFits) ==
  LET usable == UsableOf(results)
      kept   == IF numFits > 1 \/ usable = <<>> THEN usable
                ELSE <<Head(usable)>>
  IN  [i \in 1..Len(kept) |-> Row(results, kept[i])]

EvaluateFitResults ==
  LET fits    == fitResults \o readQueue
      results == bySeed \o readQueue
      rows    == RowsOf(results, Len(fits))
  IN  /\ pc = "idle"
      /\ readQueue' = <<>>
      /\ fitResults' = fits
      /\ bySeed' = results
      /\ bookkeep' = bookkeep \o readQueue
      /\ \/ /\ fits = <<>>
            /\ outcome' = "cannot_evaluate"
            /\ UNCHANGED <<pc, evaluated>>
         \/ \* no usable result: the iterator is dereferenced past the end
            /\ fits # <<>> /\ rows = <<>>
            /\ pc' = "past_end"
            /\ UNCHANGED <<outcome, evaluated>>
         \/ /\ fits # <<>> /\ rows # <<>>
            /\ outcome' = "ok"
            /\ evaluated' = rows
            /\ UNCHANGED pc
      /\ UNCHANGED <<position, releaseQueue, held, deleted, easyFiles>>

-----------------------------------------------------------------------------
Reading ==
  \/ SkipFile \/ QueueEasyFitFile \/ ReadGoodEntry \/ NeglectBadEntry
  \/ SpinAtNullEntry \/ FinishFile \/ FinishReading

Next ==
  \/ ReadFitResults \/ ReadFitResultsThrows \/ Reading
  \/ GetFitResult \/ ReleaseFitResult \/ EmptyResults \/ EvaluateFitResults
  \/ Destruct

Spec == Init /\ [][Next]_vars

-----------------------------------------------------------------------------
(* Safety.                                                                 *)

Elements(s) == {s[i] : i \in 1..Len(s)}

(* A result is in the hands of one owner only, and nobody holds a result   *)
(* that has been deleted: the caller, the three containers and the two     *)
(* queues never share one, whatever the order of the calls.                *)
OwnedOnce ==
  /\ held \cap (Elements(readQueue) \cup Elements(releaseQueue)
                \cup Elements(bookkeep)) = {}
  /\ Elements(readQueue) \cap (Elements(releaseQueue) \cup Elements(bookkeep)) = {}
  /\ Elements(releaseQueue) \cap Elements(bookkeep) = {}
  /\ Elements(fitResults) \cup Elements(bySeed) \subseteq Elements(bookkeep)
  /\ deleted \cap (held \cup Elements(readQueue) \cup Elements(releaseQueue)) = {}
  /\ pc # "gone" => deleted \cap Elements(bookkeep) = {}

(* The good entries of all usable files, in the order of the files.        *)
UpTo(n) == [i \in 1..n |-> i]

GoodEntriesOf(list, i) ==
  FoldLeft(LAMBDA good, j : IF list[i].entries[j].quality = "good"
                            THEN Append(good, <<i, j>>) ELSE good,
           <<>>, UpTo(Len(list[i].entries)))

GoodEntries ==
  FoldLeft(LAMBDA good, i : good \o (IF files[i].kind = "results"
                                     THEN GoodEntriesOf(files, i) ELSE <<>>),
           <<>>, UpTo(Len(files)))

(* A pass over the files reads the first num_toys_read good entries, in    *)
(* order and each once, or all of them.                                    *)
ReadsWhatIsAsked ==
  (pc = "idle" /\ pass > 0) =>
    LET wanted == IF NumToysRead > 0 /\ NumToysRead < Len(GoodEntries)
                  THEN SubSeq(GoodEntries, 1, NumToysRead)
                  ELSE GoodEntries
    IN  [i \in 1..Len(read) |-> <<read[i].file, read[i].entry>>] = wanted

(* With reference toys each row compares the fit with the reference id to  *)
(* another run of the same toy, and each toy gives one row at most.        *)
PairedByToy ==
  EvaluateReference =>
    /\ \A i \in 1..Len(evaluated) :
         /\ evaluated[i].fit.run = ReferenceId
         /\ evaluated[i].reference.run # ReferenceId
         /\ evaluated[i].reference.seed = evaluated[i].fit.seed
    /\ \A i, j \in 1..Len(evaluated) :
         evaluated[i].fit.seed = evaluated[j].fit.seed => i = j

(* "Stored fit results are evaluated": after EmptyResults the evaluation   *)
(* is about the results read since.                                        *)
EvaluatesStoredResults ==
  (pc = "idle" /\ outcome = "ok" /\ fitResults # <<>>) =>
    \A i \in 1..Len(evaluated) : evaluated[i].fit \in Elements(fitResults)
=============================================================================
