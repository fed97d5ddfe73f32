------------------------ MODULE ToyStudyResultsProofs -----------------------
(***************************************************************************)
(* Proofs about ToyStudyRead, for any files and settings and any order of  *)
(* calls: a fit result has one owner and is deleted once; an evaluation    *)
(* pairs a result with the reference of its own toy; and a pass reads the  *)
(* good entries that were asked for, in the order of the files.            *)
(*                                                                         *)
(* The argument for the owners: a result is its place in the files, and    *)
(* the reader moves on with every one it makes, so that all results there  *)
(* are lie before the reader (Behind) and a new one is none of them.  No   *)
(* result is twice in the read queue (NoDuplicates), so that the one       *)
(* GetFitResult takes from its head is not behind it still.                *)
(*                                                                         *)
(* For the pairs: what EvaluateFitResults makes of the results it has read *)
(* is a fold over them, insertion by seed and then the choice of those     *)
(* with a reference.  Neither uses a result twice (Within), and a seed     *)
(* that occurs twice has no third result (NoThird), so that the reference  *)
(* of a row is the other one (RowsFacts).                                  *)
(*                                                                         *)
(* For what is read: the good entries are a fold over the files and their  *)
(* entries, and what a pass has read is those before the reader (AtPlace), *)
(* cut at the number that was asked for (Asked).  More entries have those  *)
(* of fewer at their beginning (GoodOfGrows, GoodBeforeGrows), so that a   *)
(* reader that stops early has the first of all.                           *)
(*                                                                         *)
(* And proofs about ToyStudyResults, for any trees, callers and width of   *)
(* the counter: the entries of the queued trees are handed out once each   *)
(* and in order, and a count promises no more than there is.               *)
(*                                                                         *)
(* The argument: the entries that were delivered and those pending make up *)
(* the entries of the queued trees (EasyInv).  Pending is a fold over the  *)
(* queue (Join), which loses its first tree when that is opened            *)
(* (AllEntriesFirst); opening a tree, loading an entry and closing each    *)
(* move at most one entry from pending to delivered (LoadKeeps).  What is  *)
(* counted is a sum over the queue (Total) which leaves out trees that     *)
(* vanished, thus no more than what is pending, and below the modulus of   *)
(* the unsigned counter, so that it does not wrap (CountFacts).            *)
(***************************************************************************)
EXTENDS ToyStudyResults, FiniteSetTheorems, SequenceTheorems, TLAPS

Fits == [pass: Nat, file: Nat, entry: Nat, seed: Nat, run: Nat]

Queues ==
  /\ readQueue \in Seq(Fits)
  /\ releaseQueue \in Seq(Fits)
  /\ bookkeep \in Seq(Fits)
  /\ fitResults \in Seq(Fits)
  /\ bySeed \in Seq(Fits)
  /\ held \subseteq Fits
  /\ deleted \subseteq Fits

Reader ==
  /\ config \in Configs
  /\ pass \in Nat
  /\ fileAt \in Nat \ {0}
  /\ entryAt \in Nat \ {0}

(* The result c comes before the next entry of the reader.                 *)
Passed(c) ==
  \/ c.pass < pass
  \/ c.pass = pass /\ c.file < fileAt
  \/ c.pass = pass /\ c.file = fileAt /\ c.entry < entryAt

Made ==
  held \cup deleted \cup Elements(readQueue) \cup Elements(releaseQueue)
    \cup Elements(bookkeep)

Behind == \A c \in Made : Passed(c)

NoDuplicates ==
  \A i, j \in 1..Len(readQueue) : readQueue[i] = readQueue[j] => i = j

IInv == Reader /\ Queues /\ Behind /\ NoDuplicates /\ OwnedOnce

-----------------------------------------------------------------------------
(* What the elements of a sequence are after the operations used here.     *)
LEMMA ElementsAppend ==
  ASSUME NEW S, NEW s \in Seq(S), NEW x \in S
  PROVE  Elements(Append(s, x)) = Elements(s) \cup {x}
  <1>1. Len(Append(s, x)) = Len(s) + 1 /\ Len(s) \in Nat
    OBVIOUS
  <1>2. \A i \in 1..Len(s) : Append(s, x)[i] = s[i]
    OBVIOUS
  <1>3. Append(s, x)[Len(s) + 1] = x
    OBVIOUS
  <1> QED BY <1>1, <1>2, <1>3 DEF Elements

LEMMA ElementsConcat ==
  ASSUME NEW S, NEW s \in Seq(S), NEW t \in Seq(S)
  PROVE  Elements(s \o t) = Elements(s) \cup Elements(t)
  <1>1. Len(s \o t) = Len(s) + Len(t) /\ Len(s) \in Nat /\ Len(t) \in Nat
    OBVIOUS
  <1>2. \A i \in 1..Len(s) : (s \o t)[i] = s[i]
    OBVIOUS
  <1>3. \A i \in 1..Len(t) : (s \o t)[Len(s) + i] = t[i]
    OBVIOUS
  <1>4. Elements(s) \cup Elements(t) \subseteq Elements(s \o t)
    BY <1>1, <1>2, <1>3 DEF Elements
  <1>5. ASSUME NEW i \in 1..Len(s \o t)
        PROVE  (s \o t)[i] \in Elements(s) \cup Elements(t)
    <2>1. CASE i <= Len(s)
      BY <2>1, <1>1, <1>2 DEF Elements
    <2>2. CASE i > Len(s)
      <3>1. i - Len(s) \in 1..Len(t) /\ Len(s) + (i - Len(s)) = i
        BY <2>2, <1>1
      <3> QED BY <3>1, <1>3 DEF Elements
    <2> QED BY <2>1, <2>2, <1>1
  <1> QED BY <1>4, <1>5 DEF Elements

LEMMA ElementsTail ==
  ASSUME NEW S, NEW s \in Seq(S), s # <<>>
  PROVE  /\ Elements(s) = {Head(s)} \cup Elements(Tail(s))
         /\ \A i \in 1..Len(Tail(s)) : i + 1 \in 1..Len(s) /\ Tail(s)[i] = s[i + 1]
         /\ Head(s) = s[1] /\ Head(s) \in S /\ 1 \in 1..Len(s)
  <1>1. Len(Tail(s)) = Len(s) - 1 /\ Len(s) \in Nat \ {0}
    OBVIOUS
  <1>2. \A i \in 1..Len(Tail(s)) : i + 1 \in 1..Len(s) /\ Tail(s)[i] = s[i + 1]
    BY <1>1
  <1>3. Head(s) = s[1] /\ Head(s) \in S /\ 1 \in 1..Len(s)
    BY <1>1
  <1>4. {Head(s)} \cup Elements(Tail(s)) \subseteq Elements(s)
    BY <1>2, <1>3 DEF Elements
  <1>5. ASSUME NEW i \in 1..Len(s)
        PROVE  s[i] \in {Head(s)} \cup Elements(Tail(s))
    <2>1. CASE i = 1
      BY <2>1, <1>3
    <2>2. CASE i # 1
      <3>1. i - 1 \in 1..Len(Tail(s)) /\ (i - 1) + 1 = i
        BY <2>2, <1>1
      <3> QED BY <3>1, <1>2 DEF Elements
    <2> QED BY <2>1, <2>2
  <1> QED BY <1>2, <1>3, <1>4, <1>5 DEF Elements

LEMMA ElementsEmpty == Elements(<<>>) = {}
BY DEF Elements

LEMMA ElementType ==
  ASSUME NEW S, NEW s \in Seq(S), NEW i \in 1..Len(s)
  PROVE  s[i] \in S
OBVIOUS

LEMMA ElementsOf ==
  ASSUME NEW S, NEW s \in Seq(S)
  PROVE  Elements(s) \subseteq S
BY DEF Elements

-----------------------------------------------------------------------------
(* The steps that leave all results where they are and move the reader on. *)
Moved ==
  \/ pass' = pass + 1
  \/ pass' = pass /\ fileAt' > fileAt
  \/ pass' = pass /\ fileAt' = fileAt /\ entryAt' >= entryAt

LEMMA MovedKeepsPassed ==
  ASSUME Reader, Reader', Moved, NEW c \in Fits, Passed(c)
  PROVE  Passed(c)'
  <1>1. c.pass \in Nat /\ c.file \in Nat /\ c.entry \in Nat
    BY DEF Fits
  <1> QED BY <1>1 DEF Reader, Moved, Passed

LEMMA MadeAreFits ==
  ASSUME Queues
  PROVE  Made \subseteq Fits
BY ElementsOf DEF Queues, Made

LEMMA ReaderOnly ==
  ASSUME IInv, Reader', Moved, pc' # "gone", pc # "gone",
         UNCHANGED <<readQueue, releaseQueue, held, fitResults, bySeed,
                     bookkeep, deleted>>
  PROVE  IInv'
  <1>0. /\ Elements(readQueue') = Elements(readQueue)
        /\ Elements(releaseQueue') = Elements(releaseQueue)
        /\ Elements(bookkeep') = Elements(bookkeep)
        /\ Elements(fitResults') = Elements(fitResults)
        /\ Elements(bySeed') = Elements(bySeed)
    OBVIOUS
  <1>1. Queues' /\ NoDuplicates' /\ OwnedOnce'
    <2>1. Queues' /\ NoDuplicates'
      BY DEF IInv, Queues, NoDuplicates
    <2>2. OwnedOnce'
      BY <1>0 DEF IInv, OwnedOnce
    <2> QED BY <2>1, <2>2
  <1>2. Made' = Made
    BY <1>0 DEF Made
  <1>3. Behind'
    BY <1>2, MadeAreFits, MovedKeepsPassed DEF IInv, Behind
  <1> QED BY <1>1, <1>3 DEF IInv

(* The entry that the reader is at, as a new result.                       *)
LEMMA NewFit ==
  ASSUME IInv, NEW quality, AtEntry(quality)
  PROVE  /\ ContainerAt(entryAt) \in Fits
         /\ ContainerAt(entryAt) \notin Made
         /\ ContainerAt(entryAt).pass = pass
         /\ ContainerAt(entryAt).file = fileAt
         /\ ContainerAt(entryAt).entry = entryAt
  <1>1. files \in Seq([kind: FileKinds, entries: Seq(TreeEntry)])
    BY ReadAssumption DEF IInv, Reader, files
  <1>2. fileAt \in 1..Len(files)
    <2>1. fileAt <= Len(files)
      BY DEF AtEntry, AtFile
    <2>2. Len(files) \in Nat
      BY <1>1
    <2>3. fileAt \in Nat \ {0}
      BY DEF IInv, Reader
    <2> QED BY <2>1, <2>2, <2>3
  <1>3. Entries \in Seq(TreeEntry)
    <2>1. files[fileAt] \in [kind: FileKinds, entries: Seq(TreeEntry)]
      BY <1>1, <1>2, ElementType, Zenon
    <2> QED BY <2>1 DEF Entries
  <1>4. entryAt \in 1..Len(Entries)
    BY <1>3 DEF IInv, Reader, AtEntry
  <1>5. Entries[entryAt] \in TreeEntry
    BY <1>3, <1>4, ElementType, Zenon
  <1>6. ContainerAt(entryAt) \in Fits
    BY <1>5 DEF TreeEntry, ContainerAt, Fits, IInv, Reader
  <1>7. /\ ContainerAt(entryAt).pass = pass
        /\ ContainerAt(entryAt).file = fileAt
        /\ ContainerAt(entryAt).entry = entryAt
    BY DEF ContainerAt
  <1>8. ~Passed(ContainerAt(entryAt))
    BY <1>7 DEF Passed, IInv, Reader
  <1> QED BY <1>6, <1>7, <1>8 DEF IInv, Behind

LEMMA InitIInv == Init => IInv
  <1> SUFFICES ASSUME Init PROVE IInv
    OBVIOUS
  <1>1. Reader
    <2>1. files \in Seq([kind: FileKinds, entries: Seq(TreeEntry)])
      BY ReadAssumption DEF Init, files
    <2>2. Len(files) + 1 \in Nat \ {0}
      BY <2>1
    <2> QED BY <2>2 DEF Init, Reader
  <1>2. Queues /\ NoDuplicates
    BY DEF Init, Queues, NoDuplicates
  <1>3. Behind
    BY ElementsEmpty DEF Init, Behind, Made
  <1>4. OwnedOnce
    BY ElementsEmpty DEF Init, OwnedOnce
  <1> QED BY <1>1, <1>2, <1>3, <1>4 DEF IInv

-----------------------------------------------------------------------------
(* Reading.                                                                *)
LEMMA StepReadGoodEntry ==
  ASSUME IInv, ReadGoodEntry
  PROVE  IInv'
  <1> DEFINE new == ContainerAt(entryAt)
  <1>1. new \in Fits /\ new \notin Made /\ new.pass = pass /\ new.file = fileAt
          /\ new.entry = entryAt
    BY NewFit DEF ReadGoodEntry
  <1>2. /\ readQueue' = Append(readQueue, new)
        /\ releaseQueue' = <<>>
        /\ deleted' = deleted \cup Elements(releaseQueue)
        /\ entryAt' = entryAt + 1
        /\ UNCHANGED <<config, pc, pass, fileAt, held, fitResults, bySeed, bookkeep>>
        /\ pc = "reading"
    BY DEF ReadGoodEntry, stored, PurgeReleased, Elements, AtEntry, AtFile
  <1> HIDE DEF new
  <1>3. readQueue \in Seq(Fits) /\ Elements(releaseQueue) \subseteq Fits
    BY ElementsOf DEF IInv, Queues
  <1>4. Elements(readQueue') = Elements(readQueue) \cup {new}
    BY <1>1, <1>2, <1>3, ElementsAppend
  <1>5. Elements(releaseQueue') = {} /\ Elements(bookkeep') = Elements(bookkeep)
          /\ Elements(fitResults') = Elements(fitResults)
          /\ Elements(bySeed') = Elements(bySeed)
    BY <1>2, ElementsEmpty
  <1>6. Reader' /\ Moved
    BY <1>2 DEF IInv, Reader, Moved
  <1>7. Queues'
    BY <1>1, <1>2, <1>3 DEF IInv, Queues
  <1>8. NoDuplicates'
    <2>1. \A i \in 1..Len(readQueue) : readQueue[i] # new
      BY <1>1 DEF Made, Elements
    <2>2. Len(readQueue') = Len(readQueue) + 1 /\ Len(readQueue) \in Nat
            /\ readQueue'[Len(readQueue) + 1] = new
            /\ \A i \in 1..Len(readQueue) : readQueue'[i] = readQueue[i]
      BY <1>1, <1>2, <1>3
    <2>3. \A i \in 1..Len(readQueue') :
            i \in 1..Len(readQueue) \/ i = Len(readQueue) + 1
      BY <2>2
    <2> QED BY <2>1, <2>2, <2>3 DEF IInv, NoDuplicates
  <1>9. Made' = Made \cup {new}
    BY <1>2, <1>4, <1>5 DEF Made
  <1>10. Behind'
    <2>1. \A c \in Fits : c = new => Passed(c)'
      BY <1>1, <1>2 DEF Passed, IInv, Reader
    <2>2. \A c \in Made : Passed(c)'
      BY <1>6, MadeAreFits, MovedKeepsPassed DEF IInv, Behind
    <2> QED BY <1>1, <1>9, <2>1, <2>2 DEF Behind
  <1>11. OwnedOnce'
    BY <1>1, <1>2, <1>4, <1>5 DEF IInv, OwnedOnce, Made
  <1> QED BY <1>6, <1>7, <1>8, <1>10, <1>11 DEF IInv

LEMMA StepNeglectBadEntry ==
  ASSUME IInv, NeglectBadEntry
  PROVE  IInv'
  <1> DEFINE new == ContainerAt(entryAt)
  <1>1. new \in Fits /\ new \notin Made /\ new.pass = pass /\ new.file = fileAt
          /\ new.entry = entryAt
    BY NewFit DEF NeglectBadEntry
  <1>2. /\ releaseQueue' = <<>>
        /\ deleted' = deleted \cup Elements(releaseQueue) \cup {new}
        /\ entryAt' = entryAt + 1
        /\ UNCHANGED <<config, pc, pass, fileAt, readQueue, held, fitResults,
                       bySeed, bookkeep>>
        /\ pc = "reading"
    BY DEF NeglectBadEntry, stored, PurgeReleased, Elements, AtEntry, AtFile
  <1> HIDE DEF new
  <1>3. Elements(releaseQueue) \subseteq Fits
    BY ElementsOf DEF IInv, Queues
  <1>4. Elements(releaseQueue') = {} /\ Elements(bookkeep') = Elements(bookkeep)
          /\ Elements(fitResults') = Elements(fitResults)
          /\ Elements(bySeed') = Elements(bySeed)
          /\ Elements(readQueue') = Elements(readQueue)
    BY <1>2, ElementsEmpty
  <1>5. Reader' /\ Moved
    BY <1>2 DEF IInv, Reader, Moved
  <1>6. Queues' /\ NoDuplicates'
    BY <1>1, <1>2, <1>3 DEF IInv, Queues, NoDuplicates
  <1>7. Made' = Made \cup {new}
    BY <1>2, <1>4 DEF Made
  <1>8. Behind'
    <2>1. \A c \in Fits : c = new => Passed(c)'
      BY <1>1, <1>2 DEF Passed, IInv, Reader
    <2>2. \A c \in Made : Passed(c)'
      BY <1>5, MadeAreFits, MovedKeepsPassed DEF IInv, Behind
    <2> QED BY <1>1, <1>7, <2>1, <2>2 DEF Behind
  <1>9. OwnedOnce'
    BY <1>1, <1>2, <1>4 DEF IInv, OwnedOnce, Made
  <1> QED BY <1>5, <1>6, <1>8, <1>9 DEF IInv

(* All other steps of ReadFitResults.                                      *)
LEMMA StepReaderOnly ==
  ASSUME IInv,
         \/ ReadFitResults \/ ReadFitResultsThrows \/ SkipFile
         \/ QueueEasyFitFile \/ SpinAtNullEntry \/ FinishFile \/ FinishReading
  PROVE  IInv'
  <1>1. UNCHANGED <<readQueue, releaseQueue, held, fitResults, bySeed,
                    bookkeep, deleted>>
    BY DEF ReadFitResults, ReadFitResultsThrows, SkipFile, QueueEasyFitFile,
       SpinAtNullEntry, FinishFile, FinishReading, stored
  <1>2. pc # "gone" /\ pc' # "gone"
    BY DEF ReadFitResults, ReadFitResultsThrows, SkipFile, QueueEasyFitFile,
       SpinAtNullEntry, FinishFile, FinishReading, FileFinished, AtEntry, AtFile
  <1>3. Reader' /\ Moved
    <2>1. CASE ReadFitResults
      BY <2>1 DEF ReadFitResults, IInv, Reader, Moved
    <2>2. CASE SkipFile \/ QueueEasyFitFile
      BY <2>2 DEF SkipFile, QueueEasyFitFile, IInv, Reader, Moved
    <2>3. CASE ReadFitResultsThrows \/ SpinAtNullEntry \/ FinishReading
      BY <2>3 DEF ReadFitResultsThrows, SpinAtNullEntry, FinishReading, position,
         IInv, Reader, Moved
    <2>4. CASE FinishFile
      <3>1. files \in Seq([kind: FileKinds, entries: Seq(TreeEntry)])
        BY ReadAssumption DEF IInv, Reader, files
      <3>2. Len(files) \in Nat /\ fileAt <= Len(files)
        BY <2>4, <3>1 DEF FinishFile, FileFinished, AtFile
      <3>3. fileAt' \in {Len(files) + 1, fileAt + 1} /\ entryAt' = 1
              /\ UNCHANGED <<config, pass>>
        BY <2>4 DEF FinishFile
      <3> QED BY <3>2, <3>3 DEF IInv, Reader, Moved
    <2> QED BY <2>1, <2>2, <2>3, <2>4
  <1> QED BY <1>1, <1>2, <1>3, ReaderOnly

-----------------------------------------------------------------------------
(* The calls of the user, for which the reader stands still.               *)
LEMMA StandStill ==
  ASSUME IInv, UNCHANGED position, Made' \subseteq Made
  PROVE  Reader' /\ Behind'
  <1>1. Reader' /\ Moved
    BY DEF IInv, Reader, Moved, position
  <1> QED BY <1>1, MadeAreFits, MovedKeepsPassed DEF IInv, Behind

LEMMA StepGetFitResult ==
  ASSUME IInv, GetFitResult
  PROVE  IInv'
  <1>1. /\ readQueue # <<>>
        /\ readQueue' = Tail(readQueue)
        /\ held' = held \cup {Head(readQueue)}
        /\ UNCHANGED position
        /\ UNCHANGED <<pc, releaseQueue, fitResults, bySeed, bookkeep, deleted>>
    BY DEF GetFitResult, stored
  <1>2. readQueue \in Seq(Fits)
    BY DEF IInv, Queues
  <1>3. /\ Elements(readQueue) = {Head(readQueue)} \cup Elements(readQueue')
        /\ \A i \in 1..Len(readQueue') :
             i + 1 \in 1..Len(readQueue) /\ readQueue'[i] = readQueue[i + 1]
        /\ Head(readQueue) = readQueue[1] /\ Head(readQueue) \in Fits
        /\ 1 \in 1..Len(readQueue)
    BY <1>1, <1>2, ElementsTail
  <1>4. NoDuplicates'
    BY <1>3 DEF IInv, NoDuplicates
  <1>5. Head(readQueue) \notin Elements(readQueue')
    <2>1. \A i \in 1..Len(readQueue') : readQueue'[i] # Head(readQueue)
      BY <1>3 DEF IInv, NoDuplicates
    <2> QED BY <2>1 DEF Elements
  <1>6. /\ Elements(releaseQueue') = Elements(releaseQueue)
        /\ Elements(bookkeep') = Elements(bookkeep)
        /\ Elements(fitResults') = Elements(fitResults)
        /\ Elements(bySeed') = Elements(bySeed)
    BY <1>1
  <1>7. Queues'
    BY <1>1, <1>2, <1>3 DEF IInv, Queues
  <1>8. Made' = Made
    BY <1>1, <1>3, <1>6 DEF Made
  <1>9. OwnedOnce'
    BY <1>1, <1>3, <1>5, <1>6 DEF IInv, OwnedOnce
  <1> QED BY <1>1, <1>4, <1>7, <1>8, <1>9, StandStill DEF IInv

LEMMA StepReleaseFitResult ==
  ASSUME IInv, ReleaseFitResult
  PROVE  IInv'
  <1>1. PICK c \in held : /\ held' = held \ {c}
                          /\ releaseQueue' = Append(releaseQueue, c)
    BY DEF ReleaseFitResult
  <1>2. UNCHANGED position
          /\ UNCHANGED <<pc, readQueue, fitResults, bySeed, bookkeep, deleted>>
    BY DEF ReleaseFitResult, stored
  <1>3. c \in Fits /\ releaseQueue \in Seq(Fits)
    BY <1>1 DEF IInv, Queues
  <1>4. /\ Elements(releaseQueue') = Elements(releaseQueue) \cup {c}
        /\ Elements(readQueue') = Elements(readQueue)
        /\ Elements(bookkeep') = Elements(bookkeep)
        /\ Elements(fitResults') = Elements(fitResults)
        /\ Elements(bySeed') = Elements(bySeed)
    BY <1>1, <1>2, <1>3, ElementsAppend
  <1>5. Queues' /\ NoDuplicates'
    BY <1>1, <1>2, <1>3 DEF IInv, Queues, NoDuplicates
  <1>6. Made' = Made
    BY <1>1, <1>2, <1>4 DEF Made
  <1>7. OwnedOnce'
    BY <1>1, <1>2, <1>4 DEF IInv, OwnedOnce
  <1> QED BY <1>2, <1>5, <1>6, <1>7, StandStill DEF IInv

LEMMA StepEmptyResults ==
  ASSUME IInv, EmptyResults
  PROVE  IInv'
  <1>1. UNCHANGED position /\ fitResults' = <<>>
          /\ UNCHANGED <<pc, readQueue, releaseQueue, held, bySeed, bookkeep, deleted>>
    BY DEF EmptyResults
  <1>2. /\ Elements(fitResults') = {}
        /\ Elements(releaseQueue') = Elements(releaseQueue)
        /\ Elements(readQueue') = Elements(readQueue)
        /\ Elements(bookkeep') = Elements(bookkeep)
        /\ Elements(bySeed') = Elements(bySeed)
    BY <1>1, ElementsEmpty
  <1>3. Queues' /\ NoDuplicates'
    BY <1>1 DEF IInv, Queues, NoDuplicates
  <1>4. Made' = Made
    BY <1>1, <1>2 DEF Made
  <1>5. OwnedOnce'
    BY <1>1, <1>2 DEF IInv, OwnedOnce
  <1> QED BY <1>1, <1>3, <1>4, <1>5, StandStill DEF IInv

LEMMA StepDestruct ==
  ASSUME IInv, Destruct
  PROVE  IInv'
  <1>1. /\ pc' = "gone"
        /\ pc = "idle"
        /\ deleted' = deleted \cup Elements(bookkeep)
        /\ UNCHANGED position
        /\ UNCHANGED <<readQueue, releaseQueue, held, fitResults, bySeed, bookkeep>>
    BY DEF Destruct, stored, Elements
  <1>2. /\ Elements(releaseQueue') = Elements(releaseQueue)
        /\ Elements(readQueue') = Elements(readQueue)
        /\ Elements(bookkeep') = Elements(bookkeep)
        /\ Elements(bySeed') = Elements(bySeed)
        /\ Elements(fitResults') = Elements(fitResults)
        /\ Elements(bookkeep) \subseteq Fits
    BY <1>1, ElementsOf DEF IInv, Queues
  <1>3. Queues' /\ NoDuplicates'
    BY <1>1, <1>2 DEF IInv, Queues, NoDuplicates
  <1>4. Made' = Made
    BY <1>1, <1>2 DEF Made
  <1>5. OwnedOnce'
    BY <1>1, <1>2 DEF IInv, OwnedOnce
  <1> QED BY <1>1, <1>3, <1>4, <1>5, StandStill DEF IInv

LEMMA StepEvaluateFitResults ==
  ASSUME IInv, EvaluateFitResults
  PROVE  IInv'
  <1>1. /\ readQueue' = <<>>
        /\ fitResults' = fitResults \o readQueue
        /\ bySeed' = bySeed \o readQueue
        /\ bookkeep' = bookkeep \o readQueue
        /\ UNCHANGED position
        /\ UNCHANGED <<releaseQueue, held, deleted>>
        /\ pc = "idle"
    BY DEF EvaluateFitResults
  <1>2. readQueue \in Seq(Fits) /\ fitResults \in Seq(Fits)
          /\ bySeed \in Seq(Fits) /\ bookkeep \in Seq(Fits)
    BY DEF IInv, Queues
  <1>3. /\ Elements(readQueue') = {}
        /\ Elements(releaseQueue') = Elements(releaseQueue)
        /\ Elements(fitResults') = Elements(fitResults) \cup Elements(readQueue)
        /\ Elements(bySeed') = Elements(bySeed) \cup Elements(readQueue)
        /\ Elements(bookkeep') = Elements(bookkeep) \cup Elements(readQueue)
    BY <1>1, <1>2, ElementsConcat, ElementsEmpty
  <1>4. Queues' /\ NoDuplicates'
    <2>1. fitResults' \in Seq(Fits) /\ bySeed' \in Seq(Fits) /\ bookkeep' \in Seq(Fits)
      BY <1>1, <1>2
    <2> QED BY <1>1, <2>1 DEF IInv, Queues, NoDuplicates
  <1>5. Made' = Made
    BY <1>1, <1>3 DEF Made
  <1>6. OwnedOnce'
    BY <1>1, <1>3 DEF IInv, OwnedOnce
  <1> QED BY <1>1, <1>4, <1>5, <1>6, StandStill DEF IInv

-----------------------------------------------------------------------------
LEMMA NextIInv == IInv /\ [Next]_vars => IInv'
  <1> SUFFICES ASSUME IInv, [Next]_vars PROVE IInv'
    OBVIOUS
  <1>1. CASE UNCHANGED vars
    <2>1. UNCHANGED <<config, pass, fileAt, entryAt, readQueue, releaseQueue, held,
                      fitResults, bySeed, bookkeep, deleted, pc>>
      BY <1>1 DEF vars
    <2>2. Reader' /\ Queues' /\ NoDuplicates'
      BY <2>1 DEF IInv, Reader, Queues, NoDuplicates
    <2>3. /\ Elements(readQueue') = Elements(readQueue)
          /\ Elements(releaseQueue') = Elements(releaseQueue)
          /\ Elements(bookkeep') = Elements(bookkeep)
          /\ Elements(fitResults') = Elements(fitResults)
          /\ Elements(bySeed') = Elements(bySeed)
      BY <2>1
    <2>4. OwnedOnce'
      BY <2>1, <2>3 DEF IInv, OwnedOnce
    <2>5. Behind'
      BY <2>1, <2>3 DEF IInv, Behind, Made, Passed
    <2> QED BY <2>2, <2>4, <2>5 DEF IInv
  <1>2. CASE ReadGoodEntry
    BY <1>2, StepReadGoodEntry
  <1>3. CASE NeglectBadEntry
    BY <1>3, StepNeglectBadEntry
  <1>4. CASE \/ ReadFitResults \/ ReadFitResultsThrows \/ SkipFile
             \/ QueueEasyFitFile \/ SpinAtNullEntry \/ FinishFile \/ FinishReading
    BY <1>4, StepReaderOnly
  <1>5. CASE GetFitResult
    BY <1>5, StepGetFitResult
  <1>6. CASE ReleaseFitResult
    BY <1>6, StepReleaseFitResult
  <1>7. CASE EmptyResults
    BY <1>7, StepEmptyResults
  <1>8. CASE EvaluateFitResults
    BY <1>8, StepEvaluateFitResults
  <1>9. CASE Destruct
    BY <1>9, StepDestruct
  <1> QED BY <1>1, <1>2, <1>3, <1>4, <1>5, <1>6, <1>7, <1>8, <1>9 DEF Next, Reading

(* For any files, settings and order of calls a fit result that was read   *)
(* is with the caller, in one of the queues or with the evaluation, never  *)
(* with two of them, and nobody has one that was deleted.                  *)
THEOREM OneOwner == Spec => []OwnedOnce
  <1>1. IInv => OwnedOnce
    BY DEF IInv
  <1> QED BY <1>1, InitIInv, NextIInv, PTL DEF Spec

-----------------------------------------------------------------------------
(* The folds of ToyStudyRead.                                              *)
Insert(p, sorted, c) == InsertBySeed(sorted, c)
Sorted == INSTANCE FoldFacts WITH op <- Insert

PickUsable(p, usable, c) ==
  IF p[1] => HasReference(p[2], c) THEN Append(usable, c) ELSE usable
Picked == INSTANCE FoldFacts WITH op <- PickUsable

-----------------------------------------------------------------------------
(* The rows of an evaluation.                                              *)

(* The elements of a come from different places of b.                      *)
Within(a, b) ==
  /\ \A i \in 1..Len(a) : \E m \in 1..Len(b) : a[i] = b[m]
  /\ \A i, j \in 1..Len(a) : i # j =>
       \E m, n \in 1..Len(b) : m # n /\ a[i] = b[m] /\ a[j] = b[n]

(* Within is transitive.                                                   *)
LEMMA WithinTransitive ==
  ASSUME NEW a, NEW b, NEW c, Within(a, b), Within(b, c)
  PROVE  Within(a, c)
  <1>1. \A i \in 1..Len(a) : \E m \in 1..Len(c) : a[i] = c[m]
    BY DEF Within
  <1>2. ASSUME NEW i \in 1..Len(a), NEW j \in 1..Len(a), i # j
        PROVE  \E m, n \in 1..Len(c) : m # n /\ a[i] = c[m] /\ a[j] = c[n]
    <2>1. PICK k, l \in 1..Len(b) : k # l /\ a[i] = b[k] /\ a[j] = b[l]
      BY <1>2 DEF Within
    <2>2. PICK m, n \in 1..Len(c) : m # n /\ b[k] = c[m] /\ b[l] = c[n]
      BY <2>1 DEF Within
    <2> QED BY <2>1, <2>2
  <1> QED BY <1>1, <1>2 DEF Within

(* A sequence with one more element, from a place of its own.              *)
LEMMA WithinAppend ==
  ASSUME NEW S, NEW a \in Seq(S), NEW s \in Seq(S), NEW c \in S, Within(a, s)
  PROVE  Within(a, Append(s, c)) /\ Within(Append(a, c), Append(s, c))
  <1> DEFINE t == Append(s, c)
             b == Append(a, c)
  <1>1. /\ Len(t) = Len(s) + 1 /\ Len(s) \in Nat /\ t[Len(s) + 1] = c
        /\ \A m \in 1..Len(s) : m \in 1..Len(t) /\ t[m] = s[m] /\ m # Len(s) + 1
        /\ Len(s) + 1 \in 1..Len(t)
    OBVIOUS
  <1>2. /\ Len(b) = Len(a) + 1 /\ Len(a) \in Nat /\ b[Len(a) + 1] = c
        /\ \A i \in 1..Len(a) : b[i] = a[i]
        /\ \A i \in 1..Len(b) : i \in 1..Len(a) \/ i = Len(a) + 1
    OBVIOUS
  <1> HIDE DEF t, b
  <1>3. Within(a, t)
    <2>1. \A i \in 1..Len(a) : \E m \in 1..Len(t) : a[i] = t[m]
      BY <1>1 DEF Within
    <2>2. ASSUME NEW i \in 1..Len(a), NEW j \in 1..Len(a), i # j
          PROVE  \E m, n \in 1..Len(t) : m # n /\ a[i] = t[m] /\ a[j] = t[n]
      <3>1. PICK m, n \in 1..Len(s) : m # n /\ a[i] = s[m] /\ a[j] = s[n]
        BY <2>2 DEF Within
      <3> QED BY <1>1, <3>1
    <2> QED BY <2>1, <2>2 DEF Within
  <1>4. Within(b, t)
    <2>1. ASSUME NEW i \in 1..Len(b)
          PROVE  \E m \in 1..Len(t) : b[i] = t[m]
      <3>1. CASE i \in 1..Len(a)
        <4>1. PICK m \in 1..Len(t) : a[i] = t[m]
          BY <1>3, <3>1 DEF Within
        <4> QED BY <1>2, <3>1, <4>1
      <3>2. CASE i = Len(a) + 1
        BY <1>1, <1>2, <3>2
      <3> QED BY <1>2, <3>1, <3>2
    <2>2. ASSUME NEW i \in 1..Len(b), NEW j \in 1..Len(b), i # j
          PROVE  \E m, n \in 1..Len(t) : m # n /\ b[i] = t[m] /\ b[j] = t[n]
      <3>1. CASE i \in 1..Len(a) /\ j \in 1..Len(a)
        <4>1. PICK m, n \in 1..Len(t) : m # n /\ a[i] = t[m] /\ a[j] = t[n]
          BY <1>3, <2>2, <3>1 DEF Within
        <4> QED BY <1>2, <3>1, <4>1
      <3>2. CASE i \in 1..Len(a) /\ j = Len(a) + 1
        <4>1. PICK m \in 1..Len(s) : a[i] = s[m]
          BY <3>2 DEF Within
        <4> QED BY <1>1, <1>2, <3>2, <4>1
      <3>3. CASE j \in 1..Len(a) /\ i = Len(a) + 1
        <4>1. PICK n \in 1..Len(s) : a[j] = s[n]
          BY <3>3 DEF Within
        <4> QED BY <1>1, <1>2, <3>3, <4>1
      <3> QED BY <1>2, <2>2, <3>1, <3>2, <3>3
    <2> QED BY <2>1, <2>2 DEF Within
  <1> QED BY <1>3, <1>4 DEF t, b

(* What InsertAt keeps.                                                    *)
LEMMA InsertFacts ==
  ASSUME NEW S, NEW a \in Seq(S), NEW c \in S, NEW k \in 1..Len(a) + 1
  PROVE  InsertAt(a, k, c) \in Seq(S) /\ Within(InsertAt(a, k, c), Append(a, c))
  <1> DEFINE b == InsertAt(a, k, c)
             d == Append(a, c)
             At(i) == IF i < k THEN i ELSE IF i = k THEN Len(a) + 1 ELSE i - 1
  <1>1. Len(a) \in Nat /\ k \in Nat \ {0}
    OBVIOUS
  <1>2. /\ b \in Seq(S) /\ Len(b) = Len(a) + 1
        /\ \A i \in 1..Len(a) + 1 :
             b[i] = IF i < k THEN a[i] ELSE IF i = k THEN c ELSE a[i - 1]
    <2> DEFINE u == SubSeq(a, 1, k - 1)
               v == SubSeq(a, k, Len(a))
    <2>1. u \in Seq(S) /\ Len(u) = k - 1 /\ \A i \in 1..k - 1 : u[i] = a[i]
      OBVIOUS
    <2>2. v \in Seq(S) /\ Len(v) = Len(a) - k + 1
          /\ \A i \in 1..Len(a) - k + 1 : v[i] = a[k + i - 1]
      OBVIOUS
    <2> HIDE DEF u, v
    <2>3. u \o <<c>> \in Seq(S) /\ Len(u \o <<c>>) = k
          /\ \A i \in 1..k : (u \o <<c>>)[i] = IF i < k THEN u[i] ELSE c
      BY <2>1
    <2> DEFINE w == u \o <<c>>
    <2> HIDE DEF w
    <2>4. w \o v \in Seq(S) /\ Len(w \o v) = k + (Len(a) - k + 1)
          /\ \A i \in 1..Len(a) + 1 : (w \o v)[i] = IF i <= k THEN w[i] ELSE v[i - k]
      <3>1. w \in Seq(S) /\ Len(w) = k
        BY <2>3 DEF w
      <3>2. v \in Seq(S) /\ Len(v) = Len(a) - k + 1
        BY <2>2
      <3>3. w \o v \in Seq(S) /\ Len(w \o v) = Len(w) + Len(v)
        BY ONLY <3>1, <3>2
      <3>4. \A i \in 1..Len(w) + Len(v) :
              (w \o v)[i] = IF i <= Len(w) THEN w[i] ELSE v[i - Len(w)]
        BY ONLY <3>1, <3>2
      <3>5. Len(w) + Len(v) = Len(a) + 1 /\ k + (Len(a) - k + 1) = Len(a) + 1
        BY <1>1, <3>1, <3>2
      <3> QED BY <3>1, <3>3, <3>4, <3>5
    <2>5. b = w \o v
      BY DEF InsertAt, u, v, w
    <2>6. ASSUME NEW i \in 1..Len(a) + 1
          PROVE  b[i] = IF i < k THEN a[i] ELSE IF i = k THEN c ELSE a[i - 1]
      <3>1. CASE i <= k
        BY <2>1, <2>3, <2>4, <2>5, <3>1 DEF w
      <3>2. CASE i > k
        <4>1. i - k \in 1..Len(a) - k + 1 /\ k + (i - k) - 1 = i - 1
          BY <3>2
        <4> QED BY <2>2, <2>4, <2>5, <3>2, <4>1
      <3> QED BY <3>1, <3>2
    <2>7. k + (Len(a) - k + 1) = Len(a) + 1
      BY <1>1
    <2> QED BY <2>4, <2>5, <2>6, <2>7
  <1>3. Len(d) = Len(a) + 1 /\ d[Len(a) + 1] = c /\ \A i \in 1..Len(a) : d[i] = a[i]
    OBVIOUS
  <1> HIDE DEF b, d
  <1>4. \A i \in 1..Len(b) : At(i) \in 1..Len(d) /\ b[i] = d[At(i)]
    BY <1>1, <1>2, <1>3
  <1>5. \A i, j \in 1..Len(b) : i # j => At(i) # At(j)
    BY <1>1, <1>2
  <1> HIDE DEF At
  <1>6. Within(b, d)
    BY <1>4, <1>5 DEF Within
  <1> QED BY <1>2, <1>6 DEF b, d

(* A result that is inserted by its seed.                                  *)
LEMMA InsertBySeedFacts ==
  ASSUME NEW S, NEW a \in Seq(S), NEW c \in S
  PROVE  InsertBySeed(a, c) \in Seq(S) /\ Within(InsertBySeed(a, c), Append(a, c))
  <1> DEFINE T == {i \in 1..Len(a) : a[i].seed <= c.seed}
  <1>1. Len(a) \in Nat /\ IsFiniteSet(1..Len(a)) /\ Cardinality(1..Len(a)) = Len(a)
    <2>1. Len(a) \in Nat /\ 1 \in Int /\ Len(a) \in Int
      OBVIOUS
    <2> QED BY <2>1, FS_Interval
  <1>2. T \subseteq 1..Len(a)
    OBVIOUS
  <1> HIDE DEF T
  <1>3. Cardinality(T) \in Nat /\ Cardinality(T) <= Len(a)
    BY <1>1, <1>2, FS_Subset, FS_CardinalityType
  <1>4. Cardinality(T) + 1 \in 1..Len(a) + 1
    BY <1>1, <1>3
  <1>5. InsertBySeed(a, c) = InsertAt(a, Cardinality(T) + 1, c)
    BY DEF InsertBySeed, T
  <1> QED BY <1>4, <1>5, InsertFacts

(* The sorted results are the results, each once.                          *)
LEMMA SortedFacts ==
  ASSUME NEW results \in Seq(Container)
  PROVE  InSeedOrder(results) \in Seq(Container) /\ Within(InSeedOrder(results), results)
  <1> DEFINE Sort(s) == Sorted!Fold(0, <<>>, s)
             T == {s \in Seq(Container) : Sort(s) \in Seq(Container) /\ Within(Sort(s), s)}
  <1>1. <<>> \in T
    <2>1. Sort(<<>>) = <<>>
      BY Sorted!FoldEmpty
    <2>2. <<>> \in Seq(Container) /\ Len(<<>>) = 0
      BY EmptySeq
    <2> HIDE DEF Sort
    <2>3. Within(Sort(<<>>), <<>>)
      BY <2>1, <2>2 DEF Within
    <2> QED BY <2>1, <2>2, <2>3
  <1>2. ASSUME NEW s \in Seq(Container), NEW c \in Container, s \in T
        PROVE  Append(s, c) \in T
    <2>1. Sort(Append(s, c)) = InsertBySeed(Sort(s), c)
      <3>1. Sort(Append(s, c)) = Insert(0, Sort(s), c)
        BY Sorted!FoldAppend
      <3> QED BY <3>1 DEF Insert
    <2>2. Sort(s) \in Seq(Container) /\ Within(Sort(s), s)
      BY <1>2
    <2>3. Append(s, c) \in Seq(Container)
      OBVIOUS
    <2> HIDE DEF Sort
    <2>4. /\ InsertBySeed(Sort(s), c) \in Seq(Container)
          /\ Within(InsertBySeed(Sort(s), c), Append(Sort(s), c))
      BY <2>2, InsertBySeedFacts
    <2>5. Within(Append(Sort(s), c), Append(s, c))
      BY <2>2, WithinAppend
    <2>6. Within(InsertBySeed(Sort(s), c), Append(s, c))
      BY <2>4, <2>5, WithinTransitive
    <2> QED BY <2>1, <2>3, <2>4, <2>6
  <1> HIDE DEF T
  <1>3. Seq(Container) \subseteq T
    BY <1>1, <1>2, Sorted!SeqSetInduction
  <1>4. InSeedOrder(results) = Sort(results)
    BY DEF InSeedOrder, Sorted!Fold, Insert, FoldLeft, Sorted!FoldLeft, MapThenFoldSet,
       Sorted!MapThenFoldSet, Max, Sorted!Max
  <1> QED BY <1>3, <1>4 DEF T

(* The usable results come from the results, each once.                    *)
LEMMA UsableFacts ==
  ASSUME NEW results \in Seq(Container)
  PROVE  /\ UsableOf(results) \in Seq(Container)
         /\ Within(UsableOf(results), results)
         /\ \A i \in 1..Len(UsableOf(results)) : Usable(results, UsableOf(results)[i])
  <1> DEFINE p == <<EvaluateReference, results>>
             Pick(s) == Picked!Fold(p, <<>>, s)
             Good(c) == Usable(results, c)
             T == {s \in Seq(Container) :
                     /\ Pick(s) \in Seq(Container) /\ Within(Pick(s), s)
                     /\ \A i \in 1..Len(Pick(s)) : Good(Pick(s)[i])}
  <1>1. <<>> \in T
    <2>1. Pick(<<>>) = <<>>
      BY Picked!FoldEmpty
    <2>2. <<>> \in Seq(Container) /\ Len(<<>>) = 0
      BY EmptySeq
    <2> HIDE DEF Pick, Good
    <2>3. Within(Pick(<<>>), <<>>) /\ \A i \in 1..Len(Pick(<<>>)) : Good(Pick(<<>>)[i])
      BY <2>1, <2>2 DEF Within
    <2> QED BY <2>1, <2>2, <2>3
  <1>2. ASSUME NEW s \in Seq(Container), NEW c \in Container, s \in T
        PROVE  Append(s, c) \in T
    <2>1. Pick(Append(s, c)) = IF Good(c) THEN Append(Pick(s), c) ELSE Pick(s)
      <3>1. Pick(Append(s, c)) = PickUsable(p, Pick(s), c)
        BY Picked!FoldAppend
      <3> QED BY <3>1 DEF PickUsable, Usable
    <2>2. /\ Pick(s) \in Seq(Container) /\ Within(Pick(s), s)
          /\ \A i \in 1..Len(Pick(s)) : Good(Pick(s)[i])
      BY <1>2
    <2>3. Append(s, c) \in Seq(Container)
      OBVIOUS
    <2> HIDE DEF Pick, Good
    <2>4. Within(Pick(s), Append(s, c)) /\ Within(Append(Pick(s), c), Append(s, c))
      BY <2>2, WithinAppend
    <2>5. Append(Pick(s), c) \in Seq(Container)
          /\ \A i \in 1..Len(Append(Pick(s), c)) :
               \/ i \in 1..Len(Pick(s)) /\ Append(Pick(s), c)[i] = Pick(s)[i]
               \/ Append(Pick(s), c)[i] = c
      BY <2>2
    <2>6. CASE Good(c)
      BY <2>1, <2>2, <2>3, <2>4, <2>5, <2>6
    <2>7. CASE ~Good(c)
      BY <2>1, <2>2, <2>3, <2>4, <2>7
    <2> QED BY <2>6, <2>7
  <1> HIDE DEF T
  <1>3. Seq(Container) \subseteq T
    BY <1>1, <1>2, Picked!SeqSetInduction
  <1>4. UsableOf(results) = Pick(InSeedOrder(results))
    BY DEF UsableOf, Usable, Picked!Fold, PickUsable, FoldLeft, Picked!FoldLeft,
       MapThenFoldSet, Picked!MapThenFoldSet, Max, Picked!Max
  <1>5. InSeedOrder(results) \in Seq(Container) /\ Within(InSeedOrder(results), results)
    BY SortedFacts
  <1>6. InSeedOrder(results) \in T
    BY <1>3, <1>5
  <1>7. /\ Pick(InSeedOrder(results)) \in Seq(Container)
        /\ Within(Pick(InSeedOrder(results)), InSeedOrder(results))
        /\ \A i \in 1..Len(Pick(InSeedOrder(results))) :
             Usable(results, Pick(InSeedOrder(results))[i])
    BY <1>6 DEF T
  <1> QED BY <1>4, <1>5, <1>7, WithinTransitive

Rows == Seq([fit: Container, reference: Container \cup {NoFit}])

Paired(rows) ==
  /\ \A i \in 1..Len(rows) :
       /\ rows[i].fit.run = ReferenceId
       /\ rows[i].reference.run # ReferenceId
       /\ rows[i].reference.seed = rows[i].fit.seed
  /\ \A i, j \in 1..Len(rows) : rows[i].fit.seed = rows[j].fit.seed => i = j

(* What Partner chooses, where there is one to choose.                     *)
LEMMA PartnerFacts ==
  ASSUME NEW results \in Seq(Container), NEW c, Usable(results, c), EvaluateReference
  PROVE  /\ c.run = ReferenceId /\ Occurrences(results, c.seed) = 2
         /\ (CHOOSE i \in Partners(results, c) : TRUE) \in Partners(results, c)
         /\ Partners(results, c) \subseteq 1..Len(results)
  <1>1. HasReference(results, c)
    BY DEF Usable
  <1> QED BY <1>1 DEF HasReference, Partners

(* A seed that occurs twice has no three results.                          *)
LEMMA NoThird ==
  ASSUME NEW results \in Seq(Container), NEW seed, Occurrences(results, seed) = 2,
         NEW m \in 1..Len(results), NEW n \in 1..Len(results), NEW q \in 1..Len(results),
         results[m].seed = seed, results[n].seed = seed, results[q].seed = seed,
         m # n, q # m
  PROVE  q = n
  <1> SUFFICES ASSUME q # n PROVE FALSE
    OBVIOUS
  <1> DEFINE T == {i \in 1..Len(results) : results[i].seed = seed}
             U == {m, n, q}
  <1>1. IsFiniteSet(T) /\ Cardinality(T) = 2
    <2>1. Len(results) \in Int /\ 1 \in Int
      OBVIOUS
    <2>2. IsFiniteSet(1..Len(results))
      BY <2>1, FS_Interval
    <2> QED BY <2>2, FS_Subset DEF Occurrences
  <1>2. U \subseteq T
    OBVIOUS
  <1> HIDE DEF T
  <1>3. Cardinality(U) = 3
    <2>1. \A S, x : IsFiniteSet(S) /\ x \notin S =>
            IsFiniteSet(S \cup {x}) /\ Cardinality(S \cup {x}) = Cardinality(S) + 1
      BY FS_AddElement
    <2>2. IsFiniteSet({m}) /\ Cardinality({m}) = 1
      BY FS_Singleton
    <2>3. IsFiniteSet({m} \cup {n}) /\ Cardinality({m} \cup {n}) = 1 + 1
      BY <2>1, <2>2
    <2>4. Cardinality(({m} \cup {n}) \cup {q}) = (1 + 1) + 1
      BY <2>1, <2>3
    <2>5. U = ({m} \cup {n}) \cup {q}
      OBVIOUS
    <2>6. Cardinality(U) = (1 + 1) + 1
      BY <2>4, <2>5, Zenon
    <2> HIDE DEF U
    <2> QED BY <2>6
  <1>4. Cardinality(U) <= Cardinality(T)
    BY <1>1, <1>2, FS_Subset
  <1> QED BY <1>1, <1>3, <1>4

(* The rows of an evaluation: their type, and each with its own reference. *)
LEMMA RowsFacts ==
  ASSUME NEW results \in Seq(Container), NEW numFits
  PROVE  /\ RowsOf(results, numFits) \in Rows
         /\ EvaluateReference => Paired(RowsOf(results, numFits))
  <1> DEFINE usable == UsableOf(results)
             kept == IF numFits > 1 \/ usable = <<>> THEN usable ELSE <<Head(usable)>>
             rows == RowsOf(results, numFits)
  <1>1. /\ usable \in Seq(Container) /\ Within(usable, results)
        /\ \A i \in 1..Len(usable) : Usable(results, usable[i])
    BY UsableFacts
  <1>2. rows = [i \in 1..Len(kept) |-> Row(results, kept[i])]
    BY DEF RowsOf
  <1> HIDE DEF usable, rows
  <1>3. /\ kept \in Seq(Container) /\ Within(kept, results)
        /\ \A i \in 1..Len(kept) : Usable(results, kept[i])
    <2>1. CASE numFits > 1 \/ usable = <<>>
      BY <1>1, <2>1
    <2>2. CASE ~(numFits > 1 \/ usable = <<>>)
      <3>1. kept = <<usable[1]>> /\ 1 \in 1..Len(usable) /\ usable[1] \in Container
        BY <1>1, <2>2
      <3>2. Len(kept) = 1 /\ kept[1] = usable[1] /\ kept \in Seq(Container)
        BY <3>1
      <3>3. Within(kept, usable)
        BY <3>1, <3>2 DEF Within
      <3> QED BY <1>1, <3>1, <3>2, <3>3, WithinTransitive
    <2> QED BY <2>1, <2>2
  <1> HIDE DEF kept
  <1>4. Len(kept) \in Nat /\ \A i \in 1..Len(kept) : kept[i] \in Container
    BY <1>3
  <1>5. ASSUME NEW i \in 1..Len(kept)
        PROVE  /\ Row(results, kept[i]) \in [fit: Container, reference: Container \cup {NoFit}]
               /\ Row(results, kept[i]).fit = kept[i]
               /\ EvaluateReference =>
                    \E q \in Partners(results, kept[i]) :
                      /\ Row(results, kept[i]).reference = results[q]
                      /\ q \in 1..Len(results) /\ results[q] \in Container
    <2>1. CASE EvaluateReference
      <3> DEFINE q == CHOOSE k \in Partners(results, kept[i]) : TRUE
      <3>1. q \in Partners(results, kept[i]) /\ q \in 1..Len(results)
        BY <1>3, <2>1, PartnerFacts
      <3>2. Row(results, kept[i]) = [fit |-> kept[i], reference |-> results[q]]
        BY <2>1 DEF Row
      <3> HIDE DEF q
      <3>3. results[q] \in Container
        BY <3>1
      <3> QED BY <1>4, <3>1, <3>2, <3>3
    <2>2. CASE ~EvaluateReference
      <3>1. Row(results, kept[i]) = [fit |-> kept[i], reference |-> NoFit]
        BY <2>2 DEF Row
      <3> QED BY <1>4, <2>2, <3>1
    <2> QED BY <2>1, <2>2
  <1>6. rows \in Rows /\ Len(rows) = Len(kept) /\ \A i \in 1..Len(kept) : rows[i] = Row(results, kept[i])
    BY <1>2, <1>4, <1>5 DEF Rows
  <1>7. ASSUME EvaluateReference
        PROVE  Paired(rows)
    <2>1. ASSUME NEW i \in 1..Len(kept)
          PROVE  /\ kept[i].run = ReferenceId
                 /\ Occurrences(results, kept[i].seed) = 2
                 /\ rows[i].fit = kept[i]
                 /\ \E q \in 1..Len(results) :
                      /\ results[q].run # ReferenceId /\ results[q].seed = kept[i].seed
                      /\ rows[i].reference = results[q]
      <3>1. kept[i].run = ReferenceId /\ Occurrences(results, kept[i].seed) = 2
        BY <1>3, <1>7, PartnerFacts
      <3>2. PICK q \in Partners(results, kept[i]) :
              Row(results, kept[i]).reference = results[q] /\ q \in 1..Len(results)
        BY <1>5, <1>7
      <3>3. results[q].run # ReferenceId /\ results[q].seed = kept[i].seed
        BY <3>1, <3>2 DEF Partners
      <3> QED BY <1>5, <1>6, <3>1, <3>2, <3>3
    <2>2. ASSUME NEW i \in 1..Len(kept), NEW j \in 1..Len(kept), i # j,
                 kept[i].seed = kept[j].seed
          PROVE  FALSE
      <3>1. PICK m, n \in 1..Len(results) : m # n /\ kept[i] = results[m] /\ kept[j] = results[n]
        BY <1>3, <2>2 DEF Within
      <3>2. PICK q \in 1..Len(results) :
              results[q].run # ReferenceId /\ results[q].seed = kept[i].seed
        BY <2>1
      <3>3. q # m /\ q # n
        BY <2>1, <3>1, <3>2
      <3>4. /\ Occurrences(results, kept[i].seed) = 2
            /\ results[m].seed = kept[i].seed /\ results[n].seed = kept[i].seed
        BY <2>1, <2>2, <3>1
      <3> QED BY <3>1, <3>2, <3>3, <3>4, NoThird
    <2>3. \A i \in 1..Len(rows) :
            /\ rows[i].fit.run = ReferenceId /\ rows[i].reference.run # ReferenceId
            /\ rows[i].reference.seed = rows[i].fit.seed
      BY <1>6, <2>1
    <2>4. \A i, j \in 1..Len(rows) : rows[i].fit.seed = rows[j].fit.seed => i = j
      BY <1>6, <2>1, <2>2
    <2> QED BY <2>3, <2>4 DEF Paired
  <1> QED BY <1>6, <1>7 DEF rows

-----------------------------------------------------------------------------
(* The types of the reader's state, and the pairing.                       *)
TypeInv ==
  /\ TypeOK
  /\ entryAt # 0
  /\ pc \in {"reading", "spinning"} => pass # 0
  /\ PairedByToy

(* The files, whether the EasyFit ones are among them or not.              *)
LEMMA FilesType ==
  ASSUME config \in Configs
  PROVE  /\ files \in Seq([kind: FileKinds, entries: Seq(TreeEntry)])
         /\ Len(files) \in Nat /\ NumToysRead \in Int /\ EvaluateReference \in BOOLEAN
         /\ MaxPasses \in Nat
  <1>1. files \in Seq([kind: FileKinds, entries: Seq(TreeEntry)])
    BY ReadAssumption DEF files
  <1> QED BY <1>1, ReadAssumption DEF NumToysRead, EvaluateReference

(* What is known of the entry that is read.                                *)
LEMMA EntryFacts ==
  ASSUME TypeInv, NEW quality, AtEntry(quality)
  PROVE  /\ ContainerAt(entryAt) \in Container /\ fileAt \in 1..Len(files)
         /\ Entries \in Seq(TreeEntry) /\ entryAt \in 1..Len(Entries)
         /\ Elements(releaseQueue) \subseteq Container
  <1>1. files \in Seq([kind: FileKinds, entries: Seq(TreeEntry)]) /\ Len(files) \in Nat
        /\ MaxPasses \in Nat
    BY FilesType DEF TypeInv, TypeOK
  <1>2. fileAt \in 1..Len(files)
    BY <1>1 DEF TypeInv, TypeOK, AtEntry, AtFile
  <1>3. files[fileAt] \in [kind: FileKinds, entries: Seq(TreeEntry)]
    <2>1. \A S, s, i : s \in Seq(S) /\ i \in 1..Len(s) => s[i] \in S
      OBVIOUS
    <2> QED BY <1>1, <1>2, <2>1, Zenon
  <1>4. Entries \in Seq(TreeEntry)
    BY <1>3 DEF Entries
  <1>5. entryAt \in 1..Len(Entries)
    BY <1>4 DEF TypeInv, TypeOK, AtEntry
  <1>6. Entries[entryAt] \in TreeEntry
    BY <1>4, <1>5
  <1>7. pass \in 1..MaxPasses /\ fileAt \in Nat /\ entryAt \in Nat
    BY <1>1, <1>2 DEF TypeInv, TypeOK, AtEntry, AtFile
  <1>8. ContainerAt(entryAt) \in Container
    BY <1>6, <1>7 DEF ContainerAt, Container, TreeEntry
  <1>9. Elements(releaseQueue) \subseteq Container
    BY DEF TypeInv, TypeOK, Elements
  <1> QED BY <1>2, <1>4, <1>5, <1>8, <1>9

(* The types hold at the start.                                            *)
LEMMA InitTypeInv == Init => TypeInv
  <1> SUFFICES ASSUME Init PROVE TypeInv
    OBVIOUS
  <1>1. Len(files) \in Nat /\ MaxPasses \in Nat
    BY FilesType DEF Init
  <1>2. fileAt \in 1..Len(files) + 1 /\ pass \in 0..MaxPasses
    BY <1>1 DEF Init
  <1>3. TypeOK
    <2>1. /\ read \in Seq(Container) /\ readQueue \in Seq(Container)
          /\ releaseQueue \in Seq(Container) /\ held \subseteq Container
          /\ fitResults \in Seq(Container) /\ bySeed \in Seq(Container)
          /\ bookkeep \in Seq(Container) /\ deleted \subseteq Container
          /\ evaluated \in Seq([fit: Container, reference: Container \cup {NoFit}])
          /\ easyFiles \in Seq(1..Len(files))
      BY EmptySeq DEF Init
    <2> QED BY <1>2, <2>1 DEF Init, TypeOK
  <1>4. PairedByToy
    BY DEF Init, PairedByToy
  <1> QED BY <1>3, <1>4 DEF Init, TypeInv

(* The steps of a pass keep the types.                                     *)
LEMMA ReadTypes ==
  ASSUME TypeInv,
         \/ ReadFitResults \/ ReadFitResultsThrows \/ Reading
  PROVE  TypeInv'
  <1>1. Len(files) \in Nat /\ MaxPasses \in Nat /\ TypeOK /\ entryAt # 0
        /\ (pc \in {"reading", "spinning"} => pass # 0) /\ PairedByToy
    BY FilesType DEF TypeInv, TypeOK
  <1>2. files' = files /\ UNCHANGED <<config, evaluated, held, stored>>
    BY DEF ReadFitResults, ReadFitResultsThrows, Reading, SkipFile, QueueEasyFitFile,
       ReadGoodEntry, NeglectBadEntry, SpinAtNullEntry, FinishFile, FinishReading,
       position, files
  <1>3. PairedByToy'
    BY <1>1, <1>2 DEF PairedByToy, EvaluateReference
  <1>4. CASE ReadFitResults
    <2>1. pass' \in 0..MaxPasses /\ pass' # 0 /\ fileAt' \in 1..Len(files) + 1
      BY <1>1, <1>4 DEF ReadFitResults, TypeOK
    <2>2. read' \in Seq(Container)
      BY <1>4, EmptySeq DEF ReadFitResults
    <2> QED BY <1>1, <1>2, <1>3, <1>4, <2>1, <2>2 DEF ReadFitResults, TypeOK, TypeInv, stored
  <1>5. CASE ReadFitResultsThrows
    BY <1>1, <1>2, <1>3, <1>5 DEF ReadFitResultsThrows, TypeOK, TypeInv, position, stored
  <1>6. CASE SkipFile \/ QueueEasyFitFile
    <2>1. fileAt \in 1..Len(files) /\ fileAt' \in 1..Len(files) + 1
      BY <1>1, <1>6 DEF SkipFile, QueueEasyFitFile, AtFile, TypeOK
    <2>2. easyFiles' \in Seq(1..Len(files))
      <3>1. easyFiles \in Seq(1..Len(files)) /\ easyFiles' \in {easyFiles, Append(easyFiles, fileAt)}
        BY <1>1, <1>6 DEF SkipFile, QueueEasyFitFile, TypeOK
      <3>2. Append(easyFiles, fileAt) \in Seq(1..Len(files))
        BY <2>1, <3>1
      <3> QED BY <3>1, <3>2
    <2> QED BY <1>1, <1>2, <1>3, <1>6, <2>1, <2>2
            DEF SkipFile, QueueEasyFitFile, TypeOK, TypeInv, stored
  <1>7. CASE ReadGoodEntry
    <2>1. ContainerAt(entryAt) \in Container /\ Elements(releaseQueue) \subseteq Container
      BY <1>7, EntryFacts DEF ReadGoodEntry
    <2>2. /\ read' \in Seq(Container) /\ readQueue' \in Seq(Container)
          /\ deleted' \subseteq Container /\ releaseQueue' \in Seq(Container)
      BY <1>1, <1>7, <2>1, EmptySeq DEF ReadGoodEntry, TypeOK, PurgeReleased, Elements
    <2>3. entryAt' \in Nat /\ entryAt' # 0
      BY <1>1, <1>7 DEF ReadGoodEntry, TypeOK
    <2> QED BY <1>1, <1>2, <1>3, <1>7, <2>2, <2>3 DEF ReadGoodEntry, TypeOK, TypeInv, stored
  <1>8. CASE NeglectBadEntry
    <2>1. ContainerAt(entryAt) \in Container /\ Elements(releaseQueue) \subseteq Container
      BY <1>8, EntryFacts DEF NeglectBadEntry
    <2>2. /\ deleted' \subseteq Container /\ releaseQueue' \in Seq(Container)
      BY <1>1, <1>8, <2>1, EmptySeq DEF NeglectBadEntry, TypeOK, PurgeReleased, Elements
    <2>3. entryAt' \in Nat /\ entryAt' # 0
      BY <1>1, <1>8 DEF NeglectBadEntry, TypeOK
    <2> QED BY <1>1, <1>2, <1>3, <1>8, <2>2, <2>3 DEF NeglectBadEntry, TypeOK, TypeInv, stored
  <1>9. CASE SpinAtNullEntry \/ FinishReading
    <2>1. pc' \in {"spinning", "idle"} /\ pc = "reading" /\ outcome' \in {outcome, "ok"}
      BY <1>9 DEF SpinAtNullEntry, FinishReading, AtEntry, AtFile
    <2> QED BY <1>1, <1>2, <1>3, <1>9, <2>1
            DEF SpinAtNullEntry, FinishReading, TypeOK, TypeInv, position, stored
  <1>10. CASE FinishFile
    <2>1. fileAt \in 1..Len(files) /\ fileAt' \in 1..Len(files) + 1
      <3>1. fileAt \in 1..Len(files) + 1
        BY <1>1 DEF TypeOK
      <3>2. fileAt <= Len(files) /\ fileAt' \in {Len(files) + 1, fileAt + 1}
        BY <1>10 DEF FinishFile, FileFinished, AtFile
      <3> QED BY <1>1, <3>1, <3>2
    <2>2. TypeOK'
      BY <1>1, <1>2, <1>3, <1>10, <2>1 DEF FinishFile, TypeOK, stored
    <2>3. entryAt' # 0 /\ (pc' \in {"reading", "spinning"} => pass' # 0)
      BY <1>1, <1>10 DEF FinishFile, position
    <2> QED BY <1>3, <2>2, <2>3 DEF TypeInv
  <1> QED BY <1>4, <1>5, <1>6, <1>7, <1>8, <1>9, <1>10 DEF Reading

(* The calls that take and give back results keep the types.               *)
LEMMA UseTypes ==
  ASSUME TypeInv,
         \/ GetFitResult \/ ReleaseFitResult \/ EmptyResults \/ Destruct
         \/ UNCHANGED vars
  PROVE  TypeInv'
  <1>1. TypeOK /\ entryAt # 0 /\ (pc \in {"reading", "spinning"} => pass # 0) /\ PairedByToy
    BY DEF TypeInv
  <1>2. files' = files /\ UNCHANGED <<position, evaluated, easyFiles, bySeed, bookkeep>>
    BY DEF GetFitResult, ReleaseFitResult, EmptyResults, Destruct, vars, position, stored, files
  <1>3. PairedByToy'
    BY <1>1, <1>2 DEF PairedByToy, EvaluateReference, position
  <1>4. CASE GetFitResult
    <2>1. Head(readQueue) \in Container /\ readQueue' \in Seq(Container)
      BY <1>1, <1>4 DEF GetFitResult, TypeOK
    <2> QED BY <1>1, <1>2, <1>3, <1>4, <2>1 DEF GetFitResult, TypeOK, TypeInv, position, stored
  <1>5. CASE ReleaseFitResult
    <2>1. held' \subseteq Container /\ releaseQueue' \in Seq(Container)
      BY <1>1, <1>5 DEF ReleaseFitResult, TypeOK
    <2> QED BY <1>1, <1>2, <1>3, <1>5, <2>1
            DEF ReleaseFitResult, TypeOK, TypeInv, position, stored
  <1>6. CASE EmptyResults
    BY <1>1, <1>2, <1>3, <1>6, EmptySeq DEF EmptyResults, TypeOK, TypeInv, position
  <1>7. CASE Destruct
    <2>1. deleted' \subseteq Container
      BY <1>1, <1>7 DEF Destruct, TypeOK
    <2> QED BY <1>1, <1>2, <1>3, <1>7, <2>1 DEF Destruct, TypeOK, TypeInv, position, stored
  <1>8. CASE UNCHANGED vars
    BY <1>1, <1>2, <1>3, <1>8 DEF vars, TypeOK, TypeInv, position, stored
  <1> QED BY <1>4, <1>5, <1>6, <1>7, <1>8

(* EvaluateFitResults keeps the types and pairs each row.                  *)
LEMMA EvaluateTypes ==
  ASSUME TypeInv, EvaluateFitResults
  PROVE  TypeInv'
  <1> DEFINE fits == fitResults \o readQueue
             results == bySeed \o readQueue
             rows == RowsOf(results, Len(fits))
  <1>1. TypeOK /\ entryAt # 0 /\ (pc \in {"reading", "spinning"} => pass # 0) /\ PairedByToy
    BY DEF TypeInv
  <1>2. /\ readQueue' = <<>> /\ fitResults' = fits /\ bySeed' = results
        /\ bookkeep' = bookkeep \o readQueue /\ pc = "idle"
        /\ UNCHANGED <<position, releaseQueue, held, deleted, easyFiles>>
        /\ evaluated' \in {evaluated, rows} /\ pc' \in {pc, "past_end"}
        /\ outcome' \in {outcome, "ok", "cannot_evaluate"}
    BY DEF EvaluateFitResults
  <1>3. fits \in Seq(Container) /\ results \in Seq(Container)
        /\ bookkeep \o readQueue \in Seq(Container)
    BY <1>1 DEF TypeOK
  <1> HIDE DEF fits, results
  <1>4. rows \in Rows /\ (EvaluateReference => Paired(rows))
    BY <1>3, RowsFacts
  <1> HIDE DEF rows
  <1>5. files' = files /\ EvaluateReference' = EvaluateReference
    BY <1>2 DEF position, files, EvaluateReference
  <1>6. evaluated \in Rows /\ (EvaluateReference => Paired(evaluated))
    BY <1>1 DEF TypeOK, Rows, PairedByToy, Paired
  <1>7. evaluated' \in Rows /\ PairedByToy'
    BY <1>2, <1>4, <1>5, <1>6 DEF PairedByToy, Paired
  <1>8. TypeOK'
    BY <1>1, <1>2, <1>3, <1>5, <1>7, EmptySeq DEF TypeOK, Rows, position
  <1> QED BY <1>1, <1>2, <1>7, <1>8 DEF TypeInv, position

(* Every step keeps them.                                                  *)
LEMMA NextTypeInv == TypeInv /\ [Next]_vars => TypeInv'
BY ReadTypes, UseTypes, EvaluateTypes DEF Next

-----------------------------------------------------------------------------
(* The good entries of the files up to some place.                         *)
PickGood(p, good, j) ==
  IF p[1][p[2]].entries[j].quality = "good" THEN Append(good, <<p[2], j>>) ELSE good
InFile == INSTANCE FoldFacts WITH op <- PickGood

GoodOf(fs, i, n) == InFile!Fold(<<fs, i>>, <<>>, UpTo(n))

JoinFile(fs, good, i) ==
  good \o (IF fs[i].kind = "results" THEN GoodEntriesOf(fs, i) ELSE <<>>)
InFiles == INSTANCE FoldFacts WITH op <- JoinFile

GoodBefore(fs, n) == InFiles!Fold(fs, <<>>, UpTo(n))

Place == Nat \X Nat

(* UpTo counts.                                                            *)
LEMMA UpToFacts ==
  /\ UpTo(0) = <<>>
  /\ \A n \in Nat : UpTo(n) \in Seq(Nat) /\ UpTo(n + 1) = Append(UpTo(n), n + 1)
  <1>1. UpTo(0) = <<>>
    BY DEF UpTo
  <1>2. ASSUME NEW n \in Nat
        PROVE  UpTo(n) \in Seq(Nat) /\ UpTo(n + 1) = Append(UpTo(n), n + 1)
    <2>1. UpTo(n) \in Seq(Nat) /\ Len(UpTo(n)) = n
          /\ \A i \in 1..n : UpTo(n)[i] = i
      BY DEF UpTo
    <2>2. UpTo(n + 1) \in Seq(Nat) /\ Len(UpTo(n + 1)) = n + 1
          /\ \A i \in 1..n + 1 : UpTo(n + 1)[i] = i
      BY DEF UpTo
    <2> QED BY <2>1, <2>2
  <1> QED BY <1>1, <1>2

(* The good entries of a file, entry by entry.                             *)
LEMMA GoodOfFacts ==
  ASSUME NEW fs, NEW i
  PROVE  /\ GoodOf(fs, i, 0) = <<>>
         /\ \A n \in Nat : GoodOf(fs, i, n + 1) =
              IF fs[i].entries[n + 1].quality = "good"
              THEN Append(GoodOf(fs, i, n), <<i, n + 1>>) ELSE GoodOf(fs, i, n)
  <1>1. GoodOf(fs, i, 0) = <<>>
    <2>1. InFile!Fold(<<fs, i>>, <<>>, <<>>) = <<>>
      BY InFile!FoldEmpty
    <2> QED BY <2>1, UpToFacts DEF GoodOf
  <1>2. ASSUME NEW n \in Nat
        PROVE  GoodOf(fs, i, n + 1) =
                 IF fs[i].entries[n + 1].quality = "good"
                 THEN Append(GoodOf(fs, i, n), <<i, n + 1>>) ELSE GoodOf(fs, i, n)
    <2>1. \A s \in Seq(Nat) : InFile!Fold(<<fs, i>>, <<>>, Append(s, n + 1))
            = PickGood(<<fs, i>>, InFile!Fold(<<fs, i>>, <<>>, s), n + 1)
      BY InFile!FoldAppend
    <2> QED BY <2>1, UpToFacts DEF GoodOf, PickGood
  <1> QED BY <1>1, <1>2

(* All of them: those of the model.                                        *)
LEMMA GoodOfFile ==
  ASSUME NEW fs, NEW i
  PROVE  GoodEntriesOf(fs, i) = GoodOf(fs, i, Len(fs[i].entries))
  <1>1. \A good, j : PickGood(<<fs, i>>, good, j)
                       = IF fs[i].entries[j].quality = "good"
                         THEN Append(good, <<i, j>>) ELSE good
    BY DEF PickGood
  <1> QED BY <1>1 DEF GoodEntriesOf, GoodOf, InFile!Fold, PickGood, FoldLeft,
             InFile!FoldLeft, MapThenFoldSet, InFile!MapThenFoldSet, Max, InFile!Max

(* The good entries of the files, file by file.                            *)
LEMMA GoodBeforeFacts ==
  ASSUME NEW fs
  PROVE  /\ GoodBefore(fs, 0) = <<>>
         /\ \A n \in Nat : GoodBefore(fs, n + 1) = GoodBefore(fs, n) \o
              (IF fs[n + 1].kind = "results"
               THEN GoodOf(fs, n + 1, Len(fs[n + 1].entries)) ELSE <<>>)
  <1>1. GoodBefore(fs, 0) = <<>>
    <2>1. InFiles!Fold(fs, <<>>, <<>>) = <<>>
      BY InFiles!FoldEmpty
    <2> QED BY <2>1, UpToFacts DEF GoodBefore
  <1>2. ASSUME NEW n \in Nat
        PROVE  GoodBefore(fs, n + 1) = JoinFile(fs, GoodBefore(fs, n), n + 1)
    <2>1. \A s \in Seq(Nat) : InFiles!Fold(fs, <<>>, Append(s, n + 1))
            = JoinFile(fs, InFiles!Fold(fs, <<>>, s), n + 1)
      BY InFiles!FoldAppend
    <2> QED BY <2>1, UpToFacts DEF GoodBefore
  <1>3. \A i : GoodEntriesOf(fs, i) = GoodOf(fs, i, Len(fs[i].entries))
    BY GoodOfFile
  <1> QED BY <1>1, <1>2, <1>3 DEF JoinFile

IsPre(a, b) == Len(a) <= Len(b) /\ \A m \in 1..Len(a) : a[m] = b[m]

(* Beginnings of sequences.                                                *)
LEMMA PreFacts ==
  /\ \A a \in Seq(Place) : IsPre(a, a)
  /\ \A a, b \in Seq(Place) : IsPre(a, a \o b)
  /\ \A a \in Seq(Place), x \in Place : IsPre(a, Append(a, x))
  /\ \A a, b, c \in Seq(Place) : IsPre(a, b) /\ IsPre(b, c) => IsPre(a, c)
  /\ \A a, b, c \in Seq(Place) : IsPre(b, c) => IsPre(a \o b, a \o c)
  <1>1. \A a \in Seq(Place) : IsPre(a, a)
    BY DEF IsPre
  <1>2. \A a, b \in Seq(Place) : IsPre(a, a \o b)
    BY DEF IsPre
  <1>3. \A a \in Seq(Place), x \in Place : IsPre(a, Append(a, x))
    BY DEF IsPre
  <1>4. \A a, b, c \in Seq(Place) : IsPre(a, b) /\ IsPre(b, c) => IsPre(a, c)
    BY DEF IsPre
  <1>5. ASSUME NEW a \in Seq(Place), NEW b \in Seq(Place), NEW c \in Seq(Place), IsPre(b, c)
        PROVE  IsPre(a \o b, a \o c)
    <2>1. /\ Len(a \o b) = Len(a) + Len(b) /\ Len(a) \in Nat /\ Len(b) \in Nat
          /\ \A m \in 1..Len(a) + Len(b) :
               (a \o b)[m] = IF m <= Len(a) THEN a[m] ELSE b[m - Len(a)]
      OBVIOUS
    <2>2. /\ Len(a \o c) = Len(a) + Len(c) /\ Len(c) \in Nat
          /\ \A m \in 1..Len(a) + Len(c) :
               (a \o c)[m] = IF m <= Len(a) THEN a[m] ELSE c[m - Len(a)]
      OBVIOUS
    <2>3. Len(b) <= Len(c) /\ \A m \in 1..Len(b) : b[m] = c[m]
      BY <1>5 DEF IsPre
    <2>4. ASSUME NEW m \in 1..Len(a) + Len(b)
          PROVE  (a \o b)[m] = (a \o c)[m]
      <3>1. CASE m <= Len(a)
        BY <2>1, <2>2, <2>3, <3>1
      <3>2. CASE m > Len(a)
        <4>1. m - Len(a) \in 1..Len(b)
          BY <2>1, <3>2
        <4> QED BY <2>1, <2>2, <2>3, <3>2, <4>1
      <3>3. m <= Len(a) \/ m > Len(a)
        BY <2>1
      <3> QED BY <3>1, <3>2, <3>3, Zenon
    <2> QED BY <2>1, <2>2, <2>3, <2>4 DEF IsPre
  <1> QED BY <1>1, <1>2, <1>3, <1>4, <1>5

(* More entries of a file have the good ones of fewer at their beginning.  *)
LEMMA GoodOfGrows ==
  ASSUME NEW fs, NEW i \in Nat, NEW n \in Nat
  PROVE  /\ GoodOf(fs, i, n) \in Seq(Place)
         /\ \A k \in 0..n : IsPre(GoodOf(fs, i, k), GoodOf(fs, i, n))
  <1> DEFINE G(k) == GoodOf(fs, i, k)
             T == {m \in Nat : \A k \in 0..m : G(k) \in Seq(Place) /\ IsPre(G(k), G(m))}
  <1>1. 0 \in T
    <2>1. G(0) = <<>> /\ <<>> \in Seq(Place)
      BY GoodOfFacts, EmptySeq
    <2> HIDE DEF G
    <2>2. IsPre(G(0), G(0))
      BY <2>1, PreFacts
    <2>3. \A k \in 0..0 : k = 0
      OBVIOUS
    <2> QED BY <2>1, <2>2, <2>3
  <1>2. ASSUME NEW m \in Nat, m \in T
        PROVE  m + 1 \in T
    <2>1. G(m) \in Seq(Place) /\ \A k \in 0..m : G(k) \in Seq(Place) /\ IsPre(G(k), G(m))
      <3>1. m \in 0..m
        OBVIOUS
      <3> QED BY <1>2, <3>1
    <2>2. G(m + 1) = (IF fs[i].entries[m + 1].quality = "good"
                      THEN Append(G(m), <<i, m + 1>>) ELSE G(m))
          /\ <<i, m + 1>> \in Place
      BY GoodOfFacts DEF Place
    <2> HIDE DEF G
    <2>3. G(m + 1) \in Seq(Place) /\ IsPre(G(m), G(m + 1))
      <3>1. Append(G(m), <<i, m + 1>>) \in Seq(Place)
        BY <2>1, <2>2
      <3>2. IsPre(G(m), G(m)) /\ IsPre(G(m), Append(G(m), <<i, m + 1>>))
        BY <2>1, <2>2, PreFacts
      <3> QED BY <2>1, <2>2, <3>1, <3>2, Zenon
    <2>4. ASSUME NEW k \in 0..m + 1
          PROVE  G(k) \in Seq(Place) /\ IsPre(G(k), G(m + 1))
      <3>1. CASE k = m + 1
        BY <2>3, <3>1, PreFacts
      <3>2. CASE k \in 0..m
        <4>1. k \in Nat
          BY <3>2
        <4>2. G(k) \in Seq(Place)
          BY <2>1, <3>2
        <4> QED BY <2>1, <2>3, <3>2, <4>2, PreFacts
      <3> QED BY <3>1, <3>2
    <2> QED BY <2>3, <2>4
  <1> HIDE DEF T
  <1>3. n \in T
    BY <1>1, <1>2, InFile!NatSetInduction
  <1> QED BY <1>3 DEF T

FileList == Seq([kind: FileKinds, entries: Seq(TreeEntry)])

(* A file of the list.                                                     *)
LEMMA FileAtType ==
  ASSUME NEW fs \in FileList, NEW i \in 1..Len(fs)
  PROVE  fs[i].entries \in Seq(TreeEntry) /\ Len(fs[i].entries) \in Nat
  <1>1. \A S, s : s \in Seq(S) => \A k \in 1..Len(s) : s[k] \in S
    OBVIOUS
  <1>2. fs[i] \in [kind: FileKinds, entries: Seq(TreeEntry)]
    BY <1>1, Zenon DEF FileList
  <1> QED BY <1>2

(* More files have the good entries of fewer at their beginning.           *)
LEMMA GoodBeforeGrows ==
  ASSUME NEW fs \in FileList, NEW n \in 0..Len(fs)
  PROVE  \A k \in 0..n : /\ GoodBefore(fs, k) \in Seq(Place)
                         /\ IsPre(GoodBefore(fs, k), GoodBefore(fs, n))
  <1> DEFINE G(k) == GoodBefore(fs, k)
             T == {m \in Nat : m <= Len(fs) =>
                     \A k \in 0..m : G(k) \in Seq(Place) /\ IsPre(G(k), G(m))}
  <1>0. Len(fs) \in Nat
    BY DEF FileList
  <1>1. 0 \in T
    <2>1. G(0) = <<>> /\ <<>> \in Seq(Place)
      BY GoodBeforeFacts, EmptySeq
    <2> HIDE DEF G
    <2>2. IsPre(G(0), G(0))
      BY <2>1, PreFacts
    <2>3. \A k \in 0..0 : k = 0
      OBVIOUS
    <2> QED BY <2>1, <2>2, <2>3
  <1>2. ASSUME NEW m \in Nat, m \in T
        PROVE  m + 1 \in T
    <2> SUFFICES ASSUME m + 1 <= Len(fs)
                 PROVE  \A k \in 0..m + 1 : G(k) \in Seq(Place) /\ IsPre(G(k), G(m + 1))
      OBVIOUS
    <2>0. m <= Len(fs) /\ m \in 0..m /\ m + 1 \in 1..Len(fs)
      BY <1>0
    <2>1. G(m) \in Seq(Place) /\ \A k \in 0..m : G(k) \in Seq(Place) /\ IsPre(G(k), G(m))
      BY <1>2, <2>0
    <2> DEFINE more == IF fs[m + 1].kind = "results"
                       THEN GoodOf(fs, m + 1, Len(fs[m + 1].entries)) ELSE <<>>
    <2>2. G(m + 1) = G(m) \o more
      BY GoodBeforeFacts
    <2>3. more \in Seq(Place)
      <3>1. Len(fs[m + 1].entries) \in Nat /\ m + 1 \in Nat
        BY <2>0, FileAtType
      <3>2. GoodOf(fs, m + 1, Len(fs[m + 1].entries)) \in Seq(Place)
        BY <3>1, GoodOfGrows
      <3> QED BY <3>2, EmptySeq
    <2> HIDE DEF G, more
    <2>4. G(m + 1) \in Seq(Place)
      <3>1. G(m) \o more \in Seq(Place)
        BY <2>1, <2>3
      <3> QED BY <2>2, <3>1, Zenon
    <2>5. IsPre(G(m), G(m + 1)) /\ IsPre(G(m + 1), G(m + 1))
      <3>1. IsPre(G(m), G(m) \o more)
        BY <2>1, <2>3, PreFacts
      <3>2. IsPre(G(m + 1), G(m + 1))
        BY <2>4, PreFacts
      <3> QED BY <2>2, <3>1, <3>2, Zenon
    <2>6. ASSUME NEW k \in 0..m + 1
          PROVE  G(k) \in Seq(Place) /\ IsPre(G(k), G(m + 1))
      <3>1. CASE k = m + 1
        BY <2>4, <2>5, <3>1
      <3>2. CASE k \in 0..m
        <4>1. G(k) \in Seq(Place) /\ IsPre(G(k), G(m))
          BY <2>1, <3>2
        <4> QED BY <2>1, <2>4, <2>5, <4>1, PreFacts
      <3> QED BY <3>1, <3>2
    <2> QED BY <2>6
  <1> HIDE DEF T
  <1>3. n \in T /\ n <= Len(fs)
    BY <1>0, <1>1, <1>2, InFile!NatSetInduction
  <1> QED BY <1>3 DEF T

(* Up to an entry of a file: the beginning of all good entries.            *)
LEMMA GoodUpTo ==
  ASSUME NEW fs \in FileList, NEW i \in 1..Len(fs), fs[i].kind = "results",
         NEW n \in 0..Len(fs[i].entries)
  PROVE  /\ GoodBefore(fs, i - 1) \in Seq(Place) /\ GoodOf(fs, i, n) \in Seq(Place)
         /\ IsPre(GoodBefore(fs, i - 1) \o GoodOf(fs, i, n), GoodBefore(fs, Len(fs)))
  <1> DEFINE a == GoodBefore(fs, i - 1)
             l == Len(fs[i].entries)
             g(k) == GoodOf(fs, i, k)
  <1>1. l \in Nat /\ Len(fs) \in Nat /\ i \in Nat /\ i - 1 \in Nat /\ (i - 1) + 1 = i
    BY FileAtType DEF FileList
  <1>2. i \in 0..Len(fs) /\ i - 1 \in 0..Len(fs) /\ Len(fs) \in 0..Len(fs)
    BY <1>1
  <1>3. /\ a \in Seq(Place) /\ GoodBefore(fs, i) \in Seq(Place)
        /\ GoodBefore(fs, Len(fs)) \in Seq(Place)
        /\ IsPre(GoodBefore(fs, i), GoodBefore(fs, Len(fs)))
    BY <1>2, GoodBeforeGrows
  <1>4. g(n) \in Seq(Place) /\ g(l) \in Seq(Place) /\ IsPre(g(n), g(l))
    <2>1. \A m \in Nat : GoodOf(fs, i, m) \in Seq(Place)
      BY <1>1, GoodOfGrows
    <2>2. \A k \in 0..l : IsPre(GoodOf(fs, i, k), GoodOf(fs, i, l))
      BY <1>1, GoodOfGrows
    <2> QED BY <1>1, <2>1, <2>2
  <1>5. GoodBefore(fs, i) = a \o g(l)
    <2>1. \A m \in Nat : GoodBefore(fs, m + 1) = GoodBefore(fs, m) \o
            (IF fs[m + 1].kind = "results"
             THEN GoodOf(fs, m + 1, Len(fs[m + 1].entries)) ELSE <<>>)
      BY GoodBeforeFacts
    <2>2. GoodBefore(fs, (i - 1) + 1) = GoodBefore(fs, i - 1) \o
            (IF fs[(i - 1) + 1].kind = "results"
             THEN GoodOf(fs, (i - 1) + 1, Len(fs[(i - 1) + 1].entries)) ELSE <<>>)
      BY <1>1, <2>1
    <2> QED BY <1>1, <2>2
  <1> HIDE DEF a, g
  <1>6. IsPre(a \o g(n), a \o g(l)) /\ a \o g(n) \in Seq(Place) /\ a \o g(l) \in Seq(Place)
    BY <1>3, <1>4, PreFacts
  <1>7. IsPre(a \o g(n), GoodBefore(fs, Len(fs)))
    BY <1>3, <1>5, <1>6, PreFacts
  <1> QED BY <1>3, <1>4, <1>7 DEF a, g

-----------------------------------------------------------------------------
(* What a pass reads.                                                      *)
PlacesOf(s) == [i \in 1..Len(s) |-> <<s[i].file, s[i].entry>>]
FirstOf(s, n) == IF n > 0 /\ n < Len(s) THEN SubSeq(s, 1, n) ELSE s
Asked == FirstOf(GoodBefore(files, Len(files)), NumToysRead)

AtPlace ==
  /\ entryAt = 1 => ~EnoughRead(read)
  /\ IF files[fileAt].kind = "results" THEN entryAt <= Len(Entries) + 1 ELSE entryAt = 1
  /\ PlacesOf(read) = GoodBefore(files, fileAt - 1) \o GoodOf(files, fileAt, entryAt - 1)

ReadingInv ==
  /\ pc = "reading" =>
       /\ NumToysRead > 0 => Len(read) <= NumToysRead
       /\ fileAt <= Len(files) => AtPlace
       /\ fileAt > Len(files) => PlacesOf(read) = Asked
  /\ (pc \notin {"reading", "spinning"} /\ pass > 0) => PlacesOf(read) = Asked

(* The good entries of the model are those of all files.                   *)
LEMMA AskedIs == GoodEntries = GoodBefore(files, Len(files))
BY DEF GoodEntries, GoodBefore, InFiles!Fold, JoinFile, FoldLeft, InFiles!FoldLeft,
   MapThenFoldSet, InFiles!MapThenFoldSet, Max, InFiles!Max

(* The places of what has been read.                                       *)
LEMMA PlacesFacts ==
  ASSUME NEW s \in Seq(Container)
  PROVE  /\ PlacesOf(s) \in Seq(Place) /\ Len(PlacesOf(s)) = Len(s) /\ Len(s) \in Nat
         /\ \A c \in Container : PlacesOf(Append(s, c)) = Append(PlacesOf(s), <<c.file, c.entry>>)
  <1>1. Len(s) \in Nat /\ \A i \in 1..Len(s) : s[i] \in Container
    OBVIOUS
  <1>2. \A c \in Container : <<c.file, c.entry>> \in Place
    BY DEF Container, Place
  <1>3. \A i \in 1..Len(s) : <<s[i].file, s[i].entry>> \in Place
    BY <1>1, <1>2
  <1>4. PlacesOf(s) \in Seq(Place) /\ Len(PlacesOf(s)) = Len(s)
        /\ \A i \in 1..Len(s) : PlacesOf(s)[i] = <<s[i].file, s[i].entry>>
    BY <1>1, <1>3 DEF PlacesOf
  <1>5. ASSUME NEW c \in Container
        PROVE  PlacesOf(Append(s, c)) = Append(PlacesOf(s), <<c.file, c.entry>>)
    <2> DEFINE t == Append(s, c)
               r == Append(PlacesOf(s), <<c.file, c.entry>>)
    <2>1. t \in Seq(Container) /\ Len(t) = Len(s) + 1
          /\ \A i \in 1..Len(s) + 1 : t[i] = IF i = Len(s) + 1 THEN c ELSE s[i]
      OBVIOUS
    <2> HIDE DEF t
    <2>2. PlacesOf(t) = [i \in 1..Len(s) + 1 |-> <<t[i].file, t[i].entry>>]
      BY <2>1 DEF PlacesOf
    <2>3. r \in Seq(Place) /\ Len(r) = Len(s) + 1
          /\ \A i \in 1..Len(s) + 1 : r[i] = IF i = Len(s) + 1 THEN <<c.file, c.entry>>
                                             ELSE PlacesOf(s)[i]
      BY <1>2, <1>4
    <2> HIDE DEF r
    <2>4. r = [i \in 1..Len(s) + 1 |-> r[i]]
      BY <1>1, <2>3
    <2>5. \A i \in 1..Len(s) + 1 : r[i] = <<t[i].file, t[i].entry>>
      BY <1>1, <1>4, <2>1, <2>3
    <2>6. PlacesOf(t) = r
      BY <2>2, <2>4, <2>5
    <2> QED BY <2>6 DEF t, r
  <1> QED BY <1>1, <1>4, <1>5

(* Enough has been read, and no more than that.                            *)
LEMMA EnoughIsAsked ==
  ASSUME NEW a \in Seq(Place), NEW b \in Seq(Place), IsPre(a, b), NEW n \in Int,
         n > 0 => Len(a) = n,
         n <= 0 => a = b
  PROVE  a = FirstOf(b, n)
  <1>1. Len(a) \in Nat /\ Len(b) \in Nat /\ Len(a) <= Len(b)
        /\ \A m \in 1..Len(a) : a[m] = b[m]
    BY DEF IsPre
  <1>2. CASE n > 0 /\ n < Len(b)
    <2>1. SubSeq(b, 1, n) \in Seq(Place) /\ Len(SubSeq(b, 1, n)) = n
          /\ \A m \in 1..n : SubSeq(b, 1, n)[m] = b[m]
      BY <1>2
    <2> DEFINE c == SubSeq(b, 1, n)
    <2> HIDE DEF c
    <2>2. a = c
      <3>1. c \in Seq(Place) /\ Len(c) = Len(a) /\ \A m \in 1..Len(a) : a[m] = c[m]
        BY <1>1, <1>2, <2>1 DEF c
      <3> QED BY <3>1
    <2> QED BY <1>2, <2>2 DEF FirstOf, c
  <1>3. CASE ~(n > 0 /\ n < Len(b))
    <2>1. a = b
      <3>1. CASE n <= 0
        BY <3>1
      <3>2. CASE n > 0
        <4>1. Len(a) = Len(b)
          BY <1>1, <1>3, <3>2
        <4> QED BY <1>1, <4>1
      <3> QED BY <3>1, <3>2
    <2> QED BY <1>3, <2>1 DEF FirstOf
  <1> QED BY <1>2, <1>3

(* The reader leaves a file it is done with.                               *)
LEMMA MoveOn ==
  ASSUME TypeInv, NEW i \in 1..Len(files), PlacesOf(read) = GoodBefore(files, i),
         ~EnoughRead(read), pc' = "reading", fileAt' = i + 1, entryAt' = 1,
         UNCHANGED <<config, read>>
  PROVE  ReadingInv'
  <1>1. /\ files \in FileList /\ Len(files) \in Nat /\ NumToysRead \in Int
        /\ read \in Seq(Container)
    BY FilesType DEF TypeInv, TypeOK, FileList
  <1>2. files' = files /\ NumToysRead' = NumToysRead /\ read' = read
    BY DEF files, NumToysRead
  <1>3. Len(read) \in Nat /\ PlacesOf(read) \in Seq(Place) /\ Len(PlacesOf(read)) = Len(read)
    BY <1>1, PlacesFacts
  <1>4. ~(NumToysRead > 0 /\ Len(read) >= NumToysRead)
    BY DEF EnoughRead
  <1>5. (NumToysRead > 0 => Len(read) <= NumToysRead)'
    BY <1>1, <1>2, <1>3, <1>4
  <1>6. ASSUME i + 1 <= Len(files)
        PROVE  AtPlace'
    <2>1. ~EnoughRead(read)'
      BY <1>2, <1>4 DEF EnoughRead
    <2>2. (IF files[fileAt].kind = "results" THEN entryAt <= Len(Entries) + 1
           ELSE entryAt = 1)'
      <3>1. i + 1 \in 1..Len(files)
        BY <1>1, <1>6
      <3>2. Len(files[i + 1].entries) \in Nat
        BY <1>1, <3>1, FileAtType
      <3>3. Len(Entries)' = Len(files[i + 1].entries)
        BY <1>2 DEF Entries
      <3> QED BY <3>2, <3>3
    <2>3. PlacesOf(read)' = (GoodBefore(files, fileAt - 1) \o GoodOf(files, fileAt, entryAt - 1))'
      <3>1. fileAt' - 1 = i /\ entryAt' - 1 = 0
        BY <1>1
      <3>2. GoodBefore(files, i) \o GoodOf(files, i + 1, 0) = GoodBefore(files, i)
        <4>1. GoodOf(files, i + 1, 0) = <<>>
          BY GoodOfFacts
        <4>2. PlacesOf(read) \o <<>> = PlacesOf(read)
          BY <1>3, ConcatEmptySeq
        <4> QED BY <4>1, <4>2
      <3>3. \A f, e : fileAt' - 1 = i /\ fileAt' = f /\ entryAt' - 1 = e =>
              (GoodBefore(files, fileAt - 1) \o GoodOf(files, fileAt, entryAt - 1))'
                = GoodBefore(files, i) \o GoodOf(files, f, e)
        BY <1>2 DEF GoodBefore, GoodOf
      <3>4. PlacesOf(read)' = PlacesOf(read)
        BY <1>2 DEF PlacesOf
      <3> QED BY <3>1, <3>2, <3>3, <3>4
    <2> QED BY <2>1, <2>2, <2>3 DEF AtPlace
  <1>7. ASSUME i + 1 > Len(files)
        PROVE  (PlacesOf(read) = Asked)'
    <2>1. i = Len(files)
      BY <1>1, <1>7
    <2>2. PlacesOf(read) = Asked
      <3>1. Len(GoodBefore(files, Len(files))) = Len(read)
        BY <1>3, <2>1
      <3> QED BY <1>1, <1>3, <1>4, <2>1, <3>1 DEF Asked, FirstOf
    <2> QED BY <1>2, <2>2 DEF Asked, PlacesOf
  <1> QED BY <1>2, <1>5, <1>6, <1>7 DEF ReadingInv

(* The reader at a file of the list.                                       *)
LEMMA AtTheFile ==
  ASSUME TypeInv, ReadingInv, NEW kinds, AtFile(kinds)
  PROVE  /\ fileAt \in 1..Len(files) /\ AtPlace /\ files[fileAt].kind \in kinds
         /\ files \in FileList /\ Len(files) \in Nat /\ pc = "reading"
         /\ fileAt - 1 \in Nat /\ (fileAt - 1) + 1 = fileAt
         /\ read \in Seq(Container) /\ entryAt \in Nat \ {0} /\ NumToysRead \in Int
         /\ Len(read) \in Nat
         /\ NumToysRead > 0 => Len(read) <= NumToysRead
  <1>1. /\ files \in FileList /\ Len(files) \in Nat /\ NumToysRead \in Int
        /\ read \in Seq(Container) /\ entryAt \in Nat \ {0} /\ fileAt \in 1..Len(files) + 1
    BY FilesType DEF TypeInv, TypeOK, FileList
  <1>2. pc = "reading" /\ fileAt <= Len(files) /\ files[fileAt].kind \in kinds
    BY DEF AtFile
  <1>3. fileAt \in 1..Len(files) /\ fileAt - 1 \in Nat /\ (fileAt - 1) + 1 = fileAt
    BY <1>1, <1>2
  <1>4. AtPlace /\ (NumToysRead > 0 => Len(read) <= NumToysRead)
    BY <1>2 DEF ReadingInv
  <1>5. Len(read) \in Nat
    BY <1>1
  <1> QED BY <1>1, <1>2, <1>3, <1>4, <1>5

(* The file after k.                                                       *)
LEMMA OneFileMore ==
  ASSUME NEW fs, NEW i \in Nat \ {0}
  PROVE  GoodBefore(fs, i) = GoodBefore(fs, i - 1) \o
           (IF fs[i].kind = "results" THEN GoodOf(fs, i, Len(fs[i].entries)) ELSE <<>>)
  <1>1. i - 1 \in Nat /\ (i - 1) + 1 = i
    OBVIOUS
  <1>2. GoodBefore(fs, (i - 1) + 1) = GoodBefore(fs, i - 1) \o
          (IF fs[(i - 1) + 1].kind = "results"
           THEN GoodOf(fs, (i - 1) + 1, Len(fs[(i - 1) + 1].entries)) ELSE <<>>)
    BY <1>1, GoodBeforeFacts
  <1> QED BY <1>1, <1>2

(* A file that is skipped, or cannot be opened, adds nothing.              *)
LEMMA OtherFileStep ==
  ASSUME TypeInv, ReadingInv, SkipFile \/ QueueEasyFitFile
  PROVE  ReadingInv'
  <1>1. /\ AtFile({"zombie", "no_tree", "other", "easyfit"})
        /\ fileAt' = fileAt + 1 /\ UNCHANGED <<config, pc, entryAt, read>>
    BY DEF SkipFile, QueueEasyFitFile, AtFile
  <1>2. /\ fileAt \in 1..Len(files) /\ AtPlace /\ pc = "reading"
        /\ files[fileAt].kind \in {"zombie", "no_tree", "other", "easyfit"}
        /\ files \in FileList /\ Len(files) \in Nat
    BY <1>1, AtTheFile
  <1>3. files[fileAt].kind # "results" /\ entryAt = 1 /\ ~EnoughRead(read)
    BY <1>2 DEF AtPlace
  <1>4. PlacesOf(read) = GoodBefore(files, fileAt)
    <2>1. PlacesOf(read) = GoodBefore(files, fileAt - 1) \o GoodOf(files, fileAt, 0)
      BY <1>2, <1>3 DEF AtPlace
    <2>2. GoodOf(files, fileAt, 0) = <<>>
      BY GoodOfFacts
    <2>3. GoodBefore(files, fileAt) = GoodBefore(files, fileAt - 1) \o <<>>
      <3>1. fileAt \in Nat \ {0}
        BY <1>2
      <3>2. GoodBefore(files, fileAt) = GoodBefore(files, fileAt - 1) \o
              (IF files[fileAt].kind = "results"
               THEN GoodOf(files, fileAt, Len(files[fileAt].entries)) ELSE <<>>)
        BY <3>1, OneFileMore
      <3> QED BY <1>3, <3>2
    <2> QED BY <2>1, <2>2, <2>3
  <1> QED BY <1>1, <1>2, <1>3, <1>4, MoveOn

(* After the last entry of a file its good entries have been read.         *)
LEMMA FinishFileStep ==
  ASSUME TypeInv, ReadingInv, FinishFile
  PROVE  ReadingInv'
  <1>1. /\ AtFile({"results"}) /\ entryAt' = 1 /\ UNCHANGED <<config, pc, read>>
        /\ fileAt' = IF EnoughRead(read) THEN Len(files) + 1 ELSE fileAt + 1
        /\ entryAt > Len(Entries) \/ (EnoughRead(read) /\ entryAt > 1)
    BY DEF FinishFile, FileFinished
  <1>2. /\ fileAt \in 1..Len(files) /\ AtPlace /\ files[fileAt].kind \in {"results"}
        /\ files \in FileList /\ Len(files) \in Nat /\ pc = "reading"
        /\ read \in Seq(Container) /\ entryAt \in Nat \ {0} /\ NumToysRead \in Int
        /\ Len(read) \in Nat
        /\ NumToysRead > 0 => Len(read) <= NumToysRead
    BY <1>1, AtTheFile
  <1>3. /\ PlacesOf(read) = GoodBefore(files, fileAt - 1) \o GoodOf(files, fileAt, entryAt - 1)
        /\ entryAt <= Len(files[fileAt].entries) + 1
        /\ Len(files[fileAt].entries) \in Nat
    BY <1>2, FileAtType DEF AtPlace, Entries
  <1>4. CASE EnoughRead(read)
    <2>1. entryAt - 1 \in 0..Len(files[fileAt].entries)
      BY <1>2, <1>3
    <2>2. IsPre(PlacesOf(read), GoodBefore(files, Len(files)))
      BY <1>2, <1>3, <2>1, GoodUpTo
    <2>3. /\ GoodBefore(files, Len(files)) \in Seq(Place)
      <3>1. Len(files) \in 0..Len(files)
        BY <1>2
      <3> QED BY <1>2, <3>1, GoodBeforeGrows
    <2>4. NumToysRead > 0 /\ Len(read) = NumToysRead
      BY <1>2, <1>4 DEF EnoughRead
    <2>5. PlacesOf(read) \in Seq(Place) /\ Len(PlacesOf(read)) = Len(read)
      BY <1>2, PlacesFacts
    <2>6. PlacesOf(read) = Asked
      BY <1>2, <2>2, <2>3, <2>4, <2>5, EnoughIsAsked DEF Asked
    <2>7. fileAt' = Len(files) + 1 /\ files' = files /\ NumToysRead' = NumToysRead
          /\ pc' = "reading" /\ read' = read
      BY <1>1, <1>2, <1>4 DEF files, NumToysRead
    <2>8. (PlacesOf(read) = Asked)'
      BY <2>6, <2>7 DEF PlacesOf, Asked
    <2>9. ~(fileAt' <= Len(files))
      BY <1>2, <2>7
    <2> QED BY <1>2, <2>7, <2>8, <2>9 DEF ReadingInv
  <1>5. CASE ~EnoughRead(read)
    <2>1. entryAt - 1 = Len(files[fileAt].entries)
      <3>1. entryAt > Len(files[fileAt].entries)
        BY <1>1, <1>5 DEF Entries
      <3> QED BY <1>2, <1>3, <3>1
    <2>2. PlacesOf(read) = GoodBefore(files, fileAt)
      <3>1. fileAt \in Nat \ {0} /\ files[fileAt].kind = "results"
        BY <1>2
      <3>2. GoodBefore(files, fileAt) = GoodBefore(files, fileAt - 1) \o
              (IF files[fileAt].kind = "results"
               THEN GoodOf(files, fileAt, Len(files[fileAt].entries)) ELSE <<>>)
        BY <3>1, OneFileMore
      <3> QED BY <1>3, <2>1, <3>1, <3>2
    <2>3. pc' = "reading" /\ fileAt' = fileAt + 1
      BY <1>1, <1>2, <1>5
    <2> QED BY <1>1, <1>2, <1>5, <2>2, <2>3, MoveOn
  <1> QED BY <1>4, <1>5

(* What an entry adds.                                                     *)
LEMMA EntryRead ==
  ASSUME TypeInv, ReadingInv, NEW quality, AtEntry(quality)
  PROVE  /\ ~EnoughRead(read) /\ pc = "reading" /\ fileAt \in 1..Len(files)
         /\ NumToysRead \in Int /\ Len(read) \in Nat
         /\ files[fileAt].kind = "results" /\ entryAt + 1 <= Len(Entries) + 1
         /\ entryAt + 1 # 1
         /\ (entryAt + 1) - 1 = entryAt
         /\ PlacesOf(IF quality = "good" THEN Append(read, ContainerAt(entryAt)) ELSE read)
              = GoodBefore(files, fileAt - 1) \o GoodOf(files, fileAt, entryAt)
  <1>1. AtFile({"results"}) /\ (~EnoughRead(read) \/ entryAt = 1) /\ entryAt <= Len(Entries)
        /\ Entries[entryAt].quality = quality
    BY DEF AtEntry
  <1>2. /\ fileAt \in 1..Len(files) /\ AtPlace /\ files[fileAt].kind \in {"results"}
        /\ files \in FileList /\ Len(files) \in Nat /\ pc = "reading"
        /\ read \in Seq(Container) /\ entryAt \in Nat \ {0} /\ NumToysRead \in Int
        /\ Len(read) \in Nat
    BY <1>1, AtTheFile
  <1>3. /\ ContainerAt(entryAt) \in Container /\ entryAt \in 1..Len(Entries)
        /\ Entries \in Seq(TreeEntry)
    BY EntryFacts
  <1>4. ~EnoughRead(read)
    BY <1>1, <1>2 DEF AtPlace
  <1> DEFINE a == GoodBefore(files, fileAt - 1)
             n == entryAt - 1
             g == GoodOf(files, fileAt, n)
             x == <<fileAt, entryAt>>
  <1>5. n \in Nat /\ n + 1 = entryAt /\ PlacesOf(read) = a \o g
    BY <1>2 DEF AtPlace
  <1>6. GoodOf(files, fileAt, entryAt) = IF quality = "good" THEN Append(g, x) ELSE g
    <2>1. GoodOf(files, fileAt, n + 1) =
            IF files[fileAt].entries[n + 1].quality = "good"
            THEN Append(GoodOf(files, fileAt, n), <<fileAt, n + 1>>)
            ELSE GoodOf(files, fileAt, n)
      BY <1>5, GoodOfFacts
    <2> QED BY <1>1, <1>5, <2>1 DEF Entries
  <1>7. a \in Seq(Place) /\ g \in Seq(Place) /\ x \in Place
    <2>1. Len(files[fileAt].entries) \in Nat
      BY <1>2, FileAtType
    <2>2. n \in 0..Len(files[fileAt].entries)
      BY <1>1, <1>2, <2>1 DEF Entries
    <2> QED BY <1>2, <2>2, GoodUpTo DEF Place
  <1>8. PlacesOf(Append(read, ContainerAt(entryAt))) = Append(PlacesOf(read), x)
    <2>1. ContainerAt(entryAt).file = fileAt /\ ContainerAt(entryAt).entry = entryAt
      BY DEF ContainerAt
    <2>2. \A c \in Container :
            PlacesOf(Append(read, c)) = Append(PlacesOf(read), <<c.file, c.entry>>)
      BY <1>2, PlacesFacts
    <2> QED BY <1>3, <2>1, <2>2
  <1> HIDE DEF a, g, x
  <1>9. Append(a \o g, x) = a \o Append(g, x)
    <2>1. <<x>> \in Seq(Place) /\ a \o g \in Seq(Place)
      BY <1>7
    <2>2. (a \o g) \o <<x>> = a \o (g \o <<x>>)
      BY ONLY <1>7, <2>1, ConcatAssociative, SMTT(30)
    <2> QED BY <1>7, <2>1, <2>2, AppendIsConcat
  <1>10. PlacesOf(IF quality = "good" THEN Append(read, ContainerAt(entryAt)) ELSE read)
           = a \o GoodOf(files, fileAt, entryAt)
    <2>1. CASE quality = "good"
      BY <1>5, <1>6, <1>8, <1>9, <2>1
    <2>2. CASE quality # "good"
      BY <1>5, <1>6, <2>2
    <2> QED BY <2>1, <2>2
  <1>11. entryAt + 1 <= Len(Entries) + 1 /\ entryAt + 1 # 1 /\ (entryAt + 1) - 1 = entryAt
    BY <1>2, <1>3
  <1> QED BY <1>2, <1>4, <1>10, <1>11 DEF a

(* One entry read, good or bad, keeps what a pass reads.                   *)
LEMMA EntryStep ==
  ASSUME TypeInv, ReadingInv, ReadGoodEntry \/ NeglectBadEntry
  PROVE  ReadingInv'
  <1>1. PICK quality \in {"good", "bad"} :
          /\ AtEntry(quality) /\ UNCHANGED <<config, pc, pass, fileAt>>
          /\ entryAt' = entryAt + 1
          /\ read' = IF quality = "good" THEN Append(read, ContainerAt(entryAt)) ELSE read
    BY DEF ReadGoodEntry, NeglectBadEntry
  <1>2. /\ ~EnoughRead(read) /\ pc = "reading" /\ fileAt \in 1..Len(files)
        /\ NumToysRead \in Int /\ Len(read) \in Nat
        /\ files[fileAt].kind = "results" /\ entryAt + 1 <= Len(Entries) + 1
        /\ entryAt + 1 # 1
        /\ (entryAt + 1) - 1 = entryAt
        /\ PlacesOf(read') = GoodBefore(files, fileAt - 1) \o GoodOf(files, fileAt, entryAt)
    <2>1. PlacesOf(IF quality = "good" THEN Append(read, ContainerAt(entryAt)) ELSE read)
            = GoodBefore(files, fileAt - 1) \o GoodOf(files, fileAt, entryAt)
      BY <1>1, EntryRead
    <2>2. PlacesOf(read') = GoodBefore(files, fileAt - 1) \o GoodOf(files, fileAt, entryAt)
      BY <1>1, <2>1 DEF PlacesOf
    <2> QED BY <1>1, <2>2, EntryRead
  <1>3. files' = files /\ NumToysRead' = NumToysRead /\ fileAt' = fileAt /\ pc' = pc
        /\ Entries' = Entries
    BY <1>1 DEF files, NumToysRead, Entries
  <1>4. (NumToysRead > 0 => Len(read) <= NumToysRead)'
    <2>1. Len(read') <= Len(read) + 1
      <3>1. read \in Seq(Container) /\ ContainerAt(entryAt) \in Container
        BY <1>1, EntryFacts DEF TypeInv, TypeOK
      <3> QED BY <1>1, <3>1
    <2>2. NumToysRead > 0 => Len(read) + 1 <= NumToysRead
      BY <1>2 DEF EnoughRead
    <2>3. Len(read') \in Nat
      <3>1. read \in Seq(Container) /\ ContainerAt(entryAt) \in Container
        BY <1>1, EntryFacts DEF TypeInv, TypeOK
      <3> QED BY <1>1, <3>1
    <2> QED BY <1>2, <1>3, <2>1, <2>2, <2>3
  <1>5. AtPlace'
    <2>1. entryAt' # 1
      BY <1>1, <1>2
    <2>2. files'[fileAt'].kind = "results" /\ entryAt' <= Len(Entries') + 1
      BY <1>1, <1>2, <1>3
    <2>3. \A e : entryAt' - 1 = e =>
            (GoodBefore(files, fileAt - 1) \o GoodOf(files, fileAt, entryAt - 1))'
              = GoodBefore(files, fileAt - 1) \o GoodOf(files, fileAt, e)
      BY <1>3 DEF GoodBefore, GoodOf
    <2>4. (PlacesOf(read) = GoodBefore(files, fileAt - 1) \o GoodOf(files, fileAt, entryAt - 1))'
      BY <1>1, <1>2, <2>3
    <2> QED BY <2>1, <2>2, <2>4 DEF AtPlace
  <1>6. ~(fileAt' > Len(files'))
    BY <1>2, <1>3
  <1> QED BY <1>2, <1>3, <1>4, <1>5, <1>6 DEF ReadingInv

(* A pass starts with nothing read.                                        *)
LEMMA StartStep ==
  ASSUME TypeInv, ReadingInv, ReadFitResults
  PROVE  ReadingInv'
  <1>1. /\ ~CannotRead /\ pc' = "reading" /\ fileAt' = 1 /\ entryAt' = 1 /\ read' = <<>>
        /\ UNCHANGED config
    BY DEF ReadFitResults
  <1>2. files \in FileList /\ Len(files) \in Nat /\ NumToysRead \in Int
    BY FilesType DEF TypeInv, TypeOK, FileList
  <1>3. 1 \in 1..Len(files)
    <2>1. files # <<>>
      BY <1>1 DEF CannotRead
    <2> QED BY <1>2, <2>1 DEF FileList
  <1>4. files' = files /\ NumToysRead' = NumToysRead
    BY <1>1 DEF files, NumToysRead
  <1>5. Len(read') = 0
    BY <1>1, EmptySeq
  <1>6. Len(files[1].entries) \in Nat
    BY <1>2, <1>3, FileAtType
  <1>7. PlacesOf(<<>>) = <<>>
    BY EmptySeq DEF PlacesOf
  <1>8. GoodBefore(files, 0) \o GoodOf(files, 1, 0) = <<>>
    BY GoodBeforeFacts, GoodOfFacts
  <1>9. AtPlace'
    <2>1. ~EnoughRead(read)'
      BY <1>2, <1>4, <1>5 DEF EnoughRead
    <2>2. (IF files[fileAt].kind = "results" THEN entryAt <= Len(Entries) + 1
           ELSE entryAt = 1)'
      <3>1. Len(Entries)' = Len(files[1].entries)
        BY <1>1, <1>4 DEF Entries
      <3> QED BY <1>1, <1>6, <3>1
    <2>3. PlacesOf(read)' = (GoodBefore(files, fileAt - 1) \o GoodOf(files, fileAt, entryAt - 1))'
      <3>1. fileAt' - 1 = 0 /\ entryAt' - 1 = 0
        BY <1>1
      <3>2. \A f, e : fileAt' - 1 = e /\ fileAt' = f /\ entryAt' - 1 = e =>
              (GoodBefore(files, fileAt - 1) \o GoodOf(files, fileAt, entryAt - 1))'
                = GoodBefore(files, e) \o GoodOf(files, f, e)
        BY <1>4 DEF GoodBefore, GoodOf
      <3>3. PlacesOf(read)' = PlacesOf(<<>>)
        BY <1>1 DEF PlacesOf
      <3> QED BY <1>1, <1>7, <1>8, <3>1, <3>2, <3>3
    <2> QED BY <2>1, <2>2, <2>3 DEF AtPlace
  <1> QED BY <1>1, <1>2, <1>3, <1>4, <1>5, <1>9 DEF ReadingInv

(* The steps outside a pass leave what was read and what was asked for.    *)
LEMMA StillAsked ==
  ASSUME ReadingInv, UNCHANGED position, pc' # "reading",
         (pc' # "spinning") => pc \notin {"reading", "spinning"} \/ (pc = "reading" /\ fileAt > Len(files))
  PROVE  ReadingInv'
  <1>1. files' = files /\ NumToysRead' = NumToysRead /\ pass' = pass /\ read' = read
    BY DEF position, files, NumToysRead
  <1>2. Asked' = Asked /\ PlacesOf(read)' = PlacesOf(read)
    BY <1>1 DEF Asked, PlacesOf
  <1>3. ASSUME pc' # "spinning", pass > 0
        PROVE  PlacesOf(read) = Asked
    BY <1>3 DEF ReadingInv
  <1> QED BY <1>1, <1>2, <1>3 DEF ReadingInv

(* Every step keeps what a pass reads.                                     *)
LEMMA ReadingKept ==
  ASSUME TypeInv, ReadingInv, [Next]_vars
  PROVE  ReadingInv'
  <1>1. CASE SkipFile \/ QueueEasyFitFile
    BY <1>1, OtherFileStep
  <1>2. CASE ReadGoodEntry \/ NeglectBadEntry
    BY <1>2, EntryStep
  <1>3. CASE FinishFile
    BY <1>3, FinishFileStep
  <1>4. CASE ReadFitResults
    BY <1>4, StartStep
  <1>5. CASE SpinAtNullEntry
    <2>1. UNCHANGED position /\ pc' = "spinning"
      BY <1>5 DEF SpinAtNullEntry
    <2> QED BY <2>1, StillAsked
  <1>6. CASE FinishReading
    <2>1. UNCHANGED position /\ pc' = "idle" /\ pc = "reading" /\ fileAt > Len(files)
      BY <1>6 DEF FinishReading
    <2> QED BY <2>1, StillAsked
  <1>7. CASE ReadFitResultsThrows \/ GetFitResult \/ ReleaseFitResult \/ EmptyResults
               \/ EvaluateFitResults \/ Destruct
    <2>1. UNCHANGED position /\ pc' \in {"idle", "past_end", "gone"} /\ pc = "idle"
      BY <1>7 DEF ReadFitResultsThrows, GetFitResult, ReleaseFitResult, EmptyResults,
                  EvaluateFitResults, Destruct
    <2> QED BY <2>1, StillAsked
  <1>8. CASE UNCHANGED vars
    <2>1. UNCHANGED <<position, pc, fileAt, entryAt, files, NumToysRead, pass, read>>
      BY <1>8 DEF vars, position, files, NumToysRead
    <2>2. Asked' = Asked /\ PlacesOf(read)' = PlacesOf(read) /\ AtPlace' = AtPlace
      BY <2>1 DEF Asked, PlacesOf, AtPlace, EnoughRead, NumToysRead, Entries, files,
         position, GoodBefore, GoodOf
    <2> QED BY <2>1, <2>2 DEF ReadingInv
  <1> QED BY <1>1, <1>2, <1>3, <1>4, <1>5, <1>6, <1>7, <1>8 DEF Next, Reading

(* It holds at the start.                                                  *)
LEMMA InitReadingInv == Init => ReadingInv
BY DEF Init, ReadingInv

(* At the end of a pass, all that was asked for has been read.             *)
LEMMA ReadingDone == ReadingInv => ReadsWhatIsAsked
  <1> SUFFICES ASSUME ReadingInv, pc = "idle", pass > 0
               PROVE  PlacesOf(read) = FirstOf(GoodEntries, NumToysRead)
    BY DEF ReadsWhatIsAsked, PlacesOf, FirstOf
  <1> QED BY AskedIs DEF ReadingInv, Asked

-----------------------------------------------------------------------------
(* For any files, settings and order of calls: what a pass has put into    *)
(* the read queue, when ReadFitResults returns, is the good entries of the *)
(* files that hold results, in order, as many as were asked for.           *)
THEOREM AskedIsRead == Spec => []ReadsWhatIsAsked
  <1>1. Init => TypeInv /\ ReadingInv
    BY InitTypeInv, InitReadingInv
  <1>2. TypeInv /\ ReadingInv /\ [Next]_vars => TypeInv' /\ ReadingInv'
    BY NextTypeInv, ReadingKept
  <1> QED BY <1>1, <1>2, ReadingDone, PTL DEF Spec

(* For any files and settings: a row of an evaluation that has a reference *)
(* has the result of the same toy, of the other run of the fit.            *)
THEOREM PairsAreToys == Spec => []PairedByToy
  <1>1. TypeInv => PairedByToy
    BY DEF TypeInv
  <1> QED BY <1>1, InitTypeInv, NextTypeInv, PTL DEF Spec
-----------------------------------------------------------------------------

(* The folds of EasyFitReader.                                             *)
JoinEntries(p, before, f) == before \o Easy!EntriesOf(f)
Join == INSTANCE FoldFacts WITH op <- JoinEntries

AddEntries(missing, sum, f) == IF f \in missing THEN sum ELSE sum + TreeEntries[f]
Total == INSTANCE FoldFacts WITH op <- AddEntries

Result == Easy!Files \X Nat

(* The types of the constants.                                             *)
LEMMA ConstantTypes ==
  /\ TreeEntries \in Seq(Nat)
  /\ \A f \in Easy!Files : TreeEntries[f] \in Nat /\ f \in Nat /\ f # Easy!None
  /\ CountModulus \in Nat \ {0}
  /\ MaxQueued \in Nat
  <1>1. TreeEntries \in Seq(Nat) /\ CountModulus \in Nat \ {0} /\ MaxQueued \in Nat
    BY ResultsAssumption DEF Easy!ConstantsOK
  <1>2. DOMAIN TreeEntries = 1..Len(TreeEntries)
    BY <1>1
  <1> QED BY <1>1, <1>2 DEF Easy!Files, Easy!None

(* The entries of a tree.                                                  *)
LEMMA EntriesType ==
  ASSUME NEW f \in Easy!Files
  PROVE  Easy!EntriesOf(f) \in Seq(Result) /\ Len(Easy!EntriesOf(f)) = TreeEntries[f]
  <1>1. TreeEntries[f] \in Nat
    BY ConstantTypes
  <1>2. \A e \in 1..TreeEntries[f] : <<f, e - 1>> \in Result
    BY <1>1 DEF Result
  <1> QED BY <1>1, <1>2 DEF Easy!EntriesOf

(* The entries of a queue, as a fold.                                      *)
LEMMA AllEntriesFold ==
  /\ Easy!AllEntries(<<>>) = <<>>
  /\ \A q \in Seq(Easy!Files), f \in Easy!Files :
       Easy!AllEntries(Append(q, f)) = Easy!AllEntries(q) \o Easy!EntriesOf(f)
  <1>1. \A q : Easy!AllEntries(q) = Join!Fold(0, <<>>, q)
    BY DEF Easy!AllEntries, Join!Fold, JoinEntries, Easy!FoldLeft, Join!FoldLeft,
       Easy!MapThenFoldSet, Join!MapThenFoldSet, Easy!Max, Join!Max
  <1>2. Join!Fold(0, <<>>, <<>>) = <<>>
    BY Join!FoldEmpty
  <1>3. \A q \in Seq(Easy!Files), f \in Easy!Files :
          Join!Fold(0, <<>>, Append(q, f)) = JoinEntries(0, Join!Fold(0, <<>>, q), f)
    BY Join!FoldAppend
  <1> QED BY <1>1, <1>2, <1>3 DEF JoinEntries

(* Their type.                                                             *)
LEMMA AllEntriesType ==
  ASSUME NEW q \in Seq(Easy!Files)
  PROVE  Easy!AllEntries(q) \in Seq(Result)
  <1> DEFINE T == {s \in Seq(Easy!Files) : Easy!AllEntries(s) \in Seq(Result)}
  <1>1. <<>> \in T
    <2>1. <<>> \in Seq(Easy!Files) /\ <<>> \in Seq(Result)
      BY EmptySeq
    <2> QED BY <2>1, AllEntriesFold
  <1>2. ASSUME NEW s \in Seq(Easy!Files), NEW f \in Easy!Files, s \in T
        PROVE  Append(s, f) \in T
    <2>1. Easy!EntriesOf(f) \in Seq(Result)
      BY EntriesType
    <2>2. Easy!AllEntries(s) \o Easy!EntriesOf(f) \in Seq(Result)
      BY <1>2, <2>1
    <2>3. Append(s, f) \in Seq(Easy!Files)
      OBVIOUS
    <2>4. Easy!AllEntries(Append(s, f)) = Easy!AllEntries(s) \o Easy!EntriesOf(f)
      BY AllEntriesFold
    <2> QED BY <2>2, <2>3, <2>4
  <1> HIDE DEF T
  <1>3. Seq(Easy!Files) \subseteq T
    BY <1>1, <1>2, Join!SeqSetInduction
  <1> QED BY <1>3 DEF T

(* The entries of a queue are those of its first tree, then the others.    *)
LEMMA AllEntriesFirst ==
  ASSUME NEW q \in Seq(Easy!Files), q # <<>>
  PROVE  Easy!AllEntries(q) = Easy!EntriesOf(Head(q)) \o Easy!AllEntries(Tail(q))
  <1> DEFINE First(f, s) ==
               Easy!AllEntries(<<f>> \o s) = Easy!EntriesOf(f) \o Easy!AllEntries(s)
             T == {s \in Seq(Easy!Files) : \A f \in Easy!Files : First(f, s)}
  <1>1. <<>> \in T
    <2>1. ASSUME NEW f \in Easy!Files
          PROVE  First(f, <<>>)
      <3>1. <<f>> \o <<>> = Append(<<>>, f) /\ <<>> \in Seq(Easy!Files)
        OBVIOUS
      <3>2. Easy!AllEntries(<<f>> \o <<>>) = <<>> \o Easy!EntriesOf(f)
        BY <3>1, AllEntriesFold
      <3>3. Easy!EntriesOf(f) \in Seq(Result)
        BY EntriesType
      <3> QED BY <3>2, <3>3, AllEntriesFold, ConcatEmptySeq
    <2> QED BY <2>1
  <1>2. ASSUME NEW s \in Seq(Easy!Files), NEW x \in Easy!Files, s \in T
        PROVE  Append(s, x) \in T
    <2>1. ASSUME NEW f \in Easy!Files
          PROVE  First(f, Append(s, x))
      <3>1. <<f>> \o Append(s, x) = Append(<<f>> \o s, x) /\ <<f>> \o s \in Seq(Easy!Files)
        OBVIOUS
      <3>2. Easy!AllEntries(<<f>> \o Append(s, x))
              = (Easy!EntriesOf(f) \o Easy!AllEntries(s)) \o Easy!EntriesOf(x)
        BY <1>2, <3>1, AllEntriesFold
      <3>3. /\ Easy!EntriesOf(f) \in Seq(Result) /\ Easy!EntriesOf(x) \in Seq(Result)
            /\ Easy!AllEntries(s) \in Seq(Result)
        BY EntriesType, AllEntriesType
      <3>4. Easy!AllEntries(<<f>> \o Append(s, x))
              = Easy!EntriesOf(f) \o (Easy!AllEntries(s) \o Easy!EntriesOf(x))
        <4>1. (Easy!EntriesOf(f) \o Easy!AllEntries(s)) \o Easy!EntriesOf(x)
                = Easy!EntriesOf(f) \o (Easy!AllEntries(s) \o Easy!EntriesOf(x))
          BY ONLY <3>3, ConcatAssociative, SMTT(30)
        <4> QED BY <3>2, <4>1, Zenon
      <3>5. Easy!AllEntries(Append(s, x)) = Easy!AllEntries(s) \o Easy!EntriesOf(x)
        BY AllEntriesFold
      <3> QED BY <3>4, <3>5, Zenon
    <2>2. Append(s, x) \in Seq(Easy!Files)
      OBVIOUS
    <2> QED BY <2>1, <2>2
  <1> HIDE DEF T
  <1>3. Seq(Easy!Files) \subseteq T
    BY <1>1, <1>2, Join!SeqSetInduction
  <1>4. Head(q) \in Easy!Files /\ Tail(q) \in Seq(Easy!Files) /\ q = <<Head(q)>> \o Tail(q)
    OBVIOUS
  <1> QED BY <1>3, <1>4 DEF T

(* The count: no more than the entries there are, all of them when no file *)
(* has lost its tree, and below the modulus of the unsigned counter.       *)
Times(i, n) == i * n

(* Products with a natural number, step by step.                           *)
LEMMA TimesFacts ==
  /\ \A i, n \in Nat : Times(i, n) \in Nat /\ Times(i + 1, n) = Times(i, n) + n
  /\ \A i, n, m \in Nat : Times(i, n + m) = Times(i, n) + Times(i, m)
  /\ \A i, j, n \in Nat : i <= j => Times(i, n) <= Times(j, n)
  /\ \A i, n, m \in Nat : i > 0 /\ Times(i, n) <= Times(i, m) => n <= m
  /\ \A n \in Nat : Times(0, n) = 0
  <1>1. \A i, n \in Nat : i * n \in Nat /\ (i + 1) * n = i * n + n
    BY SMT
  <1>2. \A i, n, m \in Nat : i * (n + m) = i * n + i * m
    BY SMT
  <1>3. ASSUME NEW i \in Nat, NEW j \in Nat, NEW n \in Nat, i <= j
        PROVE  i * n <= j * n
    <2>1. (j - i) * n >= 0
      BY <1>3, SMT
    <2>2. (j - i) * n = j * n - i * n
      BY SMT
    <2>3. j * n \in Int /\ i * n \in Int
      BY SMT
    <2> QED BY <2>1, <2>2, <2>3
  <1>4. ASSUME NEW i \in Nat, NEW n \in Nat, NEW m \in Nat, i > 0, n > m
        PROVE  i * n > i * m
    <2>1. i * (n - m) > 0
      BY <1>4, SMT
    <2>2. i * (n - m) = i * n - i * m
      BY SMT
    <2>3. i * n \in Int /\ i * m \in Int
      BY SMT
    <2> QED BY <2>1, <2>2, <2>3
  <1>5. \A n \in Nat : 0 * n = 0
    BY SMT
  <1>6. \A i, n, m \in Nat : i > 0 /\ i * n <= i * m => n <= m
    BY <1>1, <1>4
  <1> QED BY <1>1, <1>2, <1>3, <1>5, <1>6 DEF Times

(* A number below the modulus is its own remainder.                        *)
LEMMA ModFacts ==
  ASSUME NEW m \in Nat \ {0}
  PROVE  /\ \A n \in 0..m - 1 : n % m = n
         /\ \A n \in 1..m - 1 : (n + m - 1) % m = n - 1
         /\ \A n \in Nat : n % m \in 0..m - 1
  <1>1. \A n \in 0..m - 1 : n % m = n
    BY SMT
  <1>2. \A n \in 1..m - 1 : (n + m - 1) % m = n - 1
    BY SMT
  <1>3. \A n \in Nat : n % m \in 0..m - 1
    BY SMT
  <1> QED BY <1>1, <1>2, <1>3

(* The sum over a queue: bounded, and below the modulus.                   *)
LEMMA CountFold ==
  ASSUME NEW q \in Seq(Easy!Files)
  PROVE  /\ Total!Fold(lost, 0, q) \in Nat
         /\ Total!Fold(lost, 0, q) <= Len(Easy!AllEntries(q))
         /\ lost = {} => Total!Fold(lost, 0, q) = Len(Easy!AllEntries(q))
         /\ MaxQueued > 0 => Times(MaxQueued, Total!Fold(lost, 0, q)) <= Times(Len(q), CountModulus - 1)
  <1> DEFINE P(s) == /\ Total!Fold(lost, 0, s) \in Nat
                     /\ Total!Fold(lost, 0, s) <= Len(Easy!AllEntries(s))
                     /\ lost = {} => Total!Fold(lost, 0, s) = Len(Easy!AllEntries(s))
                     /\ MaxQueued > 0 => Times(MaxQueued, Total!Fold(lost, 0, s)) <= Times(Len(s), CountModulus - 1)
             T == {s \in Seq(Easy!Files) : P(s)}
  <1>0. MaxQueued \in Nat /\ CountModulus - 1 \in Nat
    BY ConstantTypes
  <1>1. <<>> \in T
    <2>1. Total!Fold(lost, 0, <<>>) = 0 /\ Easy!AllEntries(<<>>) = <<>> /\ Len(<<>>) = 0
      BY Total!FoldEmpty, AllEntriesFold
    <2>2. Times(MaxQueued, 0) = 0 /\ Times(0, CountModulus - 1) = 0
      BY <1>0, SMT DEF Times
    <2>3. P(<<>>)
      BY <2>1, <2>2
    <2>4. <<>> \in Seq(Easy!Files)
      BY EmptySeq
    <2> QED BY <2>3, <2>4
  <1>2. ASSUME NEW s \in Seq(Easy!Files), NEW f \in Easy!Files, s \in T
        PROVE  Append(s, f) \in T
    <2> DEFINE n == Total!Fold(lost, 0, s)
               m == TreeEntries[f]
    <2>1. /\ Total!Fold(lost, 0, Append(s, f)) = IF f \in lost THEN n ELSE n + m
          /\ Len(Append(s, f)) = Len(s) + 1 /\ Len(s) \in Nat
          /\ Append(s, f) \in Seq(Easy!Files)
      <3>1. Total!Fold(lost, 0, Append(s, f)) = AddEntries(lost, Total!Fold(lost, 0, s), f)
        BY Total!FoldAppend
      <3> QED BY <3>1 DEF AddEntries
    <2>2. P(s) /\ m \in Nat
      BY <1>2, ConstantTypes
    <2>3. /\ Len(Easy!AllEntries(s)) \in Nat
          /\ Len(Easy!AllEntries(Append(s, f))) = Len(Easy!AllEntries(s)) + m
      <3>1. Easy!AllEntries(s) \in Seq(Result) /\ Easy!EntriesOf(f) \in Seq(Result)
            /\ Len(Easy!EntriesOf(f)) = m
        BY AllEntriesType, EntriesType
      <3>2. Easy!AllEntries(Append(s, f)) = Easy!AllEntries(s) \o Easy!EntriesOf(f)
        BY AllEntriesFold
      <3> QED BY <3>1, <3>2, ConcatProperties, LenProperties
    <2>4. MaxQueued > 0 => Times(MaxQueued, Total!Fold(lost, 0, Append(s, f)))
                             <= Times(Len(s) + 1, CountModulus - 1)
      <3> SUFFICES ASSUME MaxQueued > 0
                   PROVE  Times(MaxQueued, Total!Fold(lost, 0, Append(s, f)))
                            <= Times(Len(s) + 1, CountModulus - 1)
        OBVIOUS
      <3> DEFINE M == CountModulus - 1
      <3>1. Times(MaxQueued, m) <= M
        <4>1. MaxQueued * m < CountModulus /\ MaxQueued * m \in Nat
          BY <1>0, <2>2, ResultsAssumption, SMT DEF Easy!ConstantsOK
        <4> QED BY <4>1, ConstantTypes DEF Times
      <3>2. Times(Len(s) + 1, M) = Times(Len(s), M) + M /\ Times(Len(s), M) \in Nat
        BY <1>0, <2>1, TimesFacts
      <3>3. Times(MaxQueued, n + m) = Times(MaxQueued, n) + Times(MaxQueued, m)
            /\ Times(MaxQueued, n) \in Nat /\ Times(MaxQueued, m) \in Nat
        <4>1. n \in Nat /\ m \in Nat
          BY <2>2
        <4> HIDE DEF n, m
        <4>2. Times(MaxQueued, n) \in Nat /\ Times(MaxQueued, m) \in Nat
          BY <1>0, <4>1, TimesFacts
        <4>3. \A i, a, b \in Nat : Times(i, a + b) = Times(i, a) + Times(i, b)
          BY TimesFacts
        <4> QED BY <1>0, <4>1, <4>2, <4>3
      <3>4. Times(MaxQueued, n) <= Times(Len(s), M)
        BY <2>2, Zenon
      <3> HIDE DEF n, m
      <3> QED BY <1>0, <2>1, <3>1, <3>2, <3>3, <3>4
    <2>5. P(Append(s, f))
      BY <2>1, <2>2, <2>3, <2>4
    <2> QED BY <2>1, <2>5
  <1> HIDE DEF T
  <1>3. Seq(Easy!Files) \subseteq T
    BY <1>1, <1>2, Join!SeqSetInduction
  <1>4. q \in T
    BY <1>3
  <1> QED BY <1>4 DEF T

(* The same of what the model counts.                                      *)
LEMMA CountFacts ==
  ASSUME queue \in Seq(Easy!Files), Len(queue) <= MaxQueued
  PROVE  /\ Easy!CountEntries \in 0..CountModulus - 1
         /\ Easy!CountEntries <= Len(Easy!AllEntries(queue))
         /\ lost = {} => Easy!CountEntries = Len(Easy!AllEntries(queue))
  <1>1. Easy!CountEntries = Total!Fold(lost, 0, queue)
    BY DEF Easy!CountEntries, Total!Fold, AddEntries, Easy!FoldLeft, Total!FoldLeft,
       Easy!MapThenFoldSet, Total!MapThenFoldSet, Easy!Max, Total!Max
  <1>2. MaxQueued \in Nat /\ CountModulus - 1 \in Nat /\ Len(queue) \in Nat
    BY ConstantTypes
  <1>3. Total!Fold(lost, 0, queue) <= CountModulus - 1
    <2>1. CASE queue = <<>>
      BY <1>2, <2>1, Total!FoldEmpty
    <2>2. CASE queue # <<>>
      <3>1. MaxQueued > 0
        BY <1>2, <2>2, EmptySeq
      <3>2. Times(MaxQueued, Total!Fold(lost, 0, queue)) <= Times(Len(queue), CountModulus - 1)
            /\ Total!Fold(lost, 0, queue) \in Nat
        BY <3>1, CountFold
      <3>3. Times(Len(queue), CountModulus - 1) <= Times(MaxQueued, CountModulus - 1)
        BY <1>2, TimesFacts
      <3>4. Times(MaxQueued, Total!Fold(lost, 0, queue)) <= Times(MaxQueued, CountModulus - 1)
        <4>1. \A a, b, c \in Nat : a <= b /\ b <= c => a <= c
          OBVIOUS
        <4>2. Times(MaxQueued, Total!Fold(lost, 0, queue)) \in Nat
              /\ Times(MaxQueued, CountModulus - 1) \in Nat
              /\ Times(Len(queue), CountModulus - 1) \in Nat
          BY <1>2, <3>2, TimesFacts
        <4> QED BY <3>2, <3>3, <4>1, <4>2
      <3>5. \A i, n, m \in Nat : i > 0 /\ Times(i, n) <= Times(i, m) => n <= m
        BY TimesFacts
      <3> QED BY <1>2, <3>1, <3>2, <3>4, <3>5, Zenon
    <2> QED BY <2>1, <2>2
  <1> QED BY <1>1, <1>2, <1>3, CountFold

-----------------------------------------------------------------------------
RestFrom(f, at) == SubSeq(Easy!EntriesOf(f), at + 1, TreeEntries[f])
Rest == IF open = Easy!None THEN <<>> ELSE RestFrom(open, easyPosition)

(* Where a tree that is open may be read.                                  *)
MayBeAt(f, at) == at < TreeEntries[f] \/ (TreeEntries[f] = 0 /\ at <= 1)

QueueBounded == Len(queue) <= Len(queued) /\ Len(queued) <= MaxQueued
PositionInv ==
  open # Easy!None =>
    easyPosition < TreeEntries[open] \/ (TreeEntries[open] = 0 /\ easyPosition = 1)

(* A caller that counts first: the number is that of the rest of the open  *)
(* tree and of some trees of the queue.                                    *)
PrefixLen(q, k) == Len(Easy!AllEntries(SubSeq(q, 1, k)))
NumberInv ==
  (caller = "counts_first" /\ ~crashed) =>
    /\ shown = "some" => num # 0
    /\ num <= Len(Easy!Pending)
    /\ (shown = "zero" /\ lost = {}) => Easy!Pending = <<>>
    /\ (lost = {} /\ ~Easy!EmptyTreeOpen) =>
         \E k \in 0..Len(queue) : num = Len(Rest) + PrefixLen(queue, k)

EasyInv ==
  /\ Easy!TypeOK
  /\ QueueBounded
  /\ PositionInv
  /\ Easy!DeliveredInOrder
  /\ NumberInv

(* What is pending: the rest of the open tree, then the queue.             *)
LEMMA PendingIs == Easy!Pending = Rest \o Easy!AllEntries(queue)
BY DEF Easy!Pending, Rest, RestFrom

(* The rest of a tree, before and after one entry.                         *)
LEMMA RestFacts ==
  ASSUME NEW f \in Easy!Files, NEW at \in Nat, MayBeAt(f, at)
  PROVE  /\ RestFrom(f, at) \in Seq(Result)
         /\ Len(RestFrom(f, at)) = TreeEntries[f] - at \/ RestFrom(f, at) = <<>>
         /\ TreeEntries[f] = 0 => RestFrom(f, at) = <<>>
         /\ at < TreeEntries[f] =>
              /\ RestFrom(f, at) = <<(<<f, at>>)>> \o RestFrom(f, at + 1)
              /\ RestFrom(f, at + 1) \in Seq(Result)
              /\ Len(RestFrom(f, at)) = Len(RestFrom(f, at + 1)) + 1
              /\ at + 1 = TreeEntries[f] => RestFrom(f, at + 1) = <<>>
         /\ at = 0 => RestFrom(f, at) = Easy!EntriesOf(f)
  <1> DEFINE s == Easy!EntriesOf(f)
             n == TreeEntries[f]
  <1>1. s \in Seq(Result) /\ Len(s) = n /\ n \in Nat
    BY EntriesType, ConstantTypes
  <1>2. \A i \in 1..n : s[i] = <<f, i - 1>>
    BY DEF Easy!EntriesOf
  <1> HIDE DEF s, n
  <1>3. CASE at < n
    <2>1. at + 1 \in 1..Len(s) /\ n \in at + 1..Len(s) /\ s[at + 1] = <<f, at>>
      BY <1>1, <1>2, <1>3
    <2>2. SubSeq(s, at + 1, n) = <<s[at + 1]>> \o SubSeq(s, at + 2, n)
      <3>1. (at + 1) + 1 = at + 2
        OBVIOUS
      <3> QED BY <1>1, <2>1, <3>1, SubSeqRecursiveFirst
    <2>3. /\ SubSeq(s, at + 1, n) \in Seq(Result) /\ Len(SubSeq(s, at + 1, n)) = n - at
      <3>1. at + 1 \in Int /\ n \in Int /\ at + 1 <= n /\ n - (at + 1) + 1 = n - at
        BY <1>1, <1>3
      <3>2. \A i \in at + 1..n : s[i] \in Result
        BY <1>1
      <3> QED BY <3>1, <3>2, SubSeqProperties
    <2>4. /\ SubSeq(s, at + 2, n) \in Seq(Result)
          /\ Len(SubSeq(s, at + 2, n)) = n - (at + 1)
      <3>1. at + 2 \in Int /\ n \in Int /\ n - (at + 2) + 1 = n - (at + 1)
            /\ (~(at + 2 <= n) => n - (at + 1) = 0)
        BY <1>1, <1>3
      <3>2. \A i \in at + 2..n : s[i] \in Result
        BY <1>1
      <3>3. CASE at + 2 <= n
        BY <3>1, <3>2, <3>3, SubSeqProperties
      <3>4. CASE ~(at + 2 <= n)
        BY <3>1, <3>4, SubSeqEmpty, EmptySeq
      <3> QED BY <3>3, <3>4
    <2>5. at + 1 = n => SubSeq(s, at + 2, n) = <<>>
      BY <1>1, SubSeqEmpty
    <2>6. at = 0 => SubSeq(s, at + 1, n) = s
      BY <1>1, SubSeqFull
    <2>7. (at + 1) + 1 = at + 2 /\ n # 0 /\ n - at = n - (at + 1) + 1
      BY <1>1, <1>3
    <2> QED BY <1>3, <2>1, <2>2, <2>3, <2>4, <2>5, <2>6, <2>7 DEF RestFrom, s, n
  <1>4. CASE n = 0
    <2>1. SubSeq(s, at + 1, n) = <<>> /\ s = <<>>
      <3>1. n < at + 1 /\ n \in Int /\ at + 1 \in Int
        BY <1>4
      <3> QED BY <1>1, <1>4, <3>1, SubSeqEmpty, EmptySeq
    <2> QED BY <1>4, <2>1, EmptySeq DEF RestFrom, s, n
  <1> QED BY <1>3, <1>4 DEF MayBeAt, n

(* The type of the rest of the open tree.                                  *)
LEMMA RestType ==
  ASSUME Easy!TypeOK, PositionInv
  PROVE  /\ Rest \in Seq(Result) /\ Easy!AllEntries(queue) \in Seq(Result)
         /\ Easy!Pending \in Seq(Result)
         /\ Len(Easy!Pending) = Len(Rest) + Len(Easy!AllEntries(queue))
         /\ open # Easy!None => open \in Easy!Files /\ MayBeAt(open, easyPosition)
  <1>1. open # Easy!None => open \in Easy!Files /\ easyPosition \in Nat
          /\ MayBeAt(open, easyPosition)
    BY DEF Easy!TypeOK, PositionInv, MayBeAt
  <1>2. Rest \in Seq(Result)
    BY <1>1, RestFacts, EmptySeq DEF Rest
  <1>3. Easy!AllEntries(queue) \in Seq(Result)
    BY AllEntriesType DEF Easy!TypeOK
  <1> QED BY <1>1, <1>2, <1>3, PendingIs, ConcatProperties

(* GetEasyFitResult loads the entry at a position of a tree.               *)
LEMMA LoadFacts ==
  ASSUME Easy!TypeOK, NEW f \in Easy!Files, NEW at \in Nat, MayBeAt(f, at),
         NEW before, before \in {<<f>>, result}, Easy!Load(f, at, before)
  PROVE  /\ PositionInv' /\ Rest' \in Seq(Result)
         /\ delivered' \in Seq(Result)
         /\ delivered' \o Rest' = delivered \o RestFrom(f, at)
         /\ Len(Rest') <= Len(RestFrom(f, at)) /\ Len(RestFrom(f, at)) <= Len(Rest') + 1
         /\ ~Easy!EmptyTreeOpen' =>
              TreeEntries[f] # 0 /\ Len(RestFrom(f, at)) = Len(Rest') + 1
         /\ easyPosition' \in Nat /\ open' \in {Easy!None, f} /\ shown' = "unknown"
         /\ result' \in {<<>>} \cup {<<g>> : g \in Easy!Files} \cup Result
  <1> DEFINE n == TreeEntries[f]
  <1>1. n \in Nat /\ f # Easy!None /\ delivered \in Seq(Result)
    BY ConstantTypes DEF Easy!TypeOK, Result
  <1>2. /\ result' = IF at < n THEN <<f, at>> ELSE before
        /\ delivered' = IF at < n THEN Append(delivered, <<f, at>>) ELSE delivered
        /\ easyPosition' = IF at > n THEN at ELSE at + 1
        /\ open' = IF at + 1 = n THEN Easy!None ELSE f
        /\ shown' = "unknown"
    BY DEF Easy!Load
  <1>3. <<f, at>> \in Result
    BY DEF Result
  <1>4. result' \in {<<>>} \cup {<<g>> : g \in Easy!Files} \cup Result
    BY <1>2, <1>3 DEF Easy!TypeOK, Result
  <1>5. \A o, p : open' = o /\ easyPosition' = p =>
          Rest' = IF o = Easy!None THEN <<>> ELSE RestFrom(o, p)
    BY DEF Rest, RestFrom, Easy!EntriesOf, Easy!None
  <1>6. CASE at < n
    <2>1. /\ RestFrom(f, at) = <<(<<f, at>>)>> \o RestFrom(f, at + 1)
          /\ RestFrom(f, at + 1) \in Seq(Result)
          /\ Len(RestFrom(f, at)) = Len(RestFrom(f, at + 1)) + 1
          /\ at + 1 = n => RestFrom(f, at + 1) = <<>>
      BY <1>6, RestFacts
    <2>2. easyPosition' = at + 1 /\ easyPosition' \in Nat
      BY <1>1, <1>2, <1>6
    <2>3. Rest' = RestFrom(f, at + 1)
      <3>1. CASE at + 1 = n
        BY <1>2, <1>5, <2>1, <2>2, <3>1
      <3>2. CASE at + 1 # n
        BY <1>1, <1>2, <1>5, <2>2, <3>2
      <3> QED BY <3>1, <3>2
    <2>4. PositionInv'
      BY <1>1, <1>2, <1>6, <2>2 DEF PositionInv, Easy!None
    <2>5. delivered' = delivered \o <<(<<f, at>>)>> /\ delivered' \in Seq(Result)
      BY <1>1, <1>2, <1>3, <1>6, AppendIsConcat, AppendProperties
    <2>6. delivered' \o Rest' = delivered \o RestFrom(f, at)
      <3>1. <<(<<f, at>>)>> \in Seq(Result)
        BY <1>3
      <3>2. (delivered \o <<(<<f, at>>)>>) \o RestFrom(f, at + 1)
              = delivered \o (<<(<<f, at>>)>> \o RestFrom(f, at + 1))
        BY ONLY <1>1, <2>1, <3>1, ConcatAssociative, SMTT(30)
      <3> QED BY <2>1, <2>3, <2>5, <3>2, Zenon
    <2>7. Len(Rest') \in Nat /\ Len(RestFrom(f, at)) = Len(Rest') + 1
      BY <2>1, <2>3, LenProperties
    <2>8. Len(Rest') <= Len(RestFrom(f, at)) /\ Len(RestFrom(f, at)) <= Len(Rest') + 1
      BY <2>7
    <2>9. Rest' \in Seq(Result)
      BY <2>1, <2>3
    <2>10. n # 0
      BY <1>1, <1>6
    <2> QED BY <1>2, <1>4, <2>2, <2>4, <2>5, <2>6, <2>7, <2>8, <2>9, <2>10
  <1>7. CASE n = 0
    <2>1. at <= 1 /\ ~(at < n)
      BY <1>7 DEF MayBeAt
    <2>2. easyPosition' = 1 /\ open' = f
      BY <1>2, <1>7, <2>1
    <2>3. RestFrom(f, at) = <<>> /\ RestFrom(f, 1) = <<>>
      <3>1. \A p \in {at, 1} : p \in Nat /\ MayBeAt(f, p)
        BY <1>7, <2>1 DEF MayBeAt
      <3> QED BY <1>7, <3>1, RestFacts
    <2>4. Rest' = <<>>
      BY <1>1, <1>5, <2>2, <2>3
    <2>5. PositionInv'
      BY <1>1, <1>7, <2>2 DEF PositionInv
    <2>6. Easy!EmptyTreeOpen'
      BY <1>1, <1>7, <2>2 DEF Easy!EmptyTreeOpen, Easy!None
    <2> QED BY <1>1, <1>2, <1>4, <2>1, <2>2, <2>3, <2>4, <2>5, <2>6, EmptySeq
  <1> QED BY <1>6, <1>7 DEF MayBeAt

(* Pending after a step is made of the values after it.                    *)
LEMMA PendingLater ==
  ASSUME NEW q, queue' = q
  PROVE  Easy!Pending' = Rest' \o Easy!AllEntries(q)
BY DEF Easy!Pending, Rest, RestFrom

(* The number of entries of the first trees of a queue.                    *)
LEMMA PrefixFacts ==
  ASSUME NEW q \in Seq(Easy!Files)
  PROVE  /\ \A k \in 0..Len(q) : PrefixLen(q, k) \in Nat
         /\ PrefixLen(q, 0) = 0
         /\ PrefixLen(q, Len(q)) = Len(Easy!AllEntries(q))
         /\ \A f \in Easy!Files, k \in 0..Len(q) : PrefixLen(Append(q, f), k) = PrefixLen(q, k)
         /\ q # <<>> => \A k \in 1..Len(q) :
              PrefixLen(q, k) = TreeEntries[Head(q)] + PrefixLen(Tail(q), k - 1)
  <1>1. \A k \in 0..Len(q) : SubSeq(q, 1, k) \in Seq(Easy!Files)
    OBVIOUS
  <1>2. \A s \in Seq(Easy!Files) : Len(Easy!AllEntries(s)) \in Nat
    BY AllEntriesType, LenProperties
  <1>3. \A k \in 0..Len(q) : PrefixLen(q, k) \in Nat
    BY <1>1, <1>2 DEF PrefixLen
  <1>4. PrefixLen(q, 0) = 0
    <2>1. SubSeq(q, 1, 0) = <<>>
      OBVIOUS
    <2> QED BY <2>1, AllEntriesFold, EmptySeq DEF PrefixLen
  <1>5. PrefixLen(q, Len(q)) = Len(Easy!AllEntries(q))
    <2>1. SubSeq(q, 1, Len(q)) = q
      BY SubSeqFull
    <2> QED BY <2>1 DEF PrefixLen
  <1>6. ASSUME NEW f \in Easy!Files, NEW k \in 0..Len(q)
        PROVE  PrefixLen(Append(q, f), k) = PrefixLen(q, k)
    <2>1. SubSeq(Append(q, f), 1, k) = SubSeq(q, 1, k)
      OBVIOUS
    <2> QED BY <2>1 DEF PrefixLen
  <1>7. ASSUME q # <<>>, NEW k \in 1..Len(q)
        PROVE  PrefixLen(q, k) = TreeEntries[Head(q)] + PrefixLen(Tail(q), k - 1)
    <2> DEFINE p == SubSeq(q, 1, k)
    <2>1. p \in Seq(Easy!Files) /\ p # <<>> /\ Head(p) = Head(q)
          /\ Tail(p) = SubSeq(Tail(q), 1, k - 1)
          /\ Head(q) \in Easy!Files /\ Tail(p) \in Seq(Easy!Files)
      <3>1. p \in Seq(Easy!Files) /\ Len(p) = k /\ \A i \in 1..k : p[i] = q[i]
        OBVIOUS
      <3>2. Tail(q) \in Seq(Easy!Files) /\ Len(Tail(q)) = Len(q) - 1
            /\ \A i \in 1..Len(q) - 1 : Tail(q)[i] = q[i + 1]
        BY <1>7
      <3> DEFINE t == SubSeq(Tail(q), 1, k - 1)
      <3>3. t \in Seq(Easy!Files) /\ Len(t) = k - 1
            /\ \A i \in 1..k - 1 : t[i] = Tail(q)[i]
        BY <3>2
      <3> HIDE DEF p, t
      <3>4. p # <<>> /\ Head(p) = p[1] /\ Tail(p) \in Seq(Easy!Files)
            /\ Len(Tail(p)) = k - 1 /\ \A i \in 1..k - 1 : Tail(p)[i] = p[i + 1]
        BY <3>1
      <3>5. Tail(p) = t
        <4>1. \A i \in 1..k - 1 : Tail(p)[i] = t[i]
          BY <3>1, <3>2, <3>3, <3>4
        <4> QED BY <3>3, <3>4, <4>1
      <3>6. Head(q) = q[1] /\ Head(q) \in Easy!Files
        BY <1>7
      <3> QED BY <3>1, <3>4, <3>5, <3>6 DEF t
    <2>2. Easy!AllEntries(p) = Easy!EntriesOf(Head(p)) \o Easy!AllEntries(Tail(p))
      <3> HIDE DEF p
      <3> QED BY <2>1, AllEntriesFirst
    <2>3. Easy!EntriesOf(Head(q)) \in Seq(Result) /\ Easy!AllEntries(Tail(p)) \in Seq(Result)
          /\ Len(Easy!EntriesOf(Head(q))) = TreeEntries[Head(q)]
      BY <2>1, EntriesType, AllEntriesType
    <2>4. Len(Easy!AllEntries(p)) = TreeEntries[Head(q)] + Len(Easy!AllEntries(Tail(p)))
      <3> HIDE DEF p
      <3> QED BY <2>1, <2>2, <2>3, ConcatProperties
    <2> QED BY <2>1, <2>4 DEF PrefixLen
  <1> QED BY <1>3, <1>4, <1>5, <1>6, <1>7

-----------------------------------------------------------------------------
(* Each step keeps the invariant.                                          *)
LEMMA EasyInitial == Easy!Init => EasyInv
  <1> SUFFICES ASSUME Easy!Init PROVE EasyInv
    OBVIOUS
  <1>1. /\ caller \in Callers /\ queue = <<>> /\ open = Easy!None /\ easyPosition = 0
        /\ num = 0 /\ result = <<>> /\ shown = "unknown" /\ crashed = FALSE /\ lost = {}
        /\ queued = <<>> /\ delivered = <<>>
    BY DEF Easy!Init
  <1>2. CountModulus \in Nat \ {0} /\ MaxQueued \in Nat
    BY ConstantTypes
  <1>3. Easy!TypeOK
    <2>1. num \in 0..CountModulus - 1
      BY <1>1, <1>2
    <2>2. /\ queue \in Seq(Easy!Files) /\ queued \in Seq(Easy!Files)
          /\ delivered \in Seq(Easy!Files \X Nat)
      BY <1>1, EmptySeq
    <2> QED BY <1>1, <2>1, <2>2 DEF Easy!TypeOK
  <1>4. QueueBounded /\ PositionInv
    BY <1>1, <1>2 DEF QueueBounded, PositionInv
  <1>5. Rest = <<>> /\ Easy!AllEntries(queue) = <<>> /\ Easy!Pending = <<>>
    BY <1>1, PendingIs, AllEntriesFold DEF Rest
  <1>6. Easy!DeliveredInOrder
    BY <1>1, <1>5, AllEntriesFold DEF Easy!DeliveredInOrder
  <1>7. NumberInv
    <2>1. num = Len(Rest) + PrefixLen(queue, 0) /\ 0 \in 0..Len(queue) /\ Len(Easy!Pending) = 0
      <3>1. PrefixLen(queue, 0) = 0 /\ Len(<<>>) = 0
        BY <1>1, EmptySeq, PrefixFacts
      <3> QED BY <1>1, <1>5, <3>1
    <2> QED BY <1>1, <1>5, <2>1 DEF NumberInv
  <1> QED BY <1>3, <1>4, <1>6, <1>7 DEF EasyInv

(* A tree that is queued goes to the end.                                  *)
LEMMA QueueStep ==
  ASSUME EasyInv, NEW f \in Easy!Files, Easy!QueueTree(f)
  PROVE  EasyInv'
  <1>1. /\ queue' = Append(queue, f) /\ queued' = Append(queued, f) /\ shown' = "unknown"
        /\ Len(queued) < MaxQueued /\ ~crashed
        /\ UNCHANGED <<caller, open, easyPosition, num, result, crashed, lost, delivered>>
    BY DEF Easy!QueueTree
  <1>2. Easy!TypeOK /\ QueueBounded /\ PositionInv /\ Easy!DeliveredInOrder /\ NumberInv
    BY DEF EasyInv
  <1>3. queue \in Seq(Easy!Files) /\ queued \in Seq(Easy!Files) /\ MaxQueued \in Nat
        /\ num \in Nat /\ delivered \in Seq(Result)
    BY <1>2, ConstantTypes DEF Easy!TypeOK, Result
  <1>4. Easy!TypeOK'
    BY <1>1, <1>2, <1>3 DEF Easy!TypeOK
  <1>5. QueueBounded' /\ PositionInv'
    BY <1>1, <1>2, <1>3 DEF QueueBounded, PositionInv
  <1>6. Rest' = Rest
    BY <1>1 DEF Rest
  <1>7. /\ Easy!AllEntries(Append(queue, f)) = Easy!AllEntries(queue) \o Easy!EntriesOf(f)
        /\ Easy!AllEntries(Append(queued, f)) = Easy!AllEntries(queued) \o Easy!EntriesOf(f)
    BY <1>3, AllEntriesFold
  <1>8. /\ Rest \in Seq(Result) /\ Easy!AllEntries(queue) \in Seq(Result)
        /\ Easy!EntriesOf(f) \in Seq(Result)
        /\ Easy!Pending \in Seq(Result)
    BY <1>2, RestType, EntriesType
  <1>9. Easy!Pending' = Easy!Pending \o Easy!EntriesOf(f)
    <2>1. Easy!Pending' = Rest \o Easy!AllEntries(Append(queue, f))
      BY <1>1, <1>6, PendingLater
    <2>2. Rest \o (Easy!AllEntries(queue) \o Easy!EntriesOf(f))
            = (Rest \o Easy!AllEntries(queue)) \o Easy!EntriesOf(f)
      BY ONLY <1>8, ConcatAssociative, SMTT(30)
    <2> QED BY <1>7, <2>1, <2>2, PendingIs, Zenon
  <1>10. Easy!DeliveredInOrder'
    <2>1. delivered \o Easy!Pending = Easy!AllEntries(queued)
      BY <1>1, <1>2 DEF Easy!DeliveredInOrder
    <2>2. delivered \o (Easy!Pending \o Easy!EntriesOf(f))
            = (delivered \o Easy!Pending) \o Easy!EntriesOf(f)
      BY ONLY <1>3, <1>8, ConcatAssociative, SMTT(30)
    <2>3. delivered' \o Easy!Pending' = Easy!AllEntries(Append(queued, f))
      BY <1>1, <1>7, <1>9, <2>1, <2>2, Zenon
    <2>4. \A q : queued' = q =>
            (delivered' \o Easy!Pending' = Easy!AllEntries(q) => Easy!DeliveredInOrder')
      BY DEF Easy!DeliveredInOrder
    <2> QED BY <1>1, <2>3, <2>4
  <1>11. NumberInv'
    <2>1. Len(Easy!Pending) <= Len(Easy!Pending') /\ Len(Easy!Pending) \in Nat
          /\ Len(Easy!Pending') \in Nat
      BY <1>8, <1>9, ConcatProperties, LenProperties
    <2>2. Easy!EmptyTreeOpen' = Easy!EmptyTreeOpen
      BY <1>1 DEF Easy!EmptyTreeOpen
    <2>3. ASSUME NEW k \in 0..Len(queue)
          PROVE  k \in 0..Len(queue') /\ PrefixLen(queue', k) = PrefixLen(queue, k)
      BY <1>1, <1>3, PrefixFacts
    <2> QED BY <1>1, <1>2, <1>3, <1>6, <2>1, <2>2, <2>3 DEF NumberInv
  <1> QED BY <1>4, <1>5, <1>10, <1>11 DEF EasyInv

(* A file whose tree vanishes.                                             *)
LEMMA LoseStep ==
  ASSUME EasyInv, NEW f \in Easy!Files, Easy!LoseTree(f)
  PROVE  EasyInv'
  <1>1. /\ lost' = lost \cup {f} /\ lost' # {} /\ lost' \subseteq Easy!Files
        /\ UNCHANGED <<caller, queue, open, easyPosition, num, result, shown, crashed,
                       queued, delivered>>
    BY DEF Easy!LoseTree, EasyInv, Easy!TypeOK
  <1>2. Easy!TypeOK'
    BY <1>1 DEF EasyInv, Easy!TypeOK
  <1>3. QueueBounded' /\ PositionInv'
    BY <1>1 DEF EasyInv, QueueBounded, PositionInv
  <1>4. Easy!Pending' = Easy!Pending
    BY <1>1 DEF Easy!Pending
  <1>5. Easy!DeliveredInOrder'
    BY <1>1, <1>4 DEF EasyInv, Easy!DeliveredInOrder
  <1>6. NumberInv'
    BY <1>1, <1>4 DEF EasyInv, NumberInv
  <1> QED BY <1>2, <1>3, <1>5, <1>6 DEF EasyInv

(* NumberOfAvailableEasyFitResults promises no more than there is.         *)
LEMMA CountStep ==
  ASSUME EasyInv, Easy!NumberOfAvailableEasyFitResults
  PROVE  EasyInv'
  <1>1. /\ num' = IF num = 0 THEN Easy!CountEntries % CountModulus ELSE num
        /\ shown' = IF num' = 0 THEN "zero" ELSE "some"
        /\ UNCHANGED <<caller, queue, open, easyPosition, result, crashed, lost, queued,
                       delivered>>
    BY DEF Easy!NumberOfAvailableEasyFitResults
  <1>2. Easy!TypeOK /\ QueueBounded /\ PositionInv /\ Easy!DeliveredInOrder /\ NumberInv
    BY DEF EasyInv
  <1>3. queue \in Seq(Easy!Files) /\ Len(queue) <= MaxQueued /\ num \in Nat
    <2>1. queued \in Seq(Easy!Files) /\ queue \in Seq(Easy!Files) /\ num \in 0..CountModulus - 1
      BY <1>2 DEF Easy!TypeOK
    <2> QED BY <1>2, <2>1, ConstantTypes DEF QueueBounded
  <1>4. /\ Easy!CountEntries \in 0..CountModulus - 1
        /\ Easy!CountEntries <= Len(Easy!AllEntries(queue))
        /\ lost = {} => Easy!CountEntries = Len(Easy!AllEntries(queue))
    BY <1>3, CountFacts
  <1>5. num' = IF num = 0 THEN Easy!CountEntries ELSE num
    BY <1>1, <1>4, ConstantTypes, ModFacts
  <1>6. Easy!TypeOK'
    BY <1>1, <1>2, <1>4, <1>5 DEF Easy!TypeOK
  <1>7. QueueBounded' /\ PositionInv'
    BY <1>1, <1>2 DEF QueueBounded, PositionInv
  <1>8. Easy!Pending' = Easy!Pending /\ Rest' = Rest
    BY <1>1 DEF Easy!Pending, Rest
  <1>9. Easy!DeliveredInOrder'
    BY <1>1, <1>2, <1>8 DEF Easy!DeliveredInOrder
  <1>10. NumberInv'
    <2> SUFFICES ASSUME caller = "counts_first", ~crashed
                 PROVE  NumberInv'
      BY <1>1 DEF NumberInv
    <2>1. /\ Rest \in Seq(Result) /\ Easy!AllEntries(queue) \in Seq(Result)
          /\ Easy!Pending \in Seq(Result)
          /\ Len(Easy!Pending) = Len(Rest) + Len(Easy!AllEntries(queue))
          /\ open # Easy!None => open \in Easy!Files /\ MayBeAt(open, easyPosition)
      BY <1>2, RestType
    <2>2. Len(Rest) \in Nat /\ Len(Easy!AllEntries(queue)) \in Nat /\ Len(queue) \in Nat
      BY <1>3, <2>1, LenProperties
    <2>3. /\ num <= Len(Easy!Pending)
          /\ (lost = {} /\ ~Easy!EmptyTreeOpen) =>
               \E k \in 0..Len(queue) : num = Len(Rest) + PrefixLen(queue, k)
      BY <1>2 DEF NumberInv
    <2>4. num' <= Len(Easy!Pending)
      BY <1>4, <1>5, <2>1, <2>2, <2>3
    <2>5. shown' = "some" => num' # 0
      BY <1>1
    <2>6. ASSUME num = 0, lost = {}
          PROVE  Rest = <<>>
      <3>1. CASE Easy!EmptyTreeOpen
        <4>1. open \in Easy!Files /\ MayBeAt(open, easyPosition) /\ easyPosition \in Nat
              /\ TreeEntries[open] = 0
          BY <1>2, <2>1, <3>1, ConstantTypes
             DEF Easy!EmptyTreeOpen, MayBeAt, PositionInv, Easy!TypeOK
        <4>2. RestFrom(open, easyPosition) = <<>>
          BY <4>1, RestFacts
        <4> QED BY <3>1, <4>2 DEF Rest, Easy!EmptyTreeOpen
      <3>2. CASE ~Easy!EmptyTreeOpen
        <4>1. PICK k \in 0..Len(queue) : num = Len(Rest) + PrefixLen(queue, k)
          BY <2>3, <2>6, <3>2
        <4>2. PrefixLen(queue, k) \in Nat
          BY <1>3, <4>1, PrefixFacts
        <4>3. Len(Rest) = 0
          BY <2>2, <2>6, <4>1, <4>2
        <4> QED BY <2>1, <4>3, EmptySeq
      <3> QED BY <3>1, <3>2
    <2>7. (shown' = "zero" /\ lost = {}) => Easy!Pending = <<>>
      <3> SUFFICES ASSUME shown' = "zero", lost = {}
                   PROVE  Easy!Pending = <<>>
        OBVIOUS
      <3>1. num' = 0 /\ num = 0 /\ Easy!CountEntries = 0
        BY <1>1, <1>5
      <3>2. Easy!AllEntries(queue) = <<>>
        BY <1>4, <2>1, <3>1, EmptySeq
      <3>3. Rest = <<>>
        BY <2>6, <3>1
      <3> QED BY <3>2, <3>3, PendingIs
    <2>8. (lost = {} /\ ~Easy!EmptyTreeOpen) =>
             \E k \in 0..Len(queue) : num' = Len(Rest) + PrefixLen(queue, k)
      <3>1. CASE num # 0
        BY <1>5, <2>3, <3>1
      <3>2. CASE num = 0 /\ lost = {}
        <4>1. PrefixLen(queue, Len(queue)) = Len(Easy!AllEntries(queue))
          BY <1>3, PrefixFacts
        <4>2. Len(Rest) = 0
          BY <2>6, <3>2, EmptySeq
        <4>3. num' = Len(Rest) + PrefixLen(queue, Len(queue))
          BY <1>4, <1>5, <2>2, <3>2, <4>1, <4>2
        <4> QED BY <2>2, <4>3
      <3> QED BY <3>1, <3>2
    <2>9. Easy!EmptyTreeOpen' = Easy!EmptyTreeOpen
      BY <1>1 DEF Easy!EmptyTreeOpen
    <2> QED BY <1>1, <1>8, <2>4, <2>5, <2>7, <2>8, <2>9 DEF NumberInv
  <1> QED BY <1>6, <1>7, <1>9, <1>10 DEF EasyInv

(* A caller that counts first gets a result only when there is one.        *)
LEMMA GetFacts ==
  ASSUME EasyInv, Easy!MayGet
  PROVE  ~crashed /\ (caller = "counts_first" => num \in 1..CountModulus - 1)
  BY ConstantTypes DEF Easy!MayGet, EasyInv, NumberInv, Easy!TypeOK

(* GetEasyFitResult with nothing open and nothing queued.                  *)
LEMMA NothingStep ==
  ASSUME EasyInv, Easy!GetNothing
  PROVE  EasyInv'
  <1>1. /\ result' = <<>> /\ shown' = "unknown" /\ open = Easy!None /\ queue = <<>>
        /\ UNCHANGED <<caller, queue, open, easyPosition, num, crashed, lost, queued,
                       delivered>>
    BY DEF Easy!GetNothing
  <1>2. Easy!Pending' = Easy!Pending /\ Rest' = Rest /\ Easy!Pending = <<>>
    <2>1. Rest = <<>> /\ Easy!AllEntries(queue) = <<>>
      BY <1>1, AllEntriesFold DEF Rest
    <2> QED BY <1>1, <2>1, PendingIs DEF Easy!Pending, Rest
  <1>3. caller # "counts_first"
    <2> SUFFICES ASSUME caller = "counts_first" PROVE FALSE
      OBVIOUS
    <2>1. num \in 1..CountModulus - 1 /\ ~crashed
      BY GetFacts DEF Easy!GetNothing
    <2>2. num <= Len(Easy!Pending)
      BY <2>1 DEF EasyInv, NumberInv
    <2> QED BY <1>2, <2>1, <2>2, ConstantTypes, EmptySeq
  <1>4. Easy!TypeOK'
    BY <1>1 DEF EasyInv, Easy!TypeOK
  <1>5. QueueBounded' /\ PositionInv'
    BY <1>1 DEF EasyInv, QueueBounded, PositionInv
  <1>6. Easy!DeliveredInOrder'
    BY <1>1, <1>2 DEF EasyInv, Easy!DeliveredInOrder
  <1>7. NumberInv'
    BY <1>1, <1>3 DEF NumberInv
  <1> QED BY <1>4, <1>5, <1>6, <1>7 DEF EasyInv

(* GetEasyFitResult that finds the next tree gone.                         *)
LEMMA LostTreeStep ==
  ASSUME EasyInv, Easy!GetFromLostTree
  PROVE  EasyInv'
  <1>1. /\ crashed' = TRUE /\ queue # <<>> /\ queue' = Tail(queue)
        /\ UNCHANGED <<caller, open, easyPosition, num, result, shown, lost, queued,
                       delivered>>
    BY DEF Easy!GetFromLostTree
  <1>2. queue \in Seq(Easy!Files) /\ queued \in Seq(Easy!Files) /\ MaxQueued \in Nat
    BY ConstantTypes DEF EasyInv, Easy!TypeOK
  <1>3. Tail(queue) \in Seq(Easy!Files) /\ Len(Tail(queue)) <= Len(queue)
    BY <1>1, <1>2
  <1>4. Easy!TypeOK'
    BY <1>1, <1>3 DEF EasyInv, Easy!TypeOK
  <1>5. QueueBounded' /\ PositionInv'
    BY <1>1, <1>2, <1>3 DEF EasyInv, QueueBounded, PositionInv
  <1>6. Easy!DeliveredInOrder' /\ NumberInv'
    BY <1>1 DEF Easy!DeliveredInOrder, NumberInv
  <1> QED BY <1>4, <1>5, <1>6 DEF EasyInv

(* A load takes the next pending entry, if there is one.                   *)
LEMMA LoadKeeps ==
  ASSUME EasyInv, Easy!MayGet,
         NEW f \in Easy!Files, NEW at \in Nat, MayBeAt(f, at),
         NEW before, before \in {<<f>>, result}, Easy!Load(f, at, before),
         NEW q \in Seq(Easy!Files), queue' = q, Len(q) <= Len(queue),
         Easy!Pending = RestFrom(f, at) \o Easy!AllEntries(q),
         (caller = "counts_first" /\ lost = {} /\ TreeEntries[f] # 0) =>
           \E k \in 0..Len(q) : num = Len(RestFrom(f, at)) + PrefixLen(q, k)
  PROVE  EasyInv'
  <1>1. Easy!TypeOK /\ QueueBounded /\ PositionInv /\ Easy!DeliveredInOrder /\ NumberInv
    BY DEF EasyInv
  <1>2. /\ num' = (num + CountModulus - 1) % CountModulus
        /\ UNCHANGED <<caller, crashed, lost, queued>>
    BY DEF Easy!Load
  <1>3. /\ PositionInv' /\ Rest' \in Seq(Result)
        /\ delivered' \in Seq(Result)
        /\ delivered' \o Rest' = delivered \o RestFrom(f, at)
        /\ Len(Rest') <= Len(RestFrom(f, at)) /\ Len(RestFrom(f, at)) <= Len(Rest') + 1
        /\ ~Easy!EmptyTreeOpen' =>
             TreeEntries[f] # 0 /\ Len(RestFrom(f, at)) = Len(Rest') + 1
        /\ easyPosition' \in Nat /\ open' \in {Easy!None, f} /\ shown' = "unknown"
        /\ result' \in {<<>>} \cup {<<g>> : g \in Easy!Files} \cup Result
    BY <1>1, LoadFacts
  <1>4. /\ ~crashed
        /\ caller = "counts_first" => num' = num - 1 /\ num \in 1..CountModulus - 1
        /\ num' \in 0..CountModulus - 1
    <2>1. CountModulus \in Nat \ {0} /\ num \in 0..CountModulus - 1
      BY <1>1, ConstantTypes DEF Easy!TypeOK
    <2>2. num + CountModulus - 1 \in Nat
      BY <2>1
    <2> QED BY <1>2, <2>1, <2>2, GetFacts, ModFacts
  <1>5. Easy!TypeOK'
    BY <1>1, <1>2, <1>3, <1>4 DEF Easy!TypeOK, Result
  <1>6. QueueBounded'
    <2>1. Len(queue) \in Nat /\ Len(queued) \in Nat /\ Len(q) \in Nat
      BY <1>1 DEF Easy!TypeOK
    <2>2. Len(q) <= Len(queued)
      BY <1>1, <2>1 DEF QueueBounded
    <2>3. Len(queued) <= MaxQueued
      BY <1>1 DEF QueueBounded
    <2> QED BY <1>2, <2>2, <2>3 DEF QueueBounded
  <1>7. /\ Easy!Pending' = Rest' \o Easy!AllEntries(q)
        /\ Easy!AllEntries(q) \in Seq(Result) /\ RestFrom(f, at) \in Seq(Result)
        /\ delivered \in Seq(Result)
    BY <1>1, PendingLater, AllEntriesType, RestFacts DEF Easy!TypeOK, Result
  <1>8. Easy!DeliveredInOrder'
    <2>1. delivered \o Easy!Pending = Easy!AllEntries(queued)
      BY <1>1, <1>4 DEF Easy!DeliveredInOrder
    <2>2. delivered \o (RestFrom(f, at) \o Easy!AllEntries(q))
             = (delivered \o RestFrom(f, at)) \o Easy!AllEntries(q)
      BY ONLY <1>7, ConcatAssociative, SMTT(30)
    <2>4. delivered' \o (Rest' \o Easy!AllEntries(q))
             = (delivered' \o Rest') \o Easy!AllEntries(q)
      <3>1. \A d, r, a \in Seq(Result) : d \o (r \o a) = (d \o r) \o a
        BY ONLY ConcatAssociative, SMTT(30)
      <3> QED BY <1>3, <1>7, <3>1, Zenon
    <2>3. delivered' \o Easy!Pending' = Easy!AllEntries(queued)
      BY <1>3, <1>7, <2>1, <2>2, <2>4, Zenon
    <2> QED BY <1>2, <2>3 DEF Easy!DeliveredInOrder
  <1>9. NumberInv'
    <2> SUFFICES ASSUME caller = "counts_first"
                 PROVE  NumberInv'
      BY <1>2 DEF NumberInv
    <2>1. /\ Len(Easy!Pending') = Len(Rest') + Len(Easy!AllEntries(q))
          /\ Len(Easy!Pending) = Len(RestFrom(f, at)) + Len(Easy!AllEntries(q))
          /\ Len(Rest') \in Nat /\ Len(Easy!AllEntries(q)) \in Nat
          /\ Len(RestFrom(f, at)) \in Nat
      BY <1>3, <1>7, ConcatProperties, LenProperties
    <2>2. num <= Len(Easy!Pending)
      BY <1>1, <1>4 DEF NumberInv
    <2>3. num' <= Len(Easy!Pending')
      <3>1. num \in Int /\ num' = num - 1
        BY <1>4, ConstantTypes
      <3> QED BY <1>3, <2>1, <2>2, <3>1
    <2>4. ASSUME lost = {}, ~Easy!EmptyTreeOpen'
          PROVE  \E k \in 0..Len(q) : num' = Len(Rest') + PrefixLen(q, k)
      <3>1. TreeEntries[f] # 0 /\ Len(RestFrom(f, at)) = Len(Rest') + 1
        BY <1>3, <2>4
      <3>2. PICK k \in 0..Len(q) : num = Len(RestFrom(f, at)) + PrefixLen(q, k)
        BY <2>4, <3>1
      <3>3. PrefixLen(q, k) \in Nat
        BY <3>2, PrefixFacts
      <3>4. num' = Len(Rest') + PrefixLen(q, k)
        <4>1. num \in Int /\ num' = num - 1
          BY <1>4, ConstantTypes
        <4> QED BY <2>1, <3>1, <3>2, <3>3, <4>1
      <3> QED BY <3>4
    <2> QED BY <1>2, <1>3, <2>3, <2>4 DEF NumberInv
  <1> QED BY <1>3, <1>5, <1>6, <1>8, <1>9 DEF EasyInv

(* GetEasyFitResult that opens the next tree.                              *)
LEMMA NextTreeStep ==
  ASSUME EasyInv, Easy!GetFromNextTree
  PROVE  EasyInv'
  <1> DEFINE f == Head(queue)
             q == Tail(queue)
  <1>1. /\ Easy!MayGet /\ open = Easy!None /\ queue # <<>> /\ f \notin lost
        /\ queue' = q /\ Easy!Load(f, 0, <<f>>)
    BY DEF Easy!GetFromNextTree
  <1>2. queue \in Seq(Easy!Files)
    BY DEF EasyInv, Easy!TypeOK
  <1>3. f \in Easy!Files /\ q \in Seq(Easy!Files) /\ Len(q) = Len(queue) - 1
        /\ Len(queue) \in Nat
    BY <1>1, <1>2
  <1>4. Easy!AllEntries(queue) = Easy!EntriesOf(f) \o Easy!AllEntries(q)
    BY <1>1, <1>2, AllEntriesFirst
  <1>5. /\ \A k \in 1..Len(queue) :
             PrefixLen(queue, k) = TreeEntries[f] + PrefixLen(q, k - 1)
        /\ PrefixLen(queue, 0) = 0
    BY <1>1, <1>2, PrefixFacts
  <1> HIDE DEF f, q
  <1>6. 0 \in Nat /\ MayBeAt(f, 0) /\ TreeEntries[f] \in Nat
    BY <1>3, ConstantTypes DEF MayBeAt
  <1>7. RestFrom(f, 0) = Easy!EntriesOf(f) /\ Len(RestFrom(f, 0)) = TreeEntries[f]
    BY <1>3, <1>6, RestFacts, EntriesType
  <1>8. Rest = <<>> /\ Easy!Pending = RestFrom(f, 0) \o Easy!AllEntries(q)
    <2>1. Rest = <<>>
      BY <1>1 DEF Rest
    <2>2. Easy!AllEntries(queue) \in Seq(Result)
      BY <1>2, AllEntriesType
    <2> QED BY <1>4, <1>7, <2>1, <2>2, PendingIs, ConcatEmptySeq
  <1>9. ASSUME caller = "counts_first", lost = {}
        PROVE  \E k \in 0..Len(q) : num = Len(RestFrom(f, 0)) + PrefixLen(q, k)
    <2>1. ~crashed /\ num # 0 /\ ~Easy!EmptyTreeOpen
      BY <1>1, <1>9, GetFacts, ConstantTypes DEF Easy!EmptyTreeOpen
    <2>2. PICK k \in 0..Len(queue) : num = Len(Rest) + PrefixLen(queue, k)
      BY <1>9, <2>1 DEF EasyInv, NumberInv
    <2>3. num = PrefixLen(queue, k)
      <3>1. PrefixLen(queue, k) \in Nat /\ Len(Rest) = 0
        BY <1>2, <1>8, <2>2, PrefixFacts, EmptySeq
      <3> QED BY <2>2, <3>1
    <2>4. k # 0 /\ k \in 1..Len(queue) /\ k - 1 \in 0..Len(q)
      BY <1>3, <1>5, <2>1, <2>2, <2>3
    <2> QED BY <1>5, <1>7, <2>3, <2>4
  <1>10. Len(q) <= Len(queue)
    BY <1>3
  <1>11. <<f>> \in {<<f>>, result}
    OBVIOUS
  <1> QED BY <1>1, <1>3, <1>6, <1>8, <1>9, <1>10, <1>11, LoadKeeps

(* GetEasyFitResult with a tree open.                                      *)
LEMMA OpenTreeStep ==
  ASSUME EasyInv, Easy!GetFromOpenTree
  PROVE  EasyInv'
  <1>1. Easy!MayGet /\ open # Easy!None /\ queue' = queue
        /\ Easy!Load(open, easyPosition, result)
    BY DEF Easy!GetFromOpenTree
  <1>2. Easy!TypeOK /\ PositionInv /\ NumberInv
    BY DEF EasyInv
  <1>3. /\ open \in Easy!Files /\ easyPosition \in Nat /\ MayBeAt(open, easyPosition)
        /\ queue \in Seq(Easy!Files) /\ TreeEntries[open] \in Nat
    BY <1>1, <1>2, RestType, ConstantTypes DEF Easy!TypeOK
  <1>4. Rest = RestFrom(open, easyPosition)
    BY <1>1 DEF Rest
  <1>5. Easy!Pending = RestFrom(open, easyPosition) \o Easy!AllEntries(queue)
    BY <1>4, PendingIs
  <1>6. ASSUME caller = "counts_first", lost = {}, TreeEntries[open] # 0
        PROVE  \E k \in 0..Len(queue) :
                 num = Len(RestFrom(open, easyPosition)) + PrefixLen(queue, k)
    <2>1. ~crashed
      BY <1>1, GetFacts
    <2>2. ~Easy!EmptyTreeOpen
      BY <1>3, <1>6 DEF MayBeAt, Easy!EmptyTreeOpen
    <2> QED BY <1>2, <1>4, <1>6, <2>1, <2>2 DEF NumberInv
  <1>7. Len(queue) <= Len(queue) /\ result \in {<<open>>, result}
    BY <1>3
  <1> QED BY <1>1, <1>3, <1>5, <1>6, <1>7, LoadKeeps

(* Steps of the rest of the program leave it alone.                        *)
LEMMA EasyUnchanged ==
  ASSUME EasyInv, UNCHANGED easyVars
  PROVE  EasyInv'
  <1>1. UNCHANGED <<caller, queue, open, easyPosition, num, result, shown, crashed, lost,
                    queued, delivered>>
    BY DEF easyVars
  <1>2. Easy!Pending' = Easy!Pending /\ Rest' = Rest
    BY <1>1 DEF Easy!Pending, Rest
  <1>3. Easy!TypeOK' /\ QueueBounded' /\ PositionInv'
    BY <1>1 DEF EasyInv, Easy!TypeOK, QueueBounded, PositionInv
  <1>4. Easy!DeliveredInOrder' /\ NumberInv'
    <2>1. Easy!EmptyTreeOpen' = Easy!EmptyTreeOpen
      BY <1>1 DEF Easy!EmptyTreeOpen
    <2> QED BY <1>1, <1>2, <2>1 DEF EasyInv, Easy!DeliveredInOrder, NumberInv
  <1> QED BY <1>3, <1>4 DEF EasyInv

(* Every step keeps the invariant.                                         *)
LEMMA EasyKept == EasyInv /\ [Easy!Next]_easyVars => EasyInv'
  <1> SUFFICES ASSUME EasyInv, [Easy!Next]_easyVars PROVE EasyInv'
    OBVIOUS
  <1>1. CASE \E f \in Easy!Files : Easy!QueueTree(f) \/ Easy!LoseTree(f)
    BY <1>1, QueueStep, LoseStep
  <1>2. CASE Easy!NumberOfAvailableEasyFitResults
    BY <1>2, CountStep
  <1>3. CASE Easy!GetEasyFitResult
    BY <1>3, NothingStep, LostTreeStep, NextTreeStep, OpenTreeStep DEF Easy!GetEasyFitResult
  <1>4. CASE UNCHANGED easyVars
    BY <1>4, EasyUnchanged
  <1> QED BY <1>1, <1>2, <1>3, <1>4 DEF Easy!Next

(* It always holds.                                                        *)
LEMMA EasyAlways == ResultsSpec => []EasyInv
  <1>1. ResultsInit => EasyInv
    BY EasyInitial DEF ResultsInit
  <1>2. [ResultsNext]_allVars => [Easy!Next]_easyVars
    BY DEF ResultsNext, ReadNext, EasyStep, allVars, easyVars
  <1>3. EasyInv /\ [ResultsNext]_allVars => EasyInv'
    BY <1>2, EasyKept
  <1> QED BY <1>1, <1>3, PTL DEF ResultsSpec

THEOREM EntriesInOrder == ResultsSpec => []DeliveredInOrder
  <1>1. EasyInv => DeliveredInOrder
    BY DEF EasyInv, DeliveredInOrder
  <1> QED BY <1>1, EasyAlways, PTL

-----------------------------------------------------------------------------
(* The reader of RooFit results does what it does alone.                   *)
LEMMA ReaderAlways == ResultsSpec => []TypeInv
  <1>1. ResultsInit => TypeInv
    BY InitTypeInv DEF ResultsInit
  <1>2. TypeInv /\ [ResultsNext]_allVars => TypeInv'
    <2>1. [ResultsNext]_allVars => [Next]_vars
      BY DEF ResultsNext, ReadNext, EasyStep, allVars
    <2> QED BY <2>1, NextTypeInv
  <1> QED BY <1>1, <1>2, PTL DEF ResultsSpec

(* For any trees and callers: a count that a caller gets before it asks    *)
(* for results is never more than there are, all of them have been         *)
(* delivered when it is told that there are none, and both readers keep    *)
(* to their types, the count to those of an unsigned number.               *)
THEOREM CountHolds == ResultsSpec => []CountIsHonest
  <1>1. TypeInv /\ EasyInv => CountIsHonest
    <2>1. EasyInv => Easy!CountIsHonest
      BY DEF EasyInv, NumberInv, Easy!CountIsHonest
    <2>2. EasyInv => Easy!TypeOK
      BY DEF EasyInv
    <2>3. TypeInv => TypeOK
      BY DEF TypeInv
    <2> QED BY ONLY <2>1, <2>2, <2>3 DEF CountIsHonest
  <1> QED BY <1>1, ReaderAlways, EasyAlways, PTL
=============================================================================
