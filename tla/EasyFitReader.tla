--------------------------- MODULE EasyFitReader ---------------------------
(***************************************************************************)
(* toy::ToyStudyStd as a source of EasyFitResults.  ReadFitResults queues  *)
(* the trees it finds to hold them (QueueEasyFitFile of ToyStudyRead); the *)
(* caller asks NumberOfAvailableEasyFitResults and GetEasyFitResult, which *)
(* opens one tree after the other and loads its entries one by one into    *)
(* the same pair of EasyFitResult objects.                                 *)
(*                                                                         *)
(* External, modelled from their use: ROOT's TFile and TTree.              *)
(***************************************************************************)
EXTENDS Naturals, SequencesExt

CONSTANTS
  Entries,      \* Entries[f]: number of entries of the tree in file f
  CountModulus, \* num_easyfit_results_ is unsigned: 2^64
  Callers,      \* which of the callers below there may be
  FilesVanish,  \* may a file lose its tree after it was queued?
  MaxQueued     \* bound: trees queued by the calls of ReadFitResults

Files == DOMAIN Entries

ConstantsOK ==
  /\ Entries \in Seq(Nat)
  /\ CountModulus \in Nat \ {0}
  /\ Callers \subseteq {"counts_first", "any_order"}
  /\ FilesVanish \in BOOLEAN
  /\ MaxQueued \in Nat
  \* there are not so many entries that the counter wraps
  /\ \A f \in Files : MaxQueued * Entries[f] < CountModulus

None == 0

VARIABLES
  caller,    \* "counts_first": asks for the number before each result
  queue,     \* results_files_easyfit_
  open,      \* file_tree_easyfit_: the open file, or None
  position,  \* position_tree_easyfit_
  num,       \* num_easyfit_results_
  result,    \* easyfit_result_0_/1_: <<>> null, <<f>> constructed for the
             \* tree of f, <<f, e>> holding its entry e
  shown,     \* what the caller knows of the number of results
  crashed,   \* a null tree was dereferenced
  lost,      \* files without their tree
  queued,    \* history: every tree that was queued, in order
  delivered  \* history: every entry that was handed out, in order

vars == <<caller, queue, open, position, num, result, shown, crashed, lost,
          queued, delivered>>

TypeOK ==
  /\ caller \in Callers
  /\ queue \in Seq(Files)
  /\ open \in Files \cup {None}
  /\ position \in Nat
  /\ num \in 0..CountModulus - 1
  /\ result \in {<<>>} \cup {<<f>> : f \in Files} \cup (Files \X Nat)
  /\ shown \in {"unknown", "zero", "some"}
  /\ crashed \in BOOLEAN
  /\ lost \subseteq Files
  /\ queued \in Seq(Files)
  /\ delivered \in Seq(Files \X Nat)

Init ==
  /\ caller \in Callers
  /\ queue = <<>>
  /\ open = None
  /\ position = 0
  /\ num = 0
  /\ result = <<>>
  /\ shown = "unknown"
  /\ crashed = FALSE
  /\ lost = {}
  /\ queued = <<>>
  /\ delivered = <<>>

(* ReadFitResults meets a tree with the branch fr0_fcn.  Reading the same  *)
(* files again queues them again.                                          *)
QueueTree(f) ==
  /\ ~crashed
  /\ f \notin lost
  /\ Len(queued) < MaxQueued
  /\ queue' = Append(queue, f)
  /\ queued' = Append(queued, f)
  /\ shown' = "unknown"
  /\ UNCHANGED <<caller, open, position, num, result, crashed, lost, delivered>>

(* Another process replaces the file.                                      *)
LoseTree(f) ==
  /\ ~crashed
  /\ FilesVanish
  /\ f # open
  /\ lost' = lost \cup {f}
  /\ UNCHANGED <<caller, queue, open, position, num, result, shown, crashed, queued,
                 delivered>>

(* Faulty variant: the loop stops one tree short.                          *)
BugLastTreeLeftOut ==
  FoldLeft(LAMBDA sum, f : IF f \in lost THEN sum ELSE sum + Entries[f], 0,
           SubSeq(queue, 1, Len(queue) - 1))

(* The entries of the queued trees that can be found.                      *)
CountEntries ==
  FoldLeft(LAMBDA sum, f : IF f \in lost THEN sum ELSE sum + Entries[f], 0,
           queue)

NumberOfAvailableEasyFitResults ==
  /\ ~crashed
  /\ num' = IF num = 0 THEN CountEntries % CountModulus ELSE num
  /\ shown' = IF num' = 0 THEN "zero" ELSE "some"
  /\ UNCHANGED <<caller, queue, open, position, result, crashed, lost, queued,
                 delivered>>

MayGet == ~crashed /\ (caller = "counts_first" => shown = "some")

(* Nothing is open and nothing queued: null pointers.                      *)
GetNothing ==
  /\ MayGet
  /\ open = None
  /\ queue = <<>>
  /\ result' = <<>>
  /\ shown' = "unknown"
  /\ UNCHANGED <<caller, queue, open, position, num, crashed, lost, queued, delivered>>

(* The file can be opened but the tree is not there.                       *)
GetFromLostTree ==
  /\ MayGet
  /\ open = None
  /\ queue # <<>>
  /\ Head(queue) \in lost
  /\ queue' = Tail(queue)
  /\ crashed' = TRUE
  /\ UNCHANGED <<caller, open, position, num, result, shown, lost, queued, delivered>>

(* Loads the entry at position at of the tree of file f.  An entry that is *)
(* not there leaves the result as it is.  The tree is closed when the      *)
(* position reaches the number of entries, and not when it is beyond; how  *)
(* far beyond makes no difference.                                         *)
Load(f, at, before) ==
  /\ result' = IF at < Entries[f] THEN <<f, at>> ELSE before
  /\ delivered' = IF at < Entries[f] THEN Append(delivered, <<f, at>>)
                  ELSE delivered
  /\ num' = (num + CountModulus - 1) % CountModulus
  /\ position' = IF at > Entries[f] THEN at ELSE at + 1
  /\ open' = IF at + 1 = Entries[f] THEN None ELSE f
  /\ shown' = "unknown"
  /\ UNCHANGED <<caller, crashed, lost, queued>>

(* Faulty variant: the position is not reset for a new tree.               *)
BugPositionKept ==
  /\ MayGet
  /\ open = None
  /\ queue # <<>>
  /\ Head(queue) \notin lost
  /\ queue' = Tail(queue)
  /\ Load(Head(queue), position, <<Head(queue)>>)

GetFromNextTree ==
  /\ MayGet
  /\ open = None
  /\ queue # <<>>
  /\ Head(queue) \notin lost
  /\ queue' = Tail(queue)
  /\ Load(Head(queue), 0, <<Head(queue)>>)

(* Faulty variant: the results of an open tree are not counted down.       *)
BugNotCountedDown ==
  /\ MayGet
  /\ open # None
  /\ result' = <<open, position>>
  /\ delivered' = Append(delivered, result')
  /\ position' = position + 1
  /\ open' = IF position + 1 = Entries[open] THEN None ELSE open
  /\ shown' = "unknown"
  /\ UNCHANGED <<caller, queue, num, crashed, lost, queued>>

GetFromOpenTree ==
  /\ MayGet
  /\ open # None
  /\ Load(open, position, result)
  /\ UNCHANGED queue

GetEasyFitResult ==
  GetNothing \/ GetFromLostTree \/ GetFromNextTree \/ GetFromOpenTree

Next ==
  \/ \E f \in Files : QueueTree(f) \/ LoseTree(f)
  \/ NumberOfAvailableEasyFitResults
  \/ GetEasyFitResult

Spec == Init /\ [][Next]_vars

-----------------------------------------------------------------------------
EntriesOf(f) == [e \in 1..Entries[f] |-> <<f, e - 1>>]
AllEntries(files) == FoldLeft(LAMBDA acc, f : acc \o EntriesOf(f), <<>>, files)

(* What is still to come: the rest of the open tree, then the queue.       *)
Pending ==
  (IF open = None THEN <<>>
   ELSE SubSeq(EntriesOf(open), position + 1, Entries[open]))
  \o AllEntries(queue)

(* Every entry of every queued tree is handed out once and in order:       *)
(* closing, opening and counting skip none and repeat none.                *)
DeliveredInOrder == crashed \/ delivered \o Pending = AllEntries(queued)

(* A count never promises a caller that asks first a result that is not    *)
(* there, so that the loop over the count meets no null result; and a      *)
(* caller that is told that none is available has got them all.            *)
CountIsHonest ==
  (caller = "counts_first" /\ ~crashed) =>
    /\ num <= Len(Pending)
    /\ (shown = "zero" /\ lost = {}) => Pending = <<>>

(* The loop over the results ends, if it goes on: the caller is told that *)
(* nothing is left, unless the program has crashed or a tree without       *)
(* entries has been opened, which GetEasyFitResult never closes.           *)
EmptyTreeOpen == open # None /\ position > Entries[open]

ReadingEnds ==
  (caller = "counts_first" /\ num > 0)
    ~> (shown = "zero" \/ crashed \/ EmptyTreeOpen)
=============================================================================
