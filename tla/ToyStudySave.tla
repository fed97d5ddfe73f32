---------------------------- MODULE ToyStudySave ----------------------------
(***************************************************************************)
(* Deferred saving of fit results by toy::ToyStudyStd.                     *)
(*                                                                         *)
(* Several toy-study processes share one ROOT file.  In each process the   *)
(* main thread hands fit results (or pairs of them) to StoreFitResult,     *)
(* which queues them; the worker thread SaveFitResultWorker moves them to  *)
(* a queue of its own, and, holding the process's half-asynchronous mutex  *)
(* and the lock of the file, appends them to the tree.  Signals are caught *)
(* only while the worker is busy with the file.                            *)
(*                                                                         *)
(* External, modelled from their use: doocore's concurrent_queue and       *)
(* FileLock, boost's mutex and thread, ROOT's TFile and TTree, signal(2).  *)
(***************************************************************************)
EXTENDS Naturals, Sequences, FiniteSets

CONSTANTS
  Procs,        \* the processes that save to the same file
  MaxCalls,     \* bound: calls of StoreFitResult per process
  NamedAtStart, \* is the file name configured when a process starts?
  Trees,        \* what the file may hold before the processes start
  Faults,       \* which of "signal" and "kill" happen to the processes
  OrphanLocks   \* may the lock file of a dead process stay behind?

Free == "free"
NoTree == [exists |-> FALSE, branch1 |-> FALSE, branch2 |-> FALSE]
Tree == [exists: BOOLEAN, branch1: BOOLEAN, branch2: BOOLEAN]

ASSUME SaveAssumption ==
  /\ Free \notin Procs
  /\ MaxCalls \in Nat
  /\ NamedAtStart \subseteq BOOLEAN
  /\ Trees \subseteq Tree
  /\ Faults \subseteq {"signal", "kill"}
  /\ OrphanLocks \in BOOLEAN

(* A FitResultContainer: the call that passed it and whether that call     *)
(* passed a second fit result too.                                         *)
Container == [proc: Procs, call: 1..MaxCalls, second: BOOLEAN]

VARIABLES
  \* state of each process's ToyStudyStd object and threads
  mpc,        \* where the main thread is
  wpc,        \* where the worker thread is
  fate,       \* "running", or how the process ended
  named,      \* file and tree name are configured
  calls,      \* calls of StoreFitResult so far
  accepting,  \* accepting_fit_results_
  enabled,    \* fit_results_save_queue_ is not disabled
  mutex,      \* holder of fitresult_save_worker_mutex_
  queue,      \* fit_results_save_queue_
  saver,      \* the worker's saver_queue
  filled,     \* filled into the tree in memory, not yet written
  bound2,     \* is the address of the second branch set for this batch?
  handling,   \* SIGINT and SIGTERM go to HandleSignal
  abort,      \* abort_save_
  \* the shared file
  flock,      \* the process that holds the file lock, or Free
  tree,       \* shape of the tree in the file
  corrupt,    \* the file can no longer be opened
  rows,       \* what each process has written to the tree, in order
  seconds,    \* containers whose second fit result was written
  \* history
  accepted    \* what StoreFitResult accepted, in order

mainVars == <<mpc, named, calls, accepting, enabled, accepted>>
fileVars == <<flock, tree, corrupt, rows, seconds>>
workVars == <<wpc, saver, filled, bound2, handling>>
vars == <<mpc, wpc, fate, named, calls, accepting, enabled, mutex, queue,
          saver, filled, bound2, handling, abort, flock, tree, corrupt, rows,
          seconds, accepted>>

MainPcs == {"idle", "push", "relock", "disable", "unlock", "join", "gone"}
(* The worker's places; those of BusyPcs lie inside the scope of its       *)
(* scoped_lock, those of FilePcs between flock.Lock() and flock.Unlock().  *)
FilePcs == {"install", "open", "opened", "fill", "close"}
BusyPcs == FilePcs \cup {"flock", "leave"}
WorkerPcs == BusyPcs \cup {"loop", "wait", "drain", "mutex", "rest", "done"}

TypeOK ==
  /\ mpc \in [Procs -> MainPcs]
  /\ wpc \in [Procs -> WorkerPcs]
  /\ fate \in [Procs -> {"running", "killed", "terminated", "exited"}]
  /\ named \in [Procs -> BOOLEAN]
  /\ calls \in [Procs -> 0..MaxCalls]
  /\ accepting \in [Procs -> BOOLEAN]
  /\ enabled \in [Procs -> BOOLEAN]
  /\ mutex \in [Procs -> {"free", "main", "worker"}]
  /\ queue \in [Procs -> Seq(Container)]
  /\ saver \in [Procs -> Seq(Container)]
  /\ filled \in [Procs -> Seq(Container)]
  /\ bound2 \in [Procs -> BOOLEAN]
  /\ handling \in [Procs -> BOOLEAN]
  /\ abort \in [Procs -> BOOLEAN]
  /\ flock \in Procs \cup {Free}
  /\ tree \in Tree
  /\ corrupt \in BOOLEAN
  /\ rows \in [Procs -> Seq(Container)]
  /\ seconds \subseteq Container
  /\ accepted \in [Procs -> Seq(Container)]

(* The constructor: it takes the mutex, then starts the worker.            *)
Init ==
  /\ mpc = [p \in Procs |-> "idle"]
  /\ wpc = [p \in Procs |-> "loop"]
  /\ fate = [p \in Procs |-> "running"]
  /\ named \in [Procs -> NamedAtStart]
  /\ calls = [p \in Procs |-> 0]
  /\ accepting = [p \in Procs |-> TRUE]
  /\ enabled = [p \in Procs |-> TRUE]
  /\ mutex = [p \in Procs |-> "main"]
  /\ queue = [p \in Procs |-> <<>>]
  /\ saver = [p \in Procs |-> <<>>]
  /\ filled = [p \in Procs |-> <<>>]
  /\ bound2 = [p \in Procs |-> FALSE]
  /\ handling = [p \in Procs |-> FALSE]
  /\ abort = [p \in Procs |-> FALSE]
  /\ flock = Free
  /\ tree \in Trees
  /\ corrupt = FALSE
  /\ rows = [p \in Procs |-> <<>>]
  /\ seconds = {}
  /\ accepted = [p \in Procs |-> <<>>]

MainAt(p, here, next) ==
  /\ fate[p] = "running"
  /\ mpc[p] = here
  /\ mpc' = [mpc EXCEPT ![p] = next]

WorkerAt(p, here, next) ==
  /\ fate[p] = "running"
  /\ wpc[p] = here
  /\ wpc' = [wpc EXCEPT ![p] = next]

-----------------------------------------------------------------------------
(* The main thread.                                                        *)

(* The caller sets the file name after construction.                       *)
SetStoreResultFilename(p) ==
  /\ MainAt(p, "idle", "idle")
  /\ ~named[p]
  /\ named' = [named EXCEPT ![p] = TRUE]
  /\ UNCHANGED <<fate, calls, accepting, enabled, mutex, queue, abort,
                 accepted, workVars, fileVars>>

(* StoreFitResult unlocks the mutex whoever holds it, then looks at the    *)
(* file name: without one it throws and leaves the mutex unlocked.         *)
StoreFitResult(p) ==
  /\ accepting[p]
  /\ calls[p] < MaxCalls
  /\ calls' = [calls EXCEPT ![p] = @ + 1]
  /\ mutex' = [mutex EXCEPT ![p] = "free"]
  /\ MainAt(p, "idle", IF named[p] THEN "push" ELSE "idle")
  /\ UNCHANGED <<fate, named, accepting, enabled, queue, abort, accepted,
                 workVars, fileVars>>

(* After FinishFitResultSaving it only reports an error.                   *)
RejectFitResult(p) ==
  /\ MainAt(p, "idle", "idle")
  /\ ~accepting[p]
  /\ calls[p] < MaxCalls
  /\ calls' = [calls EXCEPT ![p] = @ + 1]
  /\ UNCHANGED <<fate, named, accepting, enabled, mutex, queue, abort,
                 accepted, workVars, fileVars>>

PushFitResult(p) ==
  /\ MainAt(p, "push", "relock")
  /\ \E second \in BOOLEAN :
       LET c == [proc |-> p, call |-> calls[p], second |-> second]
       IN  /\ queue' = [queue EXCEPT ![p] = Append(@, c)]
           /\ accepted' = [accepted EXCEPT ![p] = Append(@, c)]
  /\ UNCHANGED <<fate, named, calls, accepting, enabled, mutex, abort,
                 workVars, fileVars>>

(* Faulty variants, for testing the properties: the lock is not taken, or  *)
(* is taken without waiting for it.                                        *)
BugLockSkipped(p) ==
  /\ MainAt(p, "relock", "idle")
  /\ UNCHANGED <<fate, named, calls, accepting, enabled, mutex, queue, abort,
                 accepted, workVars, fileVars>>

BugLockNotAwaited(p) ==
  /\ mutex' = [mutex EXCEPT ![p] = "main"]
  /\ MainAt(p, "relock", "idle")
  /\ UNCHANGED <<fate, named, calls, accepting, enabled, queue, abort,
                 accepted, workVars, fileVars>>

LockSaveFitResultMutex(p) ==
  /\ mutex[p] = "free"
  /\ mutex' = [mutex EXCEPT ![p] = "main"]
  /\ MainAt(p, "relock", "idle")
  /\ UNCHANGED <<fate, named, calls, accepting, enabled, queue, abort,
                 accepted, workVars, fileVars>>

FinishFitResultSaving(p) ==
  /\ MainAt(p, "idle", "disable")
  /\ accepting[p]
  /\ accepting' = [accepting EXCEPT ![p] = FALSE]
  /\ UNCHANGED <<fate, named, calls, enabled, mutex, queue, abort, accepted,
                 workVars, fileVars>>

DisableQueue(p) ==
  /\ MainAt(p, "disable", "unlock")
  /\ enabled' = [enabled EXCEPT ![p] = FALSE]
  /\ UNCHANGED <<fate, named, calls, accepting, mutex, queue, abort, accepted,
                 workVars, fileVars>>

ReleaseWorker(p) ==
  /\ MainAt(p, "unlock", "join")
  /\ mutex' = [mutex EXCEPT ![p] = "free"]
  /\ UNCHANGED <<fate, named, calls, accepting, enabled, queue, abort,
                 accepted, workVars, fileVars>>

(* Faulty variant: the worker is detached instead of joined.               *)
BugWorkerDetached(p) ==
  /\ MainAt(p, "join", "idle")
  /\ UNCHANGED <<fate, named, calls, accepting, enabled, mutex, queue, abort,
                 accepted, workVars, fileVars>>

JoinWorker(p) ==
  /\ wpc[p] = "done"
  /\ MainAt(p, "join", "idle")
  /\ UNCHANGED <<fate, named, calls, accepting, enabled, mutex, queue, abort,
                 accepted, workVars, fileVars>>

(* The destructor calls FinishFitResultSaving first.                       *)
Destruct(p) ==
  /\ MainAt(p, "idle", "gone")
  /\ ~accepting[p]
  /\ UNCHANGED <<fate, named, calls, accepting, enabled, mutex, queue, abort,
                 accepted, workVars, fileVars>>

-----------------------------------------------------------------------------
(* The worker thread.                                                      *)

(* Faulty variant: the loop ends as soon as nothing more is accepted.      *)
BugLoopIgnoresQueues(p) ==
  /\ WorkerAt(p, "loop",
       IF ~accepting[p] THEN "done"
       ELSE IF saver[p] = <<>> THEN "wait" ELSE "drain")
  /\ UNCHANGED <<fate, mutex, queue, saver, filled, bound2, handling, abort,
                 mainVars, fileVars>>

(* The condition of the loop, and whether its own queue needs an element.  *)
WorkerLoop(p) ==
  /\ WorkerAt(p, "loop",
       IF ~accepting[p] /\ queue[p] = <<>> /\ saver[p] = <<>> THEN "done"
       ELSE IF saver[p] = <<>> THEN "wait" ELSE "drain")
  /\ UNCHANGED <<fate, mutex, queue, saver, filled, bound2, handling, abort,
                 mainVars, fileVars>>

PopToSaver(p) ==
  /\ queue[p] # <<>>
  /\ saver' = [saver EXCEPT ![p] = Append(@, Head(queue[p]))]
  /\ queue' = [queue EXCEPT ![p] = Tail(@)]
  /\ UNCHANGED <<fate, mutex, filled, bound2, handling, abort, mainVars,
                 fileVars>>

WaitAndPop(p) ==
  /\ WorkerAt(p, "wait", "drain")
  /\ PopToSaver(p)

(* Faulty variant: the result of wait_and_pop is ignored and an empty      *)
(* container is queued.                                                    *)
BugFalsePopQueued(p) ==
  /\ queue[p] = <<>>
  /\ ~enabled[p]
  /\ WorkerAt(p, "wait", "drain")
  /\ saver' = [saver EXCEPT ![p] =
                 Append(@, [proc |-> p, call |-> 0, second |-> FALSE])]
  /\ UNCHANGED <<fate, mutex, queue, filled, bound2, handling, abort,
                 mainVars, fileVars>>

(* wait_and_pop returns false once the queue is disabled and empty.        *)
WaitDisabled(p) ==
  /\ queue[p] = <<>>
  /\ ~enabled[p]
  /\ WorkerAt(p, "wait", "drain")
  /\ UNCHANGED <<fate, mutex, queue, saver, filled, bound2, handling, abort,
                 mainVars, fileVars>>

DrainOne(p) ==
  /\ WorkerAt(p, "drain", "drain")
  /\ PopToSaver(p)

DrainEnd(p) ==
  /\ queue[p] = <<>>
  /\ WorkerAt(p, "drain", IF saver[p] = <<>> THEN "rest" ELSE "mutex")
  /\ UNCHANGED <<fate, mutex, queue, saver, filled, bound2, handling, abort,
                 mainVars, fileVars>>

LockWorkerMutex(p) ==
  /\ mutex[p] = "free"
  /\ mutex' = [mutex EXCEPT ![p] = "worker"]
  /\ WorkerAt(p, "mutex", "flock")
  /\ UNCHANGED <<fate, queue, saver, filled, bound2, handling, abort,
                 mainVars, fileVars>>

FileIsLocked(p) ==
  /\ flock # Free
  /\ WorkerAt(p, "flock", "leave")
  /\ UNCHANGED <<fate, mutex, queue, saver, filled, bound2, handling, abort,
                 mainVars, fileVars>>

(* Faulty variant: the answer of flock.Lock() is ignored.                  *)
BugLockFileIgnored(p) ==
  /\ flock' = p
  /\ WorkerAt(p, "flock", "install")
  /\ UNCHANGED <<fate, mutex, queue, saver, filled, bound2, handling, abort,
                 tree, corrupt, rows, seconds, mainVars>>

LockFile(p) ==
  /\ flock = Free
  /\ flock' = p
  /\ WorkerAt(p, "flock", "install")
  /\ UNCHANGED <<fate, mutex, queue, saver, filled, bound2, handling, abort,
                 tree, corrupt, rows, seconds, mainVars>>

(* Faulty variant: signals keep their default disposition.                 *)
BugNoHandlers(p) ==
  /\ WorkerAt(p, "install", "open")
  /\ UNCHANGED <<fate, mutex, queue, saver, filled, bound2, handling, abort,
                 mainVars, fileVars>>

InstallHandlers(p) ==
  /\ handling' = [handling EXCEPT ![p] = TRUE]
  /\ WorkerAt(p, "install", "open")
  /\ UNCHANGED <<fate, mutex, queue, saver, filled, bound2, abort, mainVars,
                 fileVars>>

OpenFile(p) ==
  /\ ~abort[p]
  /\ ~corrupt
  /\ WorkerAt(p, "open", "opened")
  /\ UNCHANGED <<fate, mutex, queue, saver, filled, bound2, handling, abort,
                 mainVars, fileVars>>

(* The signal came before the file was opened or, for the pc "opened",     *)
(* before the first result was taken: nothing is written.                  *)
AbortSave(p) ==
  /\ abort[p]
  /\ \E here \in {"open", "opened"} : WorkerAt(p, here, "close")
  /\ UNCHANGED <<fate, mutex, queue, saver, filled, bound2, handling, abort,
                 mainVars, fileVars>>

(* The first result of the batch decides which branches a new tree gets    *)
(* and which addresses are set in an existing one.                         *)
First(p) == Head(saver[p])
TreeFits(p) == ~tree.exists \/ (tree.branch1 /\ (First(p).second => tree.branch2))

PrepareTree(p) ==
  /\ WorkerAt(p, "opened", "fill")
  /\ ~abort[p]
  /\ TreeFits(p)
  /\ bound2' = [bound2 EXCEPT ![p] = First(p).second]
  /\ UNCHANGED <<fate, mutex, queue, saver, filled, handling, abort, mainVars,
                 fileVars>>

(* A file that cannot be opened or a tree that does not fit: the lock is   *)
(* released and the exception leaves the thread function, which ends the   *)
(* whole process through std::terminate.                                   *)
SaveThrows(p) ==
  /\ fate[p] = "running"
  /\ ~abort[p]
  /\ \/ wpc[p] = "open" /\ corrupt
     \/ wpc[p] = "opened" /\ ~TreeFits(p)
  /\ flock' = Free
  /\ fate' = [fate EXCEPT ![p] = "terminated"]
  /\ UNCHANGED <<mutex, queue, abort, tree, corrupt, rows, seconds, workVars,
                 mainVars>>

(* Fill() and delete for the next result of the batch.                     *)
FillTree(p) ==
  /\ saver[p] # <<>>
  /\ filled' = [filled EXCEPT ![p] = Append(@, Head(saver[p]))]
  /\ saver' = [saver EXCEPT ![p] = Tail(@)]
  /\ WorkerAt(p, "fill", "fill")
  /\ UNCHANGED <<fate, mutex, queue, bound2, handling, abort, mainVars,
                 fileVars>>

(* Faulty variant: the tree is created anew for each batch.                *)
BugWriteReplaces(p) ==
  /\ saver[p] = <<>>
  /\ rows' = [rows EXCEPT ![p] = filled[p]]
  /\ seconds' = seconds
  /\ tree' = [exists |-> TRUE, branch1 |-> TRUE, branch2 |-> bound2[p]]
  /\ filled' = [filled EXCEPT ![p] = <<>>]
  /\ WorkerAt(p, "fill", "close")
  /\ UNCHANGED <<fate, mutex, queue, saver, bound2, handling, abort, flock,
                 corrupt, mainVars>>

(* Write(kOverwrite) makes the batch part of the file.                     *)
WriteTree(p) ==
  /\ saver[p] = <<>>
  /\ rows' = [rows EXCEPT ![p] = @ \o filled[p]]
  /\ seconds' = seconds \cup
       {c \in {filled[p][i] : i \in 1..Len(filled[p])} : c.second /\ bound2[p]}
  /\ tree' = IF tree.exists THEN tree
             ELSE [exists |-> TRUE, branch1 |-> TRUE, branch2 |-> bound2[p]]
  /\ filled' = [filled EXCEPT ![p] = <<>>]
  /\ WorkerAt(p, "fill", "close")
  /\ UNCHANGED <<fate, mutex, queue, saver, bound2, handling, abort, flock,
                 corrupt, mainVars>>

(* f.Close() and flock.Unlock().                                           *)
CloseFile(p) ==
  /\ flock' = Free
  /\ WorkerAt(p, "close", "leave")
  /\ UNCHANGED <<fate, mutex, queue, saver, filled, bound2, handling, abort,
                 tree, corrupt, rows, seconds, mainVars>>

(* Faulty variant: the mutex is not released.                              *)
BugMutexKept(p) ==
  /\ ~abort[p]
  /\ WorkerAt(p, "leave", "rest")
  /\ UNCHANGED <<fate, mutex, queue, saver, filled, bound2, handling, abort,
                 mainVars, fileVars>>

(* The end of the mutex's scope, reached unless a signal was caught.       *)
LeaveMutex(p) ==
  /\ ~abort[p]
  /\ mutex' = [mutex EXCEPT ![p] = "free"]
  /\ WorkerAt(p, "leave", "rest")
  /\ UNCHANGED <<fate, queue, saver, filled, bound2, handling, abort,
                 mainVars, fileVars>>

ExitAfterSignal(p) ==
  /\ fate[p] = "running"
  /\ wpc[p] = "leave"
  /\ abort[p]
  /\ fate' = [fate EXCEPT ![p] = "exited"]
  /\ UNCHANGED <<mutex, queue, abort, workVars, mainVars, fileVars>>

(* After the yield, and the sleep if the file was locked, signals get      *)
(* their default disposition again.                                        *)
ResetHandlers(p) ==
  /\ handling' = [handling EXCEPT ![p] = FALSE]
  /\ WorkerAt(p, "rest", "loop")
  /\ UNCHANGED <<fate, mutex, queue, saver, filled, bound2, abort, mainVars,
                 fileVars>>

-----------------------------------------------------------------------------
(* The environment.                                                        *)

HandleSignal(p) ==
  /\ "signal" \in Faults
  /\ fate[p] = "running"
  /\ handling[p]
  /\ abort' = [abort EXCEPT ![p] = TRUE]
  /\ UNCHANGED <<fate, mutex, queue, mainVars, workVars, fileVars>>

(* The process dies at once: by SIGKILL, or by SIGINT or SIGTERM while     *)
(* they are not handled.  Its lock file may stay; a file it was writing    *)
(* may be damaged.                                                         *)
Die(p) ==
  /\ fate[p] = "running"
  /\ "kill" \in Faults \/ ("signal" \in Faults /\ ~handling[p])
  /\ fate' = [fate EXCEPT ![p] = "killed"]
  /\ flock' \in IF flock # p THEN {flock}
                ELSE IF OrphanLocks THEN {Free, p} ELSE {Free}
  /\ corrupt' \in IF wpc[p] \in {"fill", "close"} THEN {corrupt, TRUE}
                  ELSE {corrupt}
  /\ UNCHANGED <<mutex, queue, abort, tree, rows, seconds, mainVars, workVars>>

-----------------------------------------------------------------------------
Main(p) ==
  \/ StoreFitResult(p) \/ RejectFitResult(p) \/ PushFitResult(p)
  \/ LockSaveFitResultMutex(p) \/ FinishFitResultSaving(p) \/ DisableQueue(p)
  \/ ReleaseWorker(p) \/ JoinWorker(p) \/ Destruct(p)
  \/ SetStoreResultFilename(p)

SaveFitResultWorker(p) ==
  \/ WorkerLoop(p) \/ WaitAndPop(p) \/ WaitDisabled(p) \/ DrainOne(p)
  \/ DrainEnd(p) \/ LockWorkerMutex(p) \/ FileIsLocked(p) \/ LockFile(p)
  \/ InstallHandlers(p) \/ OpenFile(p) \/ AbortSave(p) \/ PrepareTree(p)
  \/ SaveThrows(p) \/ FillTree(p) \/ WriteTree(p) \/ CloseFile(p)
  \/ LeaveMutex(p) \/ ExitAfterSignal(p) \/ ResetHandlers(p)

Environment(p) == HandleSignal(p) \/ Die(p)

(* Every process has ended one way or another.                             *)
Ended(p) == fate[p] # "running" \/ mpc[p] = "gone"
Terminating == (\A p \in Procs : Ended(p)) /\ UNCHANGED vars

Next ==
  \/ \E p \in Procs : Main(p) \/ SaveFitResultWorker(p) \/ Environment(p)
  \/ Terminating

Spec == Init /\ [][Next]_vars

(* The main thread goes on with a call it has begun, the worker is always  *)
(* scheduled; its random waiting times let it find the file unlocked       *)
(* sometimes, if the file is unlocked again and again.                     *)
InCall(p) ==
  \/ PushFitResult(p) \/ LockSaveFitResultMutex(p) \/ DisableQueue(p)
  \/ ReleaseWorker(p) \/ JoinWorker(p)

Fairness ==
  \A p \in Procs : /\ WF_vars(InCall(p))
                   /\ SF_vars(LockSaveFitResultMutex(p))
                   /\ WF_vars(SaveFitResultWorker(p))
                   /\ SF_vars(LockFile(p))

FairSpec == Spec /\ Fairness

-----------------------------------------------------------------------------
(* Safety.                                                                 *)

(* Every accepted fit result is in exactly one place, and the places keep  *)
(* the order of the calls: in the file, in the tree in memory, in the      *)
(* worker's queue or in the shared queue.  Only the end of the process     *)
(* makes the last three vanish.                                            *)
Conservation ==
  \A p \in Procs :
    accepted[p] = ((rows[p] \o filled[p]) \o saver[p]) \o queue[p]

(* "End the save fit result worker thread and wait for it to save          *)
(* everything": once FinishFitResultSaving has returned, every accepted    *)
(* fit result is in the file.                                              *)
FinishSavesEverything ==
  \A p \in Procs :
    (fate[p] = "running" /\ ~accepting[p] /\ mpc[p] \in {"idle", "gone"})
      => rows[p] = accepted[p]

(* Between two calls of the main thread the worker is never at work on the *)
(* file (ROOT is not thread-safe): the mutex holds it until the next fit   *)
(* result is handed over.                                                  *)
HalfAsynchronous ==
  \A p \in Procs :
    (fate[p] = "running" /\ accepting[p] /\ mpc[p] = "idle")
      => wpc[p] \notin BusyPcs

(* The file is open in one process at most, and that one holds its lock.   *)
FileExclusive ==
  \A p, q \in Procs :
    /\ fate[p] = "running" /\ wpc[p] \in FilePcs
    /\ fate[q] = "running" /\ wpc[q] \in FilePcs
    => p = q

(* HandleSignal's promise: a signal never ends the process while it has    *)
(* the file open, so without SIGKILL the file stays readable.              *)
SignalsSpareTheFile == "kill" \notin Faults => ~corrupt

(* "This function will save the given fit result(s) to a TTree": the row   *)
(* of a pair holds both fit results.                                       *)
PairsStayTogether ==
  \A p \in Procs : \A i \in 1..Len(rows[p]) :
    rows[p][i].second => rows[p][i] \in seconds

(* abort_save_ is "set to true ... in case of a signal to abort the        *)
(* program.  StoreFitResult() will try to end gracefully afterwards": no   *)
(* call sequence runs to its end in a process that caught a signal.        *)
CaughtSignalAborts ==
  \A p \in Procs : (fate[p] = "running" /\ mpc[p] = "gone") => ~abort[p]

(* The main thread never takes the mutex out of the worker's hands.        *)
MutexGivenBackByHolder ==
  [][\A p \in Procs :
       (mutex[p] = "worker" /\ mutex'[p] # "worker") => wpc'[p] # wpc[p]]_vars

-----------------------------------------------------------------------------
(* The store the callers see.                                              *)

Phase(p) ==
  IF fate[p] # "running" THEN "dead"
  ELSE IF ~accepting[p] /\ mpc[p] \in {"idle", "gone"} THEN "closed"
  ELSE "open"

Store == INSTANCE ResultStore WITH
           Results <- Container,
           phase <- [p \in Procs |-> Phase(p)],
           given <- accepted,
           stored <- rows

(* The threads, queues and locks implement that store.                     *)
ImplementsStore == Store!Spec

-----------------------------------------------------------------------------
(* Liveness, under FairSpec.                                               *)

(* The calls return, unless the process dies: FinishFitResultSaving from   *)
(* its join, StoreFitResult from its wait for the mutex.                   *)
CallsReturn ==
  \A p \in Procs :
    /\ ~accepting[p] ~> (fate[p] # "running" \/ mpc[p] \in {"idle", "gone"})
    /\ mpc[p] \in {"push", "relock"} ~> (fate[p] # "running" \/ mpc[p] = "idle")
=============================================================================
