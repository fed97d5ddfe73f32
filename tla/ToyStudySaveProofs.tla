-------------------------- MODULE ToyStudySaveProofs --------------------------
(***************************************************************************)
(* Proofs about ToyStudySave, for any number of processes and calls.       *)
(*                                                                         *)
(* The inductive invariant IInv adds to the types where the two threads    *)
(* of a process can be at the same time (ThreadsInv), who holds the mutex, *)
(* the file lock and the signal handlers (LocksInv), and where the         *)
(* accepted results are (Conservation).                                    *)
(***************************************************************************)
EXTENDS ToyStudySave, SequenceTheorems, TLAPS

USE SaveAssumption DEF SaveAssumption

(* The two threads of a process.                                           *)
ThreadsInv ==
  \A p \in Procs :
    /\ mpc[p] = "push" => calls[p] # 0 /\ named[p]
    /\ mpc[p] \in {"push", "relock"} => accepting[p]
    /\ mpc[p] \in {"disable", "unlock", "join", "gone"} => ~accepting[p]
    /\ wpc[p] \in {"mutex", "flock", "install", "open", "opened"}
         => saver[p] # <<>>
    /\ filled[p] # <<>> => wpc[p] = "fill"
    /\ wpc[p] = "done" => /\ ~accepting[p]
                          /\ queue[p] = <<>>
                          /\ saver[p] = <<>>
    /\ (~accepting[p] /\ mpc[p] \in {"idle", "gone"}) => wpc[p] = "done"

(* The main thread holds the mutex between its calls from the first        *)
(* accepted result on; the worker can be busy only then.                   *)
LocksInv ==
  \A p \in Procs :
    /\ accepted[p] # <<>> => named[p]
    /\ wpc[p] \in BusyPcs \cup {"mutex"} => accepted[p] # <<>>
    /\ saver[p] # <<>> => accepted[p] # <<>>
    /\ queue[p] # <<>> => accepted[p] # <<>>
    /\ wpc[p] \in BusyPcs <=> mutex[p] = "worker"
    /\ ( /\ accepted[p] # <<>>
         /\ mpc[p] \in {"disable", "unlock"} \/ (mpc[p] = "idle" /\ accepting[p]) )
         => mutex[p] = "main"
    /\ (fate[p] = "running" /\ wpc[p] \in FilePcs) => flock = p
    /\ wpc[p] \in {"open", "opened", "fill", "close"} => handling[p]

IInv ==
  /\ TypeOK
  /\ ThreadsInv
  /\ LocksInv
  /\ SignalsSpareTheFile
  /\ Conservation

LEMMA IInvInit == Init => IInv
  <1> SUFFICES ASSUME Init PROVE IInv
    OBVIOUS
  <1>1. TypeOK
    <2>1. /\ queue \in [Procs -> Seq(Container)]
          /\ saver \in [Procs -> Seq(Container)]
          /\ filled \in [Procs -> Seq(Container)]
          /\ rows \in [Procs -> Seq(Container)]
          /\ accepted \in [Procs -> Seq(Container)]
      BY DEF Init
    <2>2. /\ mpc \in [Procs -> MainPcs]
          /\ wpc \in [Procs -> WorkerPcs]
          /\ fate \in [Procs -> {"running", "killed", "terminated", "exited"}]
          /\ mutex \in [Procs -> {"free", "main", "worker"}]
      BY DEF Init, MainPcs, WorkerPcs
    <2>3. /\ named \in [Procs -> BOOLEAN]
          /\ calls \in [Procs -> 0..MaxCalls]
          /\ tree \in Tree
          /\ flock \in Procs \cup {Free}
      BY DEF Init
    <2>4. /\ accepting \in [Procs -> BOOLEAN]
          /\ enabled \in [Procs -> BOOLEAN]
          /\ bound2 \in [Procs -> BOOLEAN]
          /\ handling \in [Procs -> BOOLEAN]
          /\ abort \in [Procs -> BOOLEAN]
          /\ corrupt \in BOOLEAN
          /\ seconds \subseteq Container
      BY DEF Init
    <2> QED
      BY <2>1, <2>2, <2>3, <2>4 DEF TypeOK
  <1>2. ThreadsInv
    BY DEF Init, ThreadsInv
  <1>3. LocksInv
    BY DEF Init, LocksInv, BusyPcs, FilePcs
  <1>4. SignalsSpareTheFile
    BY DEF Init, SignalsSpareTheFile
  <1>5. Conservation
    <2>1. <<>> = ((<<>> \o <<>>) \o <<>>) \o <<>>
      OBVIOUS
    <2> QED
      BY <2>1 DEF Init, Conservation
  <1> QED
    BY <1>1, <1>2, <1>3, <1>4, <1>5 DEF IInv

-----------------------------------------------------------------------------
LEMMA TypeStep == TypeOK /\ ThreadsInv /\ [Next]_vars => TypeOK'
  <1> SUFFICES ASSUME TypeOK /\ ThreadsInv, [Next]_vars PROVE TypeOK'
    OBVIOUS
  <1> USE DEF TypeOK, MainPcs, WorkerPcs, BusyPcs, FilePcs,
              mainVars, workVars, fileVars, MainAt, WorkerAt
  <1>1. ASSUME NEW p \in Procs, SetStoreResultFilename(p) PROVE TypeOK'
    BY <1>1 DEF SetStoreResultFilename
  <1>2. ASSUME NEW p \in Procs, StoreFitResult(p) PROVE TypeOK'
    BY <1>2 DEF StoreFitResult
  <1>3. ASSUME NEW p \in Procs, RejectFitResult(p) PROVE TypeOK'
    BY <1>3 DEF RejectFitResult
  <1>4. ASSUME NEW p \in Procs, PushFitResult(p) PROVE TypeOK'
    <2>1. PICK second \in BOOLEAN :
            LET c == [proc |-> p, call |-> calls[p], second |-> second]
            IN  /\ queue' = [queue EXCEPT ![p] = Append(@, c)]
                /\ accepted' = [accepted EXCEPT ![p] = Append(@, c)]
      BY <1>4 DEF PushFitResult
    <2>2. [proc |-> p, call |-> calls[p], second |-> second] \in Container
      BY <1>4 DEF PushFitResult, ThreadsInv, Container
    <2> QED
      BY <1>4, <2>1, <2>2, AppendProperties DEF PushFitResult
  <1>5. ASSUME NEW p \in Procs, LockSaveFitResultMutex(p) PROVE TypeOK'
    BY <1>5 DEF LockSaveFitResultMutex
  <1>6. ASSUME NEW p \in Procs, FinishFitResultSaving(p) PROVE TypeOK'
    BY <1>6 DEF FinishFitResultSaving
  <1>7. ASSUME NEW p \in Procs, DisableQueue(p) PROVE TypeOK'
    BY <1>7 DEF DisableQueue
  <1>8. ASSUME NEW p \in Procs, ReleaseWorker(p) PROVE TypeOK'
    BY <1>8 DEF ReleaseWorker
  <1>9. ASSUME NEW p \in Procs, JoinWorker(p) PROVE TypeOK'
    BY <1>9 DEF JoinWorker
  <1>10. ASSUME NEW p \in Procs, Destruct(p) PROVE TypeOK'
    BY <1>10 DEF Destruct
  <1>11. ASSUME NEW p \in Procs, WorkerLoop(p) PROVE TypeOK'
    BY <1>11 DEF WorkerLoop
  <1>12. ASSUME NEW p \in Procs, WaitAndPop(p) PROVE TypeOK'
    BY <1>12 DEF WaitAndPop, PopToSaver
  <1>13. ASSUME NEW p \in Procs, WaitDisabled(p) PROVE TypeOK'
    BY <1>13 DEF WaitDisabled
  <1>14. ASSUME NEW p \in Procs, DrainOne(p) PROVE TypeOK'
    BY <1>14 DEF DrainOne, PopToSaver
  <1>15. ASSUME NEW p \in Procs, DrainEnd(p) PROVE TypeOK'
    BY <1>15 DEF DrainEnd
  <1>16. ASSUME NEW p \in Procs, LockWorkerMutex(p) PROVE TypeOK'
    BY <1>16 DEF LockWorkerMutex
  <1>17. ASSUME NEW p \in Procs, FileIsLocked(p) PROVE TypeOK'
    BY <1>17 DEF FileIsLocked
  <1>18. ASSUME NEW p \in Procs, LockFile(p) PROVE TypeOK'
    BY <1>18 DEF LockFile
  <1>19. ASSUME NEW p \in Procs, InstallHandlers(p) PROVE TypeOK'
    BY <1>19 DEF InstallHandlers
  <1>20. ASSUME NEW p \in Procs, OpenFile(p) PROVE TypeOK'
    BY <1>20 DEF OpenFile
  <1>21. ASSUME NEW p \in Procs, AbortSave(p) PROVE TypeOK'
    BY <1>21 DEF AbortSave
  <1>22. ASSUME NEW p \in Procs, PrepareTree(p) PROVE TypeOK'
    <2>1. saver[p] \in Seq(Container) /\ saver[p] # <<>>
      BY <1>22 DEF PrepareTree, ThreadsInv
    <2>2. First(p) \in Container
      BY <2>1, HeadTailProperties DEF First
    <2>3. First(p).second \in BOOLEAN
      BY <2>2 DEF Container
    <2> HIDE DEF First
    <2> QED
      BY <1>22, <2>3 DEF PrepareTree
  <1>23. ASSUME NEW p \in Procs, SaveThrows(p) PROVE TypeOK'
    BY <1>23 DEF SaveThrows, First, TreeFits
  <1>24. ASSUME NEW p \in Procs, FillTree(p) PROVE TypeOK'
    BY <1>24 DEF FillTree
  <1>25. ASSUME NEW p \in Procs, WriteTree(p) PROVE TypeOK'
    <2>1. rows[p] \o filled[p] \in Seq(Container)
      BY ConcatProperties
    <2>2. {filled[p][i] : i \in 1..Len(filled[p])} \subseteq Container
      BY ElementOfSeq
    <2>3. tree' \in Tree
      BY <1>25 DEF WriteTree, Tree
    <2> QED
      BY <1>25, <2>1, <2>2, <2>3 DEF WriteTree
  <1>26. ASSUME NEW p \in Procs, CloseFile(p) PROVE TypeOK'
    BY <1>26 DEF CloseFile
  <1>27. ASSUME NEW p \in Procs, LeaveMutex(p) PROVE TypeOK'
    BY <1>27 DEF LeaveMutex
  <1>28. ASSUME NEW p \in Procs, ExitAfterSignal(p) PROVE TypeOK'
    BY <1>28 DEF ExitAfterSignal
  <1>29. ASSUME NEW p \in Procs, ResetHandlers(p) PROVE TypeOK'
    BY <1>29 DEF ResetHandlers
  <1>30. ASSUME NEW p \in Procs, HandleSignal(p) PROVE TypeOK'
    BY <1>30 DEF HandleSignal
  <1>31. ASSUME NEW p \in Procs, Die(p) PROVE TypeOK'
    BY <1>31 DEF Die
  <1>32. CASE UNCHANGED vars
    BY <1>32 DEF vars
  <1> QED
    BY <1>1, <1>2, <1>3, <1>4, <1>5, <1>6, <1>7, <1>8, <1>9, <1>10,
       <1>11, <1>12, <1>13, <1>14, <1>15, <1>16, <1>17, <1>18,
       <1>19, <1>20, <1>21, <1>22, <1>23, <1>24, <1>25, <1>26,
       <1>27, <1>28, <1>29, <1>30, <1>31,
       <1>32 DEF Next, Main, SaveFitResultWorker, Environment, Terminating

LEMMA ThreadsStep == TypeOK /\ ThreadsInv /\ [Next]_vars => ThreadsInv'
  <1> SUFFICES ASSUME TypeOK /\ ThreadsInv, [Next]_vars PROVE ThreadsInv'
    OBVIOUS
  <1> USE DEF TypeOK, MainPcs, WorkerPcs, BusyPcs, FilePcs,
              mainVars, workVars, fileVars, MainAt, WorkerAt, ThreadsInv
  <1>1. ASSUME NEW p \in Procs, SetStoreResultFilename(p) PROVE ThreadsInv'
    BY <1>1 DEF SetStoreResultFilename
  <1>2. ASSUME NEW p \in Procs, StoreFitResult(p) PROVE ThreadsInv'
    BY <1>2 DEF StoreFitResult
  <1>3. ASSUME NEW p \in Procs, RejectFitResult(p) PROVE ThreadsInv'
    BY <1>3 DEF RejectFitResult
  <1>4. ASSUME NEW p \in Procs, PushFitResult(p) PROVE ThreadsInv'
    BY <1>4 DEF PushFitResult
  <1>5. ASSUME NEW p \in Procs, LockSaveFitResultMutex(p) PROVE ThreadsInv'
    BY <1>5 DEF LockSaveFitResultMutex
  <1>6. ASSUME NEW p \in Procs, FinishFitResultSaving(p) PROVE ThreadsInv'
    BY <1>6 DEF FinishFitResultSaving
  <1>7. ASSUME NEW p \in Procs, DisableQueue(p) PROVE ThreadsInv'
    BY <1>7 DEF DisableQueue
  <1>8. ASSUME NEW p \in Procs, ReleaseWorker(p) PROVE ThreadsInv'
    BY <1>8 DEF ReleaseWorker
  <1>9. ASSUME NEW p \in Procs, JoinWorker(p) PROVE ThreadsInv'
    BY <1>9 DEF JoinWorker
  <1>10. ASSUME NEW p \in Procs, Destruct(p) PROVE ThreadsInv'
    BY <1>10 DEF Destruct
  <1>11. ASSUME NEW p \in Procs, WorkerLoop(p) PROVE ThreadsInv'
    BY <1>11 DEF WorkerLoop
  <1>12. ASSUME NEW p \in Procs, WaitAndPop(p) PROVE ThreadsInv'
    BY <1>12 DEF WaitAndPop, PopToSaver
  <1>13. ASSUME NEW p \in Procs, WaitDisabled(p) PROVE ThreadsInv'
    BY <1>13 DEF WaitDisabled
  <1>14. ASSUME NEW p \in Procs, DrainOne(p) PROVE ThreadsInv'
    BY <1>14 DEF DrainOne, PopToSaver
  <1>15. ASSUME NEW p \in Procs, DrainEnd(p) PROVE ThreadsInv'
    BY <1>15 DEF DrainEnd
  <1>16. ASSUME NEW p \in Procs, LockWorkerMutex(p) PROVE ThreadsInv'
    BY <1>16 DEF LockWorkerMutex
  <1>17. ASSUME NEW p \in Procs, FileIsLocked(p) PROVE ThreadsInv'
    BY <1>17 DEF FileIsLocked
  <1>18. ASSUME NEW p \in Procs, LockFile(p) PROVE ThreadsInv'
    BY <1>18 DEF LockFile
  <1>19. ASSUME NEW p \in Procs, InstallHandlers(p) PROVE ThreadsInv'
    BY <1>19 DEF InstallHandlers
  <1>20. ASSUME NEW p \in Procs, OpenFile(p) PROVE ThreadsInv'
    BY <1>20 DEF OpenFile
  <1>21. ASSUME NEW p \in Procs, AbortSave(p) PROVE ThreadsInv'
    BY <1>21 DEF AbortSave
  <1>22. ASSUME NEW p \in Procs, PrepareTree(p) PROVE ThreadsInv'
    BY <1>22 DEF PrepareTree, First
  <1>23. ASSUME NEW p \in Procs, SaveThrows(p) PROVE ThreadsInv'
    BY <1>23 DEF SaveThrows, First, TreeFits
  <1>24. ASSUME NEW p \in Procs, FillTree(p) PROVE ThreadsInv'
    BY <1>24 DEF FillTree
  <1>25. ASSUME NEW p \in Procs, WriteTree(p) PROVE ThreadsInv'
    BY <1>25 DEF WriteTree
  <1>26. ASSUME NEW p \in Procs, CloseFile(p) PROVE ThreadsInv'
    BY <1>26 DEF CloseFile
  <1>27. ASSUME NEW p \in Procs, LeaveMutex(p) PROVE ThreadsInv'
    BY <1>27 DEF LeaveMutex
  <1>28. ASSUME NEW p \in Procs, ExitAfterSignal(p) PROVE ThreadsInv'
    BY <1>28 DEF ExitAfterSignal
  <1>29. ASSUME NEW p \in Procs, ResetHandlers(p) PROVE ThreadsInv'
    BY <1>29 DEF ResetHandlers
  <1>30. ASSUME NEW p \in Procs, HandleSignal(p) PROVE ThreadsInv'
    BY <1>30 DEF HandleSignal
  <1>31. ASSUME NEW p \in Procs, Die(p) PROVE ThreadsInv'
    BY <1>31 DEF Die
  <1>32. CASE UNCHANGED vars
    BY <1>32 DEF vars
  <1> QED
    BY <1>1, <1>2, <1>3, <1>4, <1>5, <1>6, <1>7, <1>8, <1>9, <1>10,
       <1>11, <1>12, <1>13, <1>14, <1>15, <1>16, <1>17, <1>18,
       <1>19, <1>20, <1>21, <1>22, <1>23, <1>24, <1>25, <1>26,
       <1>27, <1>28, <1>29, <1>30, <1>31,
       <1>32 DEF Next, Main, SaveFitResultWorker, Environment, Terminating

LEMMA LocksStep == IInv /\ [Next]_vars => LocksInv'
  <1> SUFFICES ASSUME IInv, [Next]_vars PROVE LocksInv'
    OBVIOUS
  <1> USE DEF TypeOK, MainPcs, WorkerPcs, BusyPcs, FilePcs,
              mainVars, workVars, fileVars, MainAt, WorkerAt,
              IInv, ThreadsInv, LocksInv
  <1>1. ASSUME NEW p \in Procs, SetStoreResultFilename(p) PROVE LocksInv'
    BY <1>1 DEF SetStoreResultFilename
  <1>2. ASSUME NEW p \in Procs, StoreFitResult(p) PROVE LocksInv'
    BY <1>2 DEF StoreFitResult
  <1>3. ASSUME NEW p \in Procs, RejectFitResult(p) PROVE LocksInv'
    BY <1>3 DEF RejectFitResult
  <1>4. ASSUME NEW p \in Procs, PushFitResult(p) PROVE LocksInv'
    <2>1. PICK c : /\ queue' = [queue EXCEPT ![p] = Append(@, c)]
                   /\ accepted' = [accepted EXCEPT ![p] = Append(@, c)]
      BY <1>4 DEF PushFitResult
    <2>2. accepted'[p] # <<>>
      BY <2>1
    <2>3. /\ mpc[p] = "push" /\ mpc' = [mpc EXCEPT ![p] = "relock"]
          /\ UNCHANGED <<wpc, fate, named, saver, mutex, flock, handling, accepting>>
      BY <1>4 DEF PushFitResult
    <2>4. \A q \in Procs : q # p => /\ queue'[q] = queue[q]
                                    /\ accepted'[q] = accepted[q]
                                    /\ mpc'[q] = mpc[q]
      BY <2>1, <2>3
    <2> QED
      BY <2>2, <2>3, <2>4
  <1>5. ASSUME NEW p \in Procs, LockSaveFitResultMutex(p) PROVE LocksInv'
    BY <1>5 DEF LockSaveFitResultMutex
  <1>6. ASSUME NEW p \in Procs, FinishFitResultSaving(p) PROVE LocksInv'
    BY <1>6 DEF FinishFitResultSaving
  <1>7. ASSUME NEW p \in Procs, DisableQueue(p) PROVE LocksInv'
    BY <1>7 DEF DisableQueue
  <1>8. ASSUME NEW p \in Procs, ReleaseWorker(p) PROVE LocksInv'
    BY <1>8 DEF ReleaseWorker
  <1>9. ASSUME NEW p \in Procs, JoinWorker(p) PROVE LocksInv'
    BY <1>9 DEF JoinWorker
  <1>10. ASSUME NEW p \in Procs, Destruct(p) PROVE LocksInv'
    BY <1>10 DEF Destruct
  <1>11. ASSUME NEW p \in Procs, WorkerLoop(p) PROVE LocksInv'
    BY <1>11 DEF WorkerLoop
  <1>12. ASSUME NEW p \in Procs, WaitAndPop(p) PROVE LocksInv'
    BY <1>12, SMTT(60) DEF WaitAndPop, PopToSaver
  <1>13. ASSUME NEW p \in Procs, WaitDisabled(p) PROVE LocksInv'
    BY <1>13 DEF WaitDisabled
  <1>14. ASSUME NEW p \in Procs, DrainOne(p) PROVE LocksInv'
    BY <1>14, SMTT(60) DEF DrainOne, PopToSaver
  <1>15. ASSUME NEW p \in Procs, DrainEnd(p) PROVE LocksInv'
    BY <1>15 DEF DrainEnd
  <1>16. ASSUME NEW p \in Procs, LockWorkerMutex(p) PROVE LocksInv'
    BY <1>16 DEF LockWorkerMutex
  <1>17. ASSUME NEW p \in Procs, FileIsLocked(p) PROVE LocksInv'
    BY <1>17 DEF FileIsLocked
  <1>18. ASSUME NEW p \in Procs, LockFile(p) PROVE LocksInv'
    BY <1>18 DEF LockFile
  <1>19. ASSUME NEW p \in Procs, InstallHandlers(p) PROVE LocksInv'
    BY <1>19 DEF InstallHandlers
  <1>20. ASSUME NEW p \in Procs, OpenFile(p) PROVE LocksInv'
    BY <1>20 DEF OpenFile
  <1>21. ASSUME NEW p \in Procs, AbortSave(p) PROVE LocksInv'
    BY <1>21 DEF AbortSave
  <1>22. ASSUME NEW p \in Procs, PrepareTree(p) PROVE LocksInv'
    BY <1>22 DEF PrepareTree, First
  <1>23. ASSUME NEW p \in Procs, SaveThrows(p) PROVE LocksInv'
    BY <1>23 DEF SaveThrows, First, TreeFits
  <1>24. ASSUME NEW p \in Procs, FillTree(p) PROVE LocksInv'
    BY <1>24, SMTT(60) DEF FillTree
  <1>25. ASSUME NEW p \in Procs, WriteTree(p) PROVE LocksInv'
    BY <1>25 DEF WriteTree
  <1>26. ASSUME NEW p \in Procs, CloseFile(p) PROVE LocksInv'
    BY <1>26 DEF CloseFile
  <1>27. ASSUME NEW p \in Procs, LeaveMutex(p) PROVE LocksInv'
    BY <1>27 DEF LeaveMutex
  <1>28. ASSUME NEW p \in Procs, ExitAfterSignal(p) PROVE LocksInv'
    BY <1>28 DEF ExitAfterSignal
  <1>29. ASSUME NEW p \in Procs, ResetHandlers(p) PROVE LocksInv'
    BY <1>29 DEF ResetHandlers
  <1>30. ASSUME NEW p \in Procs, HandleSignal(p) PROVE LocksInv'
    BY <1>30 DEF HandleSignal
  <1>31. ASSUME NEW p \in Procs, Die(p) PROVE LocksInv'
    BY <1>31 DEF Die
  <1>32. CASE UNCHANGED vars
    BY <1>32 DEF vars
  <1> QED
    BY <1>1, <1>2, <1>3, <1>4, <1>5, <1>6, <1>7, <1>8, <1>9, <1>10,
       <1>11, <1>12, <1>13, <1>14, <1>15, <1>16, <1>17, <1>18,
       <1>19, <1>20, <1>21, <1>22, <1>23, <1>24, <1>25, <1>26,
       <1>27, <1>28, <1>29, <1>30, <1>31,
       <1>32 DEF Next, Main, SaveFitResultWorker, Environment, Terminating

LEMMA FileStep == IInv /\ [Next]_vars => SignalsSpareTheFile'
  <1> SUFFICES ASSUME IInv, [Next]_vars PROVE SignalsSpareTheFile'
    OBVIOUS
  <1> USE DEF TypeOK, MainPcs, WorkerPcs, BusyPcs, FilePcs,
              mainVars, workVars, fileVars, MainAt, WorkerAt,
              IInv, LocksInv, SignalsSpareTheFile
  <1>1. ASSUME NEW p \in Procs, SetStoreResultFilename(p) PROVE SignalsSpareTheFile'
    BY <1>1 DEF SetStoreResultFilename
  <1>2. ASSUME NEW p \in Procs, StoreFitResult(p) PROVE SignalsSpareTheFile'
    BY <1>2 DEF StoreFitResult
  <1>3. ASSUME NEW p \in Procs, RejectFitResult(p) PROVE SignalsSpareTheFile'
    BY <1>3 DEF RejectFitResult
  <1>4. ASSUME NEW p \in Procs, PushFitResult(p) PROVE SignalsSpareTheFile'
    BY <1>4 DEF PushFitResult
  <1>5. ASSUME NEW p \in Procs, LockSaveFitResultMutex(p) PROVE SignalsSpareTheFile'
    BY <1>5 DEF LockSaveFitResultMutex
  <1>6. ASSUME NEW p \in Procs, FinishFitResultSaving(p) PROVE SignalsSpareTheFile'
    BY <1>6 DEF FinishFitResultSaving
  <1>7. ASSUME NEW p \in Procs, DisableQueue(p) PROVE SignalsSpareTheFile'
    BY <1>7 DEF DisableQueue
  <1>8. ASSUME NEW p \in Procs, ReleaseWorker(p) PROVE SignalsSpareTheFile'
    BY <1>8 DEF ReleaseWorker
  <1>9. ASSUME NEW p \in Procs, JoinWorker(p) PROVE SignalsSpareTheFile'
    BY <1>9 DEF JoinWorker
  <1>10. ASSUME NEW p \in Procs, Destruct(p) PROVE SignalsSpareTheFile'
    BY <1>10 DEF Destruct
  <1>11. ASSUME NEW p \in Procs, WorkerLoop(p) PROVE SignalsSpareTheFile'
    BY <1>11 DEF WorkerLoop
  <1>12. ASSUME NEW p \in Procs, WaitAndPop(p) PROVE SignalsSpareTheFile'
    BY <1>12 DEF WaitAndPop, PopToSaver
  <1>13. ASSUME NEW p \in Procs, WaitDisabled(p) PROVE SignalsSpareTheFile'
    BY <1>13 DEF WaitDisabled
  <1>14. ASSUME NEW p \in Procs, DrainOne(p) PROVE SignalsSpareTheFile'
    BY <1>14 DEF DrainOne, PopToSaver
  <1>15. ASSUME NEW p \in Procs, DrainEnd(p) PROVE SignalsSpareTheFile'
    BY <1>15 DEF DrainEnd
  <1>16. ASSUME NEW p \in Procs, LockWorkerMutex(p) PROVE SignalsSpareTheFile'
    BY <1>16 DEF LockWorkerMutex
  <1>17. ASSUME NEW p \in Procs, FileIsLocked(p) PROVE SignalsSpareTheFile'
    BY <1>17 DEF FileIsLocked
  <1>18. ASSUME NEW p \in Procs, LockFile(p) PROVE SignalsSpareTheFile'
    BY <1>18 DEF LockFile
  <1>19. ASSUME NEW p \in Procs, InstallHandlers(p) PROVE SignalsSpareTheFile'
    BY <1>19 DEF InstallHandlers
  <1>20. ASSUME NEW p \in Procs, OpenFile(p) PROVE SignalsSpareTheFile'
    BY <1>20 DEF OpenFile
  <1>21. ASSUME NEW p \in Procs, AbortSave(p) PROVE SignalsSpareTheFile'
    BY <1>21 DEF AbortSave
  <1>22. ASSUME NEW p \in Procs, PrepareTree(p) PROVE SignalsSpareTheFile'
    BY <1>22 DEF PrepareTree, First
  <1>23. ASSUME NEW p \in Procs, SaveThrows(p) PROVE SignalsSpareTheFile'
    BY <1>23 DEF SaveThrows, First, TreeFits
  <1>24. ASSUME NEW p \in Procs, FillTree(p) PROVE SignalsSpareTheFile'
    BY <1>24 DEF FillTree
  <1>25. ASSUME NEW p \in Procs, WriteTree(p) PROVE SignalsSpareTheFile'
    BY <1>25 DEF WriteTree
  <1>26. ASSUME NEW p \in Procs, CloseFile(p) PROVE SignalsSpareTheFile'
    BY <1>26 DEF CloseFile
  <1>27. ASSUME NEW p \in Procs, LeaveMutex(p) PROVE SignalsSpareTheFile'
    BY <1>27 DEF LeaveMutex
  <1>28. ASSUME NEW p \in Procs, ExitAfterSignal(p) PROVE SignalsSpareTheFile'
    BY <1>28 DEF ExitAfterSignal
  <1>29. ASSUME NEW p \in Procs, ResetHandlers(p) PROVE SignalsSpareTheFile'
    BY <1>29 DEF ResetHandlers
  <1>30. ASSUME NEW p \in Procs, HandleSignal(p) PROVE SignalsSpareTheFile'
    BY <1>30 DEF HandleSignal
  <1>31. ASSUME NEW p \in Procs, Die(p) PROVE SignalsSpareTheFile'
    BY <1>31 DEF Die
  <1>32. CASE UNCHANGED vars
    BY <1>32 DEF vars
  <1> QED
    BY <1>1, <1>2, <1>3, <1>4, <1>5, <1>6, <1>7, <1>8, <1>9, <1>10,
       <1>11, <1>12, <1>13, <1>14, <1>15, <1>16, <1>17, <1>18,
       <1>19, <1>20, <1>21, <1>22, <1>23, <1>24, <1>25, <1>26,
       <1>27, <1>28, <1>29, <1>30, <1>31,
       <1>32 DEF Next, Main, SaveFitResultWorker, Environment, Terminating

-----------------------------------------------------------------------------
(* Moving an element from the head of one queue to the end of the one      *)
(* before it does not change what the queues hold together.                *)

LEMMA AppendConcat ==
  ASSUME NEW S, NEW s \in Seq(S), NEW t \in Seq(S), NEW e \in S
  PROVE  s \o Append(t, e) = Append(s \o t, e)
  <1>1. /\ Append(t, e) = t \o <<e>>
        /\ Append(s \o t, e) = (s \o t) \o <<e>>
    BY AppendIsConcat, ConcatProperties
  <1>2. <<e>> \in Seq(S)
    OBVIOUS
  <1> QED
    BY <1>1, <1>2, ConcatAssociative

LEMMA HeadTailConcat ==
  ASSUME NEW S, NEW t \in Seq(S), t # <<>>
  PROVE  /\ <<Head(t)>> \in Seq(S)
         /\ t = <<Head(t)>> \o Tail(t)
  OBVIOUS

LEMMA MoveHead ==
  ASSUME NEW S, NEW s \in Seq(S), NEW t \in Seq(S), t # <<>>
  PROVE  Append(s, Head(t)) \o Tail(t) = s \o t
  <1>1. /\ Head(t) \in S
        /\ Tail(t) \in Seq(S)
    BY HeadTailProperties
  <1>2. Append(s, Head(t)) = s \o <<Head(t)>>
    BY <1>1, AppendIsConcat
  <1>3. (s \o <<Head(t)>>) \o Tail(t) = s \o (<<Head(t)>> \o Tail(t))
    BY <1>1, HeadTailConcat, ConcatAssociative
  <1> QED
    BY <1>2, <1>3, HeadTailConcat

(* What process p has accepted, as Conservation lists it.                  *)
Held(p) == ((rows[p] \o filled[p]) \o saver[p]) \o queue[p]

LEMMA ConservationStep == IInv /\ [Next]_vars => Conservation'
  <1> SUFFICES ASSUME IInv, [Next]_vars,
                      NEW q \in Procs
               PROVE  accepted'[q] = Held(q)'
    BY DEF Conservation, Held
  <1> DEFINE Moves == <<rows, filled, saver, queue, accepted>>
  <1>1. accepted[q] = Held(q)
    BY DEF IInv, Conservation, Held
  <1>2. /\ rows[q] \in Seq(Container)
        /\ filled[q] \in Seq(Container)
        /\ saver[q] \in Seq(Container)
        /\ queue[q] \in Seq(Container)
    BY DEF IInv, TypeOK
  <1>3. /\ rows[q] \o filled[q] \in Seq(Container)
        /\ (rows[q] \o filled[q]) \o saver[q] \in Seq(Container)
    BY <1>2, ConcatProperties
  <1>4. CASE UNCHANGED Moves
    BY <1>1, <1>4 DEF Held
  <1>5. ASSUME NEW p \in Procs, PushFitResult(p) PROVE accepted'[q] = Held(q)'
    <2>1. PICK c \in Container : /\ queue' = [queue EXCEPT ![p] = Append(@, c)]
                                 /\ accepted' = [accepted EXCEPT ![p] = Append(@, c)]
      <3>1. PICK second \in BOOLEAN :
              LET c == [proc |-> p, call |-> calls[p], second |-> second]
              IN  /\ queue' = [queue EXCEPT ![p] = Append(@, c)]
                  /\ accepted' = [accepted EXCEPT ![p] = Append(@, c)]
        BY <1>5 DEF PushFitResult
      <3>2. [proc |-> p, call |-> calls[p], second |-> second] \in Container
        BY <1>5 DEF PushFitResult, MainAt, Container, IInv, TypeOK, ThreadsInv
      <3> QED
        BY <3>1, <3>2
    <2>2. UNCHANGED <<rows, filled, saver>>
      BY <1>5 DEF PushFitResult, workVars, fileVars
    <2>3. CASE p = q
      <3>1. /\ queue'[q] = Append(queue[q], c)
            /\ accepted'[q] = Append(accepted[q], c)
        BY <2>1, <2>3 DEF IInv, TypeOK
      <3>2. PICK s, t : s = (rows[q] \o filled[q]) \o saver[q] /\ t = queue[q]
        OBVIOUS
      <3> s \in Seq(Container) /\ t \in Seq(Container)
        BY <1>2, <1>3, <3>2
      <3>3. s \o Append(t, c) = Append(s \o t, c)
        BY AppendConcat
      <3> QED
        BY <1>1, <2>2, <3>1, <3>2, <3>3 DEF Held
    <2>4. CASE p # q
      BY <1>1, <2>1, <2>2, <2>4 DEF Held, IInv, TypeOK
    <2> QED
      BY <2>3, <2>4
  <1>6. ASSUME NEW p \in Procs, PopToSaver(p), UNCHANGED <<rows, accepted>>
        PROVE accepted'[q] = Held(q)'
    <2>1. UNCHANGED filled
      BY <1>6 DEF PopToSaver
    <2>2. CASE p = q
      <3>1. /\ queue[q] # <<>>
            /\ saver'[q] = Append(saver[q], Head(queue[q]))
            /\ queue'[q] = Tail(queue[q])
        BY <1>6, <2>2 DEF PopToSaver, IInv, TypeOK
      <3>2. Head(queue[q]) \in Container
        BY <1>2, <3>1, HeadTailProperties
      <3>3. (rows[q] \o filled[q]) \o Append(saver[q], Head(queue[q]))
              = Append((rows[q] \o filled[q]) \o saver[q], Head(queue[q]))
        <4>1. PICK s, t, e : /\ s = rows[q] \o filled[q]
                             /\ t = saver[q]
                             /\ e = Head(queue[q])
          OBVIOUS
        <4> s \in Seq(Container) /\ t \in Seq(Container) /\ e \in Container
          BY <1>2, <1>3, <3>2, <4>1
        <4>2. s \o Append(t, e) = Append(s \o t, e)
          BY AppendConcat
        <4> QED
          BY <4>1, <4>2
      <3>4. Append((rows[q] \o filled[q]) \o saver[q], Head(queue[q]))
              \o Tail(queue[q]) = Held(q)
        BY <1>2, <1>3, <3>1, MoveHead DEF Held
      <3> QED
        BY <1>1, <1>6, <2>1, <3>1, <3>3, <3>4 DEF Held
    <2>3. CASE p # q
      BY <1>1, <1>6, <2>1, <2>3 DEF Held, PopToSaver, IInv, TypeOK
    <2> QED
      BY <2>2, <2>3
  <1>7. ASSUME NEW p \in Procs, FillTree(p) PROVE accepted'[q] = Held(q)'
    <2>1. UNCHANGED <<rows, queue, accepted>>
      BY <1>7 DEF FillTree, mainVars, fileVars
    <2>2. CASE p = q
      <3>1. /\ saver[q] # <<>>
            /\ filled'[q] = Append(filled[q], Head(saver[q]))
            /\ saver'[q] = Tail(saver[q])
        BY <1>7, <2>2 DEF FillTree, IInv, TypeOK
      <3>2. Head(saver[q]) \in Container
        BY <1>2, <3>1, HeadTailProperties
      <3>3. rows[q] \o Append(filled[q], Head(saver[q]))
              = Append(rows[q] \o filled[q], Head(saver[q]))
        <4>1. PICK s, t, e : s = rows[q] /\ t = filled[q] /\ e = Head(saver[q])
          OBVIOUS
        <4> s \in Seq(Container) /\ t \in Seq(Container) /\ e \in Container
          BY <1>2, <3>2, <4>1
        <4>2. s \o Append(t, e) = Append(s \o t, e)
          BY AppendConcat
        <4> QED
          BY <4>1, <4>2
      <3>4. Append(rows[q] \o filled[q], Head(saver[q])) \o Tail(saver[q])
              = (rows[q] \o filled[q]) \o saver[q]
        BY <1>2, <1>3, <3>1, MoveHead
      <3> QED
        BY <1>1, <2>1, <3>1, <3>3, <3>4 DEF Held
    <2>3. CASE p # q
      BY <1>1, <1>7, <2>1, <2>3 DEF Held, FillTree, IInv, TypeOK
    <2> QED
      BY <2>2, <2>3
  <1>8. ASSUME NEW p \in Procs, WriteTree(p) PROVE accepted'[q] = Held(q)'
    <2>1. UNCHANGED <<saver, queue, accepted>>
      BY <1>8 DEF WriteTree, mainVars
    <2>2. CASE p = q
      <3>1. rows'[q] = rows[q] \o filled[q] /\ filled'[q] = <<>>
        BY <1>8, <2>2 DEF WriteTree, IInv, TypeOK
      <3>2. (rows[q] \o filled[q]) \o <<>> = rows[q] \o filled[q]
        BY <1>3, ConcatEmptySeq
      <3> QED
        BY <1>1, <2>1, <3>1, <3>2 DEF Held
    <2>3. CASE p # q
      BY <1>1, <1>8, <2>1, <2>3 DEF Held, WriteTree, IInv, TypeOK
    <2> QED
      BY <2>2, <2>3
  <1>9. ASSUME NEW p \in Procs, Main(p) PROVE accepted'[q] = Held(q)'
    <2>1. PushFitResult(p) \/ UNCHANGED Moves
      BY <1>9 DEF Main, SetStoreResultFilename, StoreFitResult,
                  RejectFitResult, LockSaveFitResultMutex,
                  FinishFitResultSaving, DisableQueue, ReleaseWorker,
                  JoinWorker, Destruct, workVars, fileVars
    <2> QED
      BY <1>4, <1>5, <1>9, <2>1
  <1>10. ASSUME NEW p \in Procs, SaveFitResultWorker(p)
         PROVE  accepted'[q] = Held(q)'
    <2>1. \/ PopToSaver(p) /\ UNCHANGED <<rows, accepted>>
          \/ FillTree(p) \/ WriteTree(p) \/ UNCHANGED Moves
      BY <1>10 DEF SaveFitResultWorker, WorkerLoop, WaitAndPop, WaitDisabled,
                   DrainOne, DrainEnd, LockWorkerMutex, FileIsLocked, LockFile,
                   InstallHandlers, OpenFile, AbortSave, PrepareTree,
                   SaveThrows, CloseFile, LeaveMutex, ExitAfterSignal,
                   ResetHandlers, PopToSaver, mainVars, fileVars, workVars
    <2> QED
      BY <1>4, <1>6, <1>7, <1>8, <2>1
  <1>11. ASSUME NEW p \in Procs, Environment(p) PROVE accepted'[q] = Held(q)'
    BY <1>4, <1>11 DEF Environment, HandleSignal, Die, mainVars, workVars,
                       fileVars
  <1>12. CASE UNCHANGED vars
    BY <1>4, <1>12 DEF vars
  <1> QED
    BY <1>9, <1>10, <1>11, <1>12 DEF Next, Terminating

-----------------------------------------------------------------------------
(* The inductive invariant holds in every state.                           *)
THEOREM Invariance == Spec => []IInv
  <1>1. IInv /\ [Next]_vars => IInv'
    <2> SUFFICES ASSUME IInv, [Next]_vars PROVE IInv'
      OBVIOUS
    <2>1. TypeOK /\ ThreadsInv
      BY DEF IInv
    <2>2. TypeOK' /\ ThreadsInv'
      BY <2>1, TypeStep, ThreadsStep
    <2>3. LocksInv' /\ SignalsSpareTheFile' /\ Conservation'
      BY LocksStep, FileStep, ConservationStep
    <2> QED
      BY <2>2, <2>3 DEF IInv
  <1> QED
    BY <1>1, IInvInit, PTL DEF Spec

(* Type correctness.                                                       *)
THEOREM TypeCorrect == Spec => []TypeOK
  BY Invariance, PTL DEF IInv

(* No accepted fit result is lost, duplicated or reordered on its way from *)
(* StoreFitResult through the two queues into the file.                    *)
THEOREM ResultsConserved == Spec => []Conservation
  BY Invariance, PTL DEF IInv

(* Once FinishFitResultSaving has returned, the file holds every accepted  *)
(* fit result.                                                             *)
THEOREM FinishSaves == Spec => []FinishSavesEverything
  <1>1. IInv => FinishSavesEverything
    <2> SUFFICES ASSUME IInv, NEW p \in Procs,
                        ~accepting[p], mpc[p] \in {"idle", "gone"}
                 PROVE  rows[p] = accepted[p]
      BY DEF FinishSavesEverything
    <2>1. /\ wpc[p] = "done"
          /\ saver[p] = <<>> /\ queue[p] = <<>>
          /\ filled[p] = <<>>
      BY DEF IInv, ThreadsInv
    <2>2. rows[p] \in Seq(Container)
      BY DEF IInv, TypeOK
    <2>3. ((rows[p] \o <<>>) \o <<>>) \o <<>> = rows[p]
      BY <2>2, ConcatEmptySeq
    <2> QED
      BY <2>1, <2>3 DEF IInv, Conservation
  <1> QED
    BY <1>1, Invariance, PTL

(* Between two calls the worker is never busy with the file.               *)
THEOREM HalfAsynchrony == Spec => []HalfAsynchronous
  <1>1. IInv => HalfAsynchronous
    BY DEF IInv, LocksInv, HalfAsynchronous
  <1> QED
    BY <1>1, Invariance, PTL

(* Two processes never have the file open together.                        *)
THEOREM FileExclusion == Spec => []FileExclusive
  <1>1. IInv => FileExclusive
    BY DEF IInv, LocksInv, FileExclusive
  <1> QED
    BY <1>1, Invariance, PTL

(* Signals alone never damage the file.                                    *)
THEOREM SignalSafety == Spec => []SignalsSpareTheFile
  BY Invariance, PTL DEF IInv

(* The main thread never releases or takes a mutex the worker holds.       *)
THEOREM MutexDiscipline == Spec => MutexGivenBackByHolder
  <1> DEFINE Given == \A p \in Procs :
        (mutex[p] = "worker" /\ mutex'[p] # "worker") => wpc'[p] # wpc[p]
  <1>1. IInv /\ [Next]_vars => [Given]_vars
    <2> SUFFICES ASSUME IInv, Next,
                        NEW q \in Procs,
                        mutex[q] = "worker", mutex'[q] # "worker"
                 PROVE  wpc'[q] # wpc[q]
      OBVIOUS
    <2>1. IInv'
      BY TypeStep, ThreadsStep, LocksStep, FileStep, ConservationStep DEF IInv
    <2> QED
      BY <2>1 DEF IInv, LocksInv
  <1> QED
    BY <1>1, Invariance, PTL DEF Spec, MutexGivenBackByHolder

-----------------------------------------------------------------------------
(* The threads, queues and locks implement the abstract store.             *)

LEMMA StoreInit == Init => Store!Init
  BY DEF Init, Store!Init, Phase

LEMMA PrefixOfConcat ==
  ASSUME NEW S, NEW s \in Seq(S), NEW t \in Seq(S)
  PROVE  /\ s = SubSeq(s \o t, 1, Len(s))
         /\ Len(s) \in 0..Len(s \o t)
  OBVIOUS

LEMMA StoreStep == IInv /\ IInv' /\ [Next]_vars => [Store!Next]_(Store!vars)
  <1> SUFFICES ASSUME IInv, IInv', [Next]_vars
               PROVE  Store!Next \/ UNCHANGED Store!vars
    OBVIOUS
  <1> DEFINE Stored == UNCHANGED <<accepted, rows>>
  <1>1. ASSUME Stored, \A p \in Procs : Phase(p)' = Phase(p)
        PROVE  UNCHANGED Store!vars
    BY <1>1 DEF Store!vars
  <1>2. ASSUME NEW p \in Procs, PushFitResult(p) PROVE Store!Accept(p)
    <2>1. PICK second \in BOOLEAN :
            accepted' = [accepted EXCEPT ![p] =
              Append(@, [proc |-> p, call |-> calls[p], second |-> second])]
      BY <1>2 DEF PushFitResult
    <2>2. [proc |-> p, call |-> calls[p], second |-> second] \in Container
      BY <1>2 DEF PushFitResult, MainAt, Container, IInv, TypeOK, ThreadsInv
    <2>3. Phase(p) = "open" /\ \A q \in Procs : Phase(q)' = Phase(q)
      <3>1. /\ fate[p] = "running" /\ mpc[p] = "push"
            /\ mpc' = [mpc EXCEPT ![p] = "relock"]
            /\ UNCHANGED <<fate, accepting>>
        BY <1>2 DEF PushFitResult, MainAt
      <3> QED
        BY <3>1 DEF Phase, IInv, TypeOK, ThreadsInv
    <2>4. UNCHANGED rows
      BY <1>2 DEF PushFitResult, fileVars
    <2> QED
      BY <2>1, <2>2, <2>3, <2>4 DEF Store!Accept
  <1>3. ASSUME NEW p \in Procs, WriteTree(p) PROVE Store!Commit(p)
    <2>1. PICK r, f, s, u : /\ r = rows[p] /\ f = filled[p]
                            /\ s = saver[p] /\ u = queue[p]
      OBVIOUS
    <2>2. /\ r \in Seq(Container) /\ f \in Seq(Container)
          /\ s = <<>> /\ u \in Seq(Container)
      BY <1>3, <2>1 DEF WriteTree, IInv, TypeOK
    <2>3. r \o f \in Seq(Container)
      BY <2>2, ConcatProperties
    <2>4. accepted[p] = (r \o f) \o u
      BY <2>1, <2>2, <2>3, ConcatEmptySeq DEF IInv, Conservation
    <2>5. /\ r \o f = SubSeq((r \o f) \o u, 1, Len(r \o f))
          /\ Len(r \o f) \in 0..Len((r \o f) \o u)
          /\ Len(r \o f) = Len(r) + Len(f)
          /\ Len(r) \in Nat /\ Len(f) \in Nat
      BY <2>2, <2>3, PrefixOfConcat, ConcatProperties, LenProperties
    <2>6. /\ Len(r \o f) \in Len(rows[p])..Len(accepted[p])
          /\ rows' = [rows EXCEPT ![p] = SubSeq(accepted[p], 1, Len(r \o f))]
      <3>1. Len(r \o f) \in Len(r)..Len((r \o f) \o u)
        BY <2>5
      <3>2. rows' = [rows EXCEPT ![p] = r \o f]
        BY <1>3, <2>1 DEF WriteTree
      <3> QED
        BY <2>1, <2>4, <2>5, <3>1, <3>2
    <2>7. wpc[p] = "fill" /\ fate[p] = "running"
      BY <1>3 DEF WriteTree, WorkerAt
    <2>8. Phase(p) = "open"
      BY <2>7 DEF Phase, IInv, ThreadsInv
    <2>9. (\A q \in Procs : Phase(q)' = Phase(q)) /\ UNCHANGED accepted
      BY <1>3 DEF WriteTree, Phase, mainVars
    <2> QED
      BY <2>6, <2>8, <2>9 DEF Store!Commit
  <1>4. ASSUME NEW p \in Procs, JoinWorker(p) PROVE Store!Close(p)
    <2>1. /\ Stored
          /\ wpc[p] = "done" /\ fate[p] = "running" /\ mpc[p] = "join"
          /\ mpc' = [mpc EXCEPT ![p] = "idle"]
          /\ UNCHANGED <<fate, accepting>>
      BY <1>4 DEF JoinWorker, MainAt, fileVars
    <2>2. ~accepting[p] /\ saver[p] = <<>> /\ queue[p] = <<>> /\ filled[p] = <<>>
      BY <2>1 DEF IInv, ThreadsInv
    <2>3. rows[p] \in Seq(Container)
      BY DEF IInv, TypeOK
    <2>4. rows[p] = accepted[p]
      BY <2>2, <2>3, ConcatEmptySeq DEF IInv, Conservation
    <2>5. /\ Phase(p) = "open" /\ Phase(p)' = "closed"
          /\ \A q \in Procs : q # p => Phase(q)' = Phase(q)
      BY <2>1, <2>2 DEF Phase, IInv, TypeOK
    <2> QED
      BY <2>1, <2>4, <2>5 DEF Store!Close
  <1>5. ASSUME NEW p \in Procs, SaveThrows(p) \/ ExitAfterSignal(p) \/ Die(p)
        PROVE  Store!Die(p)
    <2>1. /\ Stored
          /\ fate[p] = "running" /\ UNCHANGED <<mpc, accepting>>
          /\ \E end \in {"killed", "terminated", "exited"} :
               fate' = [fate EXCEPT ![p] = end]
      BY <1>5 DEF SaveThrows, ExitAfterSignal, Die, mainVars, fileVars
    <2>2. /\ Phase(p) # "dead" /\ Phase(p)' = "dead"
          /\ \A q \in Procs : q # p => Phase(q)' = Phase(q)
      BY <2>1 DEF Phase, IInv, TypeOK
    <2> QED
      BY <2>1, <2>2 DEF Store!Die
  <1>6. ASSUME NEW p \in Procs, Main(p)
        PROVE  Store!Next \/ UNCHANGED Store!vars
    <2>1. CASE PushFitResult(p)
      BY <1>2, <2>1 DEF Store!Next
    <2>2. CASE JoinWorker(p)
      BY <1>4, <2>2 DEF Store!Next
    <2>3. CASE ~PushFitResult(p) /\ ~JoinWorker(p)
      <3>1. /\ Stored /\ UNCHANGED fate
            /\ fate[p] = "running"
        BY <1>6, <2>3 DEF Main, SetStoreResultFilename, StoreFitResult,
             RejectFitResult, LockSaveFitResultMutex, FinishFitResultSaving,
             DisableQueue, ReleaseWorker, Destruct, MainAt, fileVars
      <3>2. \A q \in Procs : Phase(q)' = Phase(q)
        <4> USE DEF MainAt, Phase, IInv, TypeOK, ThreadsInv
        <4>1. CASE SetStoreResultFilename(p)
          BY <4>1 DEF SetStoreResultFilename
        <4>2. CASE StoreFitResult(p)
          BY <4>2 DEF StoreFitResult
        <4>3. CASE RejectFitResult(p)
          BY <4>3 DEF RejectFitResult
        <4>4. CASE LockSaveFitResultMutex(p)
          BY <4>4 DEF LockSaveFitResultMutex
        <4>5. CASE FinishFitResultSaving(p)
          BY <4>5 DEF FinishFitResultSaving
        <4>6. CASE DisableQueue(p)
          BY <4>6 DEF DisableQueue
        <4>7. CASE ReleaseWorker(p)
          BY <4>7 DEF ReleaseWorker
        <4>8. CASE Destruct(p)
          BY <4>8 DEF Destruct
        <4> QED
          BY <1>6, <2>3, <4>1, <4>2, <4>3, <4>4, <4>5, <4>6, <4>7, <4>8 DEF Main
      <3> QED
        BY <1>1, <3>1, <3>2
    <2> QED
      BY <2>1, <2>2, <2>3
  <1>7. ASSUME NEW p \in Procs, SaveFitResultWorker(p)
        PROVE  Store!Next \/ UNCHANGED Store!vars
    <2>1. CASE WriteTree(p)
      BY <1>3, <2>1 DEF Store!Next
    <2>2. CASE SaveThrows(p) \/ ExitAfterSignal(p)
      BY <1>5, <2>2 DEF Store!Next
    <2>3. CASE ~WriteTree(p) /\ ~SaveThrows(p) /\ ~ExitAfterSignal(p)
      <3>1. Stored /\ UNCHANGED <<mpc, accepting, fate>>
        BY <1>7, <2>3
           DEF SaveFitResultWorker, WorkerLoop, WaitAndPop, WaitDisabled,
             DrainOne, DrainEnd, LockWorkerMutex, FileIsLocked, LockFile,
             InstallHandlers, OpenFile, AbortSave, PrepareTree, FillTree,
             CloseFile, LeaveMutex, ResetHandlers, PopToSaver, mainVars,
             fileVars
      <3> QED
        BY <1>1, <3>1 DEF Phase
    <2> QED
      BY <2>1, <2>2, <2>3
  <1>8. ASSUME NEW p \in Procs, Environment(p)
        PROVE  Store!Next \/ UNCHANGED Store!vars
    <2>1. CASE HandleSignal(p)
      BY <1>1, <2>1 DEF HandleSignal, mainVars, fileVars, Phase
    <2>2. CASE Die(p)
      BY <1>5, <2>2 DEF Store!Next
    <2> QED
      BY <1>8, <2>1, <2>2 DEF Environment
  <1>9. CASE UNCHANGED vars
    BY <1>1, <1>9 DEF vars, Phase
  <1> QED
    BY <1>6, <1>7, <1>8, <1>9 DEF Next, Terminating

(* ToyStudySave implements ResultStore: whatever the threads, the other    *)
(* processes, the signals and the crashes do, the file holds for each      *)
(* process a prefix of what it stored, and all of it once it has finished. *)
THEOREM Refinement == Spec => ImplementsStore
  BY StoreInit, StoreStep, Invariance, PTL DEF Spec, ImplementsStore, Store!Spec
=============================================================================
