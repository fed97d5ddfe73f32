--------------------------- MODULE ToyStudyResults ---------------------------
(***************************************************************************)
(* A program that reads stored results with toy::ToyStudyStd: fit results  *)
(* of RooFit, or EasyFitResults.  ReadFitResults looks for both in the     *)
(* same files; what it has found is handed out in two ways that share      *)
(* nothing else.                                                           *)
(***************************************************************************)
EXTENDS ToyStudyRead

CONSTANTS TreeEntries, CountModulus, Callers, FilesVanish, MaxQueued

VARIABLES
  wanted, \* the kind of results the program is for
  caller, queue, open, easyPosition, num, result, shown, crashed, lost, queued,
  delivered

Easy == INSTANCE EasyFitReader
          WITH Entries <- TreeEntries, position <- easyPosition

ASSUME ResultsAssumption == Easy!ConstantsOK

easyVars == <<caller, queue, open, easyPosition, num, result, shown, crashed, lost,
              queued, delivered>>

allVars == <<wanted, vars, easyVars>>

ResultsInit ==
  /\ Init /\ Easy!Init
  /\ \/ wanted = "RooFitResult" /\ caller = CHOOSE c \in Callers : TRUE
     \/ wanted = "EasyFitResult" /\ config = CHOOSE c \in Configs : TRUE

ReadNext == wanted = "RooFitResult" /\ Next /\ UNCHANGED <<wanted, easyVars>>

EasyStep(action) == wanted = "EasyFitResult" /\ action /\ UNCHANGED <<wanted, vars>>

ResultsNext == ReadNext \/ EasyStep(Easy!Next)

ResultsSpec == ResultsInit /\ [][ResultsNext]_allVars

(* The loop of FeldmanCousinsProfiler::ReadFitResultsToy, which runs while *)
(* NumberOfAvailableEasyFitResults is positive.                            *)
FairSpec ==
  /\ ResultsSpec
  /\ WF_allVars(EasyStep(Easy!NumberOfAvailableEasyFitResults))
  /\ WF_allVars(EasyStep(Easy!GetEasyFitResult))

-----------------------------------------------------------------------------
(* Every entry of every queued tree is handed out once and in order:       *)
(* closing, opening and counting skip none and repeat none.                *)
DeliveredInOrder == Easy!DeliveredInOrder

(* A count never promises a caller that asks first a result that is not    *)
(* there, and a caller that is told that none is available has got them    *)
(* all; and the state of both readers stays within its types, with an      *)
(* unsigned count (ToyStudyStd.cpp:198-278).                               *)
CountIsHonest == TypeOK /\ Easy!TypeOK /\ Easy!CountIsHonest

(* The loop over the results ends, under FairSpec, unless the program has  *)
(* crashed or an empty tree was opened.                                    *)
ReadingEnds == Easy!ReadingEnds
=============================================================================
