-------------------------------- MODULE Fits --------------------------------
(***************************************************************************)
(* A program that fits with EasyFit and SPlotFit2, or one that takes the   *)
(* results of such fits into EasyFitResults and passes them through a      *)
(* tree.  A result that EasyFit has given out never changes                *)
(* (GivenResultStays), so the second program may have any of them.         *)
(***************************************************************************)
EXTENDS SPlotFit2

CONSTANTS Results, Given, NumSlots, Blank, Junk, Nobody, MaxFits, MaxRows, MaxBranches

VARIABLES program, obj, tree, fitOf, taken

Tree == INSTANCE FitResultTree WITH Fits <- Given

ASSUME FitsAssumption == Tree!ConstantsOK

treeVars == <<obj, tree, fitOf, taken>>

allVars == <<program, vars, treeVars>>

FitsInit ==
  /\ Init /\ Tree!Init
  /\ \/ program = "fits" /\ tree.rows = <<>>
     \/ program = "results"

FitsNext ==
  \/ program = "fits" /\ Next /\ UNCHANGED <<program, treeVars>>
  \/ program = "results" /\ Tree!Next /\ UNCHANGED <<program, vars>>

FitsSpec == FitsInit /\ [][FitsNext]_allVars

-----------------------------------------------------------------------------
(* A fit that went into an EasyFitResult, on into an entry of a tree and   *)
(* from there into another one keeps all its values together, also where   *)
(* it lacks parameters or statuses that were there before, and no limit or *)
(* error is left beside the value of another fit, also where only some     *)
(* branches are bound or a conversion ends by an exception; all objects    *)
(* of both programs keep their types, and all entries have the same        *)
(* branches (EasyFitResult.cpp:110-349).                                   *)
ValuesStayTogether ==
  TypeOK /\ Tree!TypeOK /\ Tree!ValuesOfOneFit /\ Tree!FinalsAreWhole
=============================================================================
