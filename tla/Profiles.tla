------------------------------ MODULE Profiles ------------------------------
(***************************************************************************)
(* A program that makes one profile: with the FeldmanCousinsProfiler or    *)
(* with the LikelihoodProfiler, which look for their intervals in the same *)
(* way and from opposite sides of it.                                      *)
(***************************************************************************)
EXTENDS FeldmanCousins

CONSTANTS Samples, MaxVars, Unit, Readable, Fits, MaxRead, MaxScans, Level

VARIABLES scan_vars_, values, start_vals_, step, scans, fit_results_, profile

LP == INSTANCE LikelihoodProfile

ASSUME ProfilesAssumption == LP!ConstantsOK

likelihood_vars ==
  <<scan_vars_, values, start_vals_, step, scans, fit_results_, profile>>

vars == <<fc_vars, likelihood_vars>>

Init == FCInit /\ LP!Init

LikelihoodUntouched ==
  scan_vars_ = 1 /\ scans = 0 /\ fit_results_ = <<>> /\ profile.state = "none"

Next ==
  \/ LikelihoodUntouched /\ FCNext /\ UNCHANGED likelihood_vars
  \/ at = "start" /\ LP!Next /\ UNCHANGED fc_vars

Spec == Init /\ [][Next]_vars

(* A scan of the LikelihoodProfiler visits each point of its grid once,    *)
(* though it moves the variables itself.                                   *)
GridOnce == LP!GridOnce

(* The minimum that the LikelihoodProfiler subtracts is the minimum of the *)
(* usable results, unless that is the 0.0 which stands for "none yet".     *)
MinIsMinimum == LP!MinIsMinimum

(* Each interval that is printed holds all places on its side of the level *)
(* that the search for each of its ends looked at, where the graph is      *)
(* beyond the level at the end that the rule of the coarse scan needs.     *)
IntervalsCover == FCIntervalCovers /\ LP!IntervalCovers

(* The profilers come to an end other than their plot only for reasons     *)
(* known from their input: a single result after a pair, no scan point     *)
(* with enough toys, two results at one place, or a graph that has exactly *)
(* the height of a level.  Until then their state stays within its types:  *)
(* among other things the copies of results in ReadFitResultsToy do not    *)
(* outlive the call.                                                       *)
EndsExplained ==
  /\ FCTypeOK /\ LP!TypeOK
  /\ OnlySinglesBreak /\ EmptyOnlyWithout /\ FCSearchEnds
  /\ LP!PastEndOnlyTwice /\ LP!SearchEnds
=============================================================================
