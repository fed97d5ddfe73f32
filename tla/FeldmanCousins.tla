--------------------------- MODULE FeldmanCousins ---------------------------
(***************************************************************************)
(* FeldmanCousinsProfiler: for each scan point the fit of the data with    *)
(* the scan variable fixed there is compared with pairs of fits of toys,   *)
(* one without and one with the variable fixed; the share of toys that are *)
(* further from their minimum than the data is 1-CL, and the graph of it   *)
(* gives the confidence intervals.                                         *)
(*                                                                         *)
(* External, modelled from their use: ToyStudyStd::GetFitResult and        *)
(* GetEasyFitResult, which return any results, in any order (ToyStudyRead  *)
(* and EasyFitReader model them).  There is one scan variable, as the      *)
(* intervals need; of the two graphs with errors and the graph of Wilks'   *)
(* theorem, on which the same search is done, none is modelled.            *)
(***************************************************************************)
EXTENDS Integers, FiniteSets, SequencesExt

CONSTANTS
  Steps,       \* see LevelSearch
  ScanPoints,  \* values of the scan variable
  DataNlls,    \* fcn of the fits of the data
  NominalNlls, \* fcn of the nominal fit
  Deltas,      \* fcn of the second result of a pair less that of the first
  FewToys,     \* a point needs more toys than these, 100 in the code
  Levels,      \* the levels [num, den] of the intervals
  MaxData,     \* bound: number of usable results of the data
  MaxToys      \* bound: number of usable pairs of toys

LS == INSTANCE LevelSearch

ASSUME FeldmanCousinsAssumption ==
  /\ Steps \in Nat \ {0}
  /\ ScanPoints \subseteq Int /\ IsFiniteSet(ScanPoints)
  /\ DataNlls \subseteq Int /\ NominalNlls \subseteq Int
  /\ Deltas \subseteq Int /\ IsFiniteSet(Deltas)
  /\ FewToys \in Nat
  /\ \A i \in DOMAIN Levels : Levels[i] \in [num: Int, den: Nat \ {0}]

VARIABLES
  at,        \* "start", "idle", or the loop or the end the program is in
  nominal,   \* nll_data_nominal_
  delta,     \* delta_nlls_data_scan_
  result,    \* fcn of fit_results_data_scan_
  toys,      \* delta_nlls_toy_scan_ and num_neglected_fits_, see Toys
  copies,    \* fit_result_0 and fit_result_1: "null", "live" or "deleted"
  intervals, \* what PlotHandler printed
  ghost      \* not in the code: what has been read, see Ghost

fc_vars == <<at, nominal, delta, result, toys, copies, intervals, ghost>>

(* How the program may end: a fault or the plot.                           *)
Ends == {"terminated", "null", "deleted_twice", "empty", "hangs", "plotted"}

(* How many toys are kept with a delta, how many are neglected at a point  *)
(* because theirs is negative; vectors are bags, as only counts matter.    *)
Kept == {d \in Deltas : d >= 0}
Toys == [kept: [ScanPoints \X Kept -> Nat], neglected: [ScanPoints -> Nat]]

(* times: how often a point came with a usable fit of the data; last: what *)
(* the last container of toys was, and whether one with a pair came before *)
(* it in this call.                                                        *)
Ghost ==
  [times: [ScanPoints -> Nat],
   last: {"none", "pair", "single", "single_after_pair"}]

FCTypeOK ==
  /\ at \in {"start", "idle", "data", "toys", "easyfit"} \cup Ends
  /\ nominal \in NominalNlls \cup {0}
  /\ DOMAIN delta \subseteq ScanPoints
  /\ \A p \in DOMAIN delta : delta[p] \in Int
  /\ DOMAIN result \subseteq ScanPoints
  /\ \A p \in DOMAIN result : result[p] \in DataNlls
  /\ toys \in Toys
  /\ copies \in {"null", "live", "deleted"}
  /\ at # "toys" => copies = "null"
  /\ ghost \in Ghost
  /\ DOMAIN intervals \subseteq DOMAIN Levels

FCInit ==
  /\ at = "start"
  /\ nominal = 0
  /\ delta = <<>>
  /\ result = <<>>
  /\ toys = [kept |-> [x \in ScanPoints \X Kept |-> 0],
             neglected |-> [p \in ScanPoints |-> 0]]
  /\ copies = "null"
  /\ intervals = <<>>
  /\ ghost = [times |-> [p \in ScanPoints |-> 0], last |-> "none"]

-----------------------------------------------------------------------------
(* ReadFitResultDataNominal: the result is copied without a look whether   *)
(* there is one, and has to know the scan variable.                        *)
ReadFitResultDataNominal ==
  /\ at = "start"
  /\ \/ at' \in {"null", "terminated"} /\ UNCHANGED nominal
     \/ at' = "idle" /\ nominal' \in NominalNlls
  /\ UNCHANGED <<delta, result, toys, copies, intervals, ghost>>

(* delta_nlls_data_scan_[p] = ... replaces the value of a point ...        *)
WithDelta(p, nll) == [x \in DOMAIN delta \cup {p} |->
                        IF x = p THEN nll - nominal ELSE delta[x]]

(* ... and emplace on fit_results_data_scan_ does not.                     *)
WithResult(p, nll) == [x \in DOMAIN result \cup {p} |->
                         IF x \in DOMAIN result THEN result[x] ELSE nll]

(* ReadFitResultsDataScan: one turn of its loop, in which the result is    *)
(* bad, lacks the scan variable, or gives the value of a scan point.       *)
BeginDataScan ==
  /\ at = "idle"
  /\ at' = "data"
  /\ UNCHANGED <<nominal, delta, result, toys, copies, intervals, ghost>>

DataScanTurn ==
  /\ at = "data"
  /\ \/ UNCHANGED <<at, delta, result, ghost>>
     \/ at' = "terminated" /\ UNCHANGED <<delta, result, ghost>>
     \/ /\ SumFunction(ghost.times) < MaxData
        /\ \E p \in ScanPoints, nll \in DataNlls :
             /\ delta' = WithDelta(p, nll)
             /\ result' = WithResult(p, nll)
             /\ ghost' = [ghost EXCEPT !.times[p] = @ + 1]
        /\ UNCHANGED at
  /\ UNCHANGED <<nominal, toys, copies, intervals>>

EndDataScan ==
  /\ at = "data"
  /\ at' = "idle"
  /\ UNCHANGED <<nominal, delta, result, toys, copies, intervals, ghost>>

-----------------------------------------------------------------------------
(* ReadFitResultsToy.                                                      *)

(* ProcessToyFitResult of a pair: both results have to be okay, the second *)
(* one has the scan variable among its constants.                          *)
ProcessToyFitResult ==
  \/ UNCHANGED <<at, toys>>
  \/ at' = "terminated" /\ UNCHANGED toys
  \/ /\ SumFunction(toys.kept) + SumFunction(toys.neglected) < MaxToys
     /\ \E p \in ScanPoints, d \in Deltas :
          toys' = IF d < 0 THEN [toys EXCEPT !.neglected[p] = @ + 1]
                  ELSE [toys EXCEPT !.kept[<<p, d>>] = @ + 1]
     /\ UNCHANGED at

(* Faulty variant: the pointers of an earlier call are used.               *)
BugStalePointers == {"null", "deleted"}

(* The pointers are local variables.                                       *)
FreshPointers == {"null"}

BeginToys ==
  /\ at = "idle"
  /\ at' = "toys"
  /\ copies' \in FreshPointers
  /\ UNCHANGED <<nominal, delta, result, toys, intervals, ghost>>

(* After a container is got, the copies of the one before it are deleted,  *)
(* even if these were none of its copies but those deleted already.        *)
DeletedTwice ==
  /\ copies = "deleted"
  /\ at' = "deleted_twice"
  /\ copies' = "null"
  /\ UNCHANGED <<toys, ghost>>

(* A turn of the loop.  A single result warns and leaves the pointers as   *)
(* the delete before it did.                                               *)
ToyTurn ==
  /\ at = "toys"
  /\ \/ DeletedTwice
     \/ /\ copies # "deleted"
        /\ ProcessToyFitResult
        /\ copies' = IF at' = "toys" THEN "live" ELSE "null"
        /\ ghost' = [ghost EXCEPT !.last = "pair"]
     \/ /\ copies # "deleted"
        /\ copies' = IF copies = "null" THEN "null" ELSE "deleted"
        /\ ghost' = [ghost EXCEPT !.last =
                                IF @ \in {"pair", "single_after_pair"}
                                THEN "single_after_pair" ELSE "single"]
        /\ UNCHANGED <<at, toys>>
  /\ UNCHANGED <<nominal, delta, result, intervals>>

EndToys ==
  /\ at = "toys"
  /\ \/ DeletedTwice
     \/ /\ copies # "deleted"
        /\ at' = "easyfit"
        /\ copies' = "null"
        /\ UNCHANGED <<toys, ghost>>
  /\ UNCHANGED <<nominal, delta, result, intervals>>

(* The loop over the EasyFitResults, which come in pairs only.             *)
EasyFitTurn ==
  /\ at = "easyfit"
  /\ ProcessToyFitResult
  /\ UNCHANGED <<nominal, delta, result, copies, intervals, ghost>>

EndEasyFit ==
  /\ at = "easyfit"
  /\ at' = "idle"
  /\ ghost' = [ghost EXCEPT !.last = "none"]
  /\ UNCHANGED <<nominal, delta, result, toys, copies, intervals>>

-----------------------------------------------------------------------------
(* PlotHandler.                                                            *)

NumToys(p) == SumFunction([d \in Kept |-> toys.kept[<<p, d>>]])

Exceeds(d, p) == delta[p] < d

NumToysExceed(p) ==
  SumFunction([d \in {e \in Kept : Exceeds(e, p)} |-> toys.kept[<<p, d>>]])

(* 1-CL is set to 0 with too few toys, and points with 0 are left out.     *)
PlottedPoints == {p \in DOMAIN delta : NumToys(p) > FewToys /\ NumToysExceed(p) # 0}

Graph ==
  LET sorted == LS!Ascending(PlottedPoints)
  IN  [k \in DOMAIN sorted |->
         [x |-> sorted[k], y |-> NumToysExceed(sorted[k]), of |-> NumToys(sorted[k])]]

(* With points of the data, but none on the graph, the first and the last  *)
(* of no points are used.                                                  *)
PlotHandler ==
  /\ at = "idle"
  /\ IF DOMAIN delta = {} THEN at' = "plotted" /\ UNCHANGED intervals
     ELSE IF PlottedPoints = {} THEN at' = "empty" /\ UNCHANGED intervals
     ELSE /\ intervals' =
               LET graph == Graph
               IN  [i \in DOMAIN Levels |->
                      [lower |-> LS!FindRise(graph, Levels[i], 1),
                       upper |-> LS!FindRise(graph, Levels[i], -1)]]
          /\ at' = IF \A i \in DOMAIN Levels :
                        intervals'[i].lower.ends /\ intervals'[i].upper.ends
                   THEN "plotted" ELSE "hangs"
  /\ UNCHANGED <<nominal, delta, result, toys, copies, ghost>>

FCNext ==
  \/ ReadFitResultDataNominal
  \/ BeginDataScan \/ DataScanTurn \/ EndDataScan
  \/ BeginToys \/ ToyTurn \/ EndToys \/ EasyFitTurn \/ EndEasyFit
  \/ PlotHandler

FCSpec == FCInit /\ [][FCNext]_fc_vars

-----------------------------------------------------------------------------
(* The copies of a pair of results are deleted twice if and only if a      *)
(* container with a single result came after one with a pair in the same   *)
(* call, so that the broken tree that the code warns of is not survived;   *)
(* single results before the first pair are.                               *)
OnlySinglesBreak ==
  /\ at = "deleted_twice" => ghost.last = "single_after_pair"
  /\ at = "easyfit" => ghost.last # "single_after_pair"

(* The plot uses an empty vector if and only if there are points of the    *)
(* data and for none of them there are enough toys of which one is further *)
(* from its minimum than the data.                                         *)
EmptyOnlyWithout ==
  (at \in {"empty", "plotted", "hangs"} /\ DOMAIN delta # {}) =>
    (at = "empty" <=>
       \A p \in DOMAIN delta :
         \/ NumToys(p) <= FewToys
         \/ \A d \in Kept : d > delta[p] => toys.kept[<<p, d>>] = 0)

(* Each interval that is printed holds all places where the searches for   *)
(* its ends saw 1-CL above its level, and its ends are at crossings of the *)
(* level or ends of the graph; but only when the graph ends below the      *)
(* level.  Otherwise the search from the right bisects between the two     *)
(* ends of the graph.                                                      *)
FCIntervalCovers ==
  at = "plotted" =>
    LET graph == Graph
    IN  \A i \in DOMAIN intervals :
          LS!Below(graph, LS!Last(graph), Levels[i]) =>
            /\ \A x \in LS!Looked(graph, 1) :
                 LS!Above(graph, x, Levels[i]) => LS!NotRightOf(intervals[i].lower, x)
            /\ \A x \in LS!Looked(graph, -1) :
                 LS!Above(graph, x, Levels[i]) => LS!NotLeftOf(intervals[i].upper, x)
            /\ LS!IsCrossing(graph, Levels[i], intervals[i].lower)
            /\ LS!IsCrossing(graph, Levels[i], intervals[i].upper)

(* The searches end unless the graph has exactly the height of a level     *)
(* somewhere.                                                              *)
FCSearchEnds ==
  at = "hangs" => \E i \in DOMAIN Levels : LS!Touches(Graph, Levels[i])
=============================================================================
