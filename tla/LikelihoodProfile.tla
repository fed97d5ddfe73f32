-------------------------- MODULE LikelihoodProfile --------------------------
(***************************************************************************)
(* LikelihoodProfiler: fits at the points of a grid, or results of such    *)
(* fits that a ToyStudyStd read, and the profile of the negative log       *)
(* likelihood with its 1 sigma interval.                                   *)
(*                                                                         *)
(* External, modelled from their use: AbsFitter::Fit and                   *)
(* ToyStudyStd::GetFitResult, which return any result.  Values of the scan *)
(* variables are whole multiples of 3 errors / num_samples_ * Unit.        *)
(***************************************************************************)
EXTENDS Integers, FiniteSets, SequencesExt

CONSTANTS
  Steps,       \* see LevelSearch
  Samples,     \* num_samples_, 30 in the code
  MaxVars,     \* bound: number of scan variables
  Unit,        \* distance of two values, to have places between them
  Readable,    \* results that are read: [place, fixed, okay, nll], place being
               \* the value of the scan variables, if these are fixed
  Fits,        \* results of the fits of a scan: [okay, nll]
  MaxRead,     \* bound: number of results read
  MaxScans,    \* bound: number of scans
  Level        \* [num, den], 0.5 in the code

LS == INSTANCE LevelSearch

(* The types of the constants.                                             *)
ConstantsOK ==
  /\ Samples \in Nat \ {0}
  /\ MaxVars \in Nat
  /\ Unit \in Nat \ {0}
  /\ Readable \subseteq [place: Int, fixed: BOOLEAN, okay: BOOLEAN, nll: Int]
  /\ Fits \subseteq [okay: BOOLEAN, nll: Int]
  /\ MaxRead \in Nat /\ MaxScans \in Nat
  /\ Level \in [num: Int, den: Nat \ {0}]

VARIABLES
  scan_vars_,   \* number of scan variables
  values,       \* their values, which SetSamplePoint changes
  start_vals_,
  step,         \* the next step of Scan, -1 outside of it
  scans,        \* number of scans begun
  fit_results_, \* the results in the order they came
  profile       \* what PlotHandler found

vars == <<scan_vars_, values, start_vals_, step, scans, fit_results_, profile>>

Vars == 1..scan_vars_

(* std::pow(num_samples_, n), and the number of points of the grid.        *)
Power[n \in Nat] == IF n = 0 THEN 1 ELSE Samples * Power[n - 1]
NumTotalSamples == Power[scan_vars_]

TypeOK ==
  /\ scan_vars_ \in 1..MaxVars
  /\ values \in [Vars -> Int]
  /\ start_vals_ \in [Vars -> Int]
  /\ step \in -1..NumTotalSamples
  /\ scans \in 0..MaxScans
  /\ \A i \in DOMAIN fit_results_ :
       fit_results_[i] \in
         [vals: [Vars -> Int], fixed: BOOLEAN, okay: BOOLEAN, nll: Int]
  /\ profile.state \in {"none", "terminated", "hangs", "past_end", "done", "done_2d"}

Init ==
  /\ scan_vars_ \in 1..MaxVars
  /\ values = [v \in Vars |-> 0]
  /\ start_vals_ = [v \in Vars |-> 0]
  /\ step = -1
  /\ scans = 0
  /\ fit_results_ = <<>>
  /\ profile = [state |-> "none"]

(* Faulty variant: the step is not reduced by the part it has used.        *)
BugStepNotReduced(at, v) == at \div Power[scan_vars_ - v]

(* The number of the sample of variable v: a digit of the step.            *)
StepOf(at, v) == (at \div Power[scan_vars_ - v]) % Samples

SetSamplePoint(at) ==
  [v \in Vars |-> start_vals_[v] + (2 * StepOf(at, v) - Samples) * Unit]

BeginScan ==
  /\ profile.state = "none" /\ step = -1 /\ scans < MaxScans
  /\ start_vals_' = values
  /\ step' = 0
  /\ scans' = scans + 1
  /\ UNCHANGED <<scan_vars_, values, fit_results_, profile>>

(* A turn of the loop of Scan, and its end.                                *)
ScanStep ==
  /\ step \in 0..(NumTotalSamples - 1)
  /\ values' = SetSamplePoint(step)
  /\ \E fit \in Fits :
       fit_results_' = Append(fit_results_, [vals |-> values', fixed |-> TRUE,
                                             okay |-> fit.okay, nll |-> fit.nll])
  /\ step' = step + 1
  /\ UNCHANGED <<scan_vars_, start_vals_, scans, profile>>

EndScan ==
  /\ step = NumTotalSamples
  /\ step' = -1
  /\ UNCHANGED <<scan_vars_, values, start_vals_, scans, fit_results_, profile>>

(* ReadFitResults, one result after the other.                             *)
ReadFitResults ==
  /\ profile.state = "none" /\ step = -1 /\ Len(fit_results_) < MaxRead
  /\ \E r \in Readable :
       fit_results_' = Append(fit_results_, [vals |-> [v \in Vars |-> r.place],
                                             fixed |-> r.fixed, okay |-> r.okay,
                                             nll |-> r.nll])
  /\ UNCHANGED <<scan_vars_, values, start_vals_, step, scans, profile>>

-----------------------------------------------------------------------------
(* PlotHandler.                                                            *)

Usable ==
  FoldLeft(LAMBDA before, r : IF r.okay THEN Append(before, r) ELSE before,
           <<>>, fit_results_)

(* Faulty variant: the last result is the minimum.                         *)
BugLastIsMinimum(before, nll) == nll

(* 0.0 says that there is no minimum yet.                                  *)
NewMinimum(before, nll) == IF before = 0 \/ before > nll THEN nll ELSE before

MinNll ==
  FoldLeft(LAMBDA min, r : IF r.okay THEN NewMinimum(min, r.nll) ELSE min,
           0, fit_results_)

Shifted(nll) == IF nll = 0 THEN nll ELSE nll - MinNll

Place(r) == r.vals[1]

(* The points by place; of two results at one place the first one counts.  *)
Graph ==
  LET usable == Usable
      sorted == LS!Ascending({Place(usable[i]) : i \in DOMAIN usable})
      at(x) == usable[CHOOSE i \in DOMAIN usable :
                        /\ Place(usable[i]) = x
                        /\ \A j \in 1..(i - 1) : Place(usable[j]) # x]
  IN  [k \in DOMAIN sorted |-> [x |-> sorted[k], y |-> Shifted(at(sorted[k]).nll), of |-> 1]]

ReadsPastEnd(usable, graph) == Len(usable) > Len(graph)

(* Without results, or when a result looked at does not have the scan      *)
(* variables among its constants, the program ends; so it does when no     *)
(* result is usable, with the message that it cannot plot three dimensions.*)
Terminates ==
  \/ fit_results_ = <<>>
  \/ ~fit_results_[1].fixed
  \/ \E r \in Range(fit_results_) : r.okay /\ ~r.fixed
  \/ ~\E r \in Range(fit_results_) : r.okay

PlotHandler ==
  /\ profile.state = "none" /\ step = -1
  /\ profile' =
       IF Terminates THEN [state |-> "terminated"]
       ELSE IF scan_vars_ > 1 THEN [state |-> "done_2d", min_nll |-> MinNll]
       ELSE IF ReadsPastEnd(Usable, Graph) THEN [state |-> "past_end", min_nll |-> MinNll]
       ELSE LET graph == Graph
                lower == LS!FindFall(graph, Level, 1)
                upper == LS!FindFall(graph, Level, -1)
            IN  [state |-> IF lower.ends /\ upper.ends THEN "done" ELSE "hangs",
                 min_nll |-> MinNll, lower |-> lower, upper |-> upper]
  /\ UNCHANGED <<scan_vars_, values, start_vals_, step, scans, fit_results_>>

Next == BeginScan \/ ScanStep \/ EndScan \/ ReadFitResults \/ PlotHandler

Spec == Init /\ [][Next]_vars

-----------------------------------------------------------------------------
(* A scan visits each point of the grid around the values it started from  *)
(* once, though it moves the variables itself: the steps it has done gave  *)
(* as many different points, all of them on the grid.                      *)
GridOnce ==
  step >= 0 =>
    LET first == Len(fit_results_) - step
        visited == [i \in 1..step |-> fit_results_[first + i].vals]
    IN  /\ IsInjective(visited)
        /\ \A i \in 1..step, v \in Vars :
             \E k \in 0..(Samples - 1) :
               visited[i][v] = start_vals_[v] + (2 * k - Samples) * Unit

Plotted == profile.state \in {"hangs", "past_end", "done", "done_2d"}

UsableNlls == {r.nll : r \in {x \in Range(fit_results_) : x.okay}}

(* What is subtracted from all points is the minimum of the usable         *)
(* results, unless the minimum is exactly the 0.0 that stands for "none    *)
(* yet" (LikelihoodProfiler.cpp:202).                                      *)
MinIsMinimum ==
  Plotted =>
    \/ profile.min_nll \in UsableNlls /\ \A nll \in UsableNlls : profile.min_nll <= nll
    \/ 0 \in UsableNlls /\ \A nll \in UsableNlls : 0 <= nll

(* The graph is made with as many points as there are usable results, but  *)
(* of vectors with one entry for each place: it reads past their end when  *)
(* two results are at the same place, and only then.                       *)
PastEndOnlyTwice ==
  (Plotted /\ scan_vars_ = 1) =>
    LET usable == Usable
    IN  profile.state = "past_end" <=>
          \E i, j \in DOMAIN usable : i < j /\ Place(usable[i]) = Place(usable[j])

(* The 1 sigma interval that is printed holds all places that the searches *)
(* for its ends saw below the level, and ends where the graph crosses the  *)
(* level or ends itself; but only when the graph begins above the level.   *)
(* Otherwise the search from the left bisects between its two ends.        *)
IntervalCovers ==
  LET graph == Graph
  IN  (profile.state = "done" /\ LS!Above(graph, LS!First(graph), Level)) =>
        /\ \A x \in LS!Looked(graph, 1) :
             LS!Below(graph, x, Level) => LS!NotRightOf(profile.lower, x)
        /\ \A x \in LS!Looked(graph, -1) :
             LS!Below(graph, x, Level) => LS!NotLeftOf(profile.upper, x)
        /\ LS!IsCrossing(graph, Level, profile.lower)
        /\ LS!IsCrossing(graph, Level, profile.upper)

(* The search ends unless the graph has exactly the height of the level    *)
(* somewhere.                                                              *)
SearchEnds ==
  profile.state = "hangs" => LS!Touches(Graph, Level)
=============================================================================
