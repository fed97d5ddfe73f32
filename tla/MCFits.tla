------------------------------- MODULE MCFits -------------------------------
(* Two EasyFits, of which one has options set, and an SPlotFit2 for two    *)
(* PDFs and two datasets; a tree, two EasyFitResults and five fits: one,   *)
(* one without a status, one that lets the constant parameter float, one   *)
(* with too many statuses, and one that lacks the constant parameter.      *)
EXTENDS Fits, TLC

CONSTANTS p1, p2

MCGiven == [f1 |-> [statuses |-> 2, const |-> {"a"}, float |-> {"b"}],
            f2 |-> [statuses |-> 0, const |-> {"a"}, float |-> {"b"}],
            f3 |-> [statuses |-> 1, const |-> {}, float |-> {"a", "b"}],
            f4 |-> [statuses |-> 3, const |-> {"a"}, float |-> {"b"}],
            f5 |-> [statuses |-> 1, const |-> {}, float |-> {"b"}]]

(* The PDFs have a parameter in common.  The file of starting values sets  *)
(* it constant at first and the other one free; later it is what was       *)
(* written last, and may lack that one.                                    *)
MCShape == (p1 :> {"mean", "width"}) @@ (p2 :> {"mean"})

MCUserFiles == {("mean" :> TRUE) @@ ("width" :> FALSE)}

MCSymmetry == Permutations(Datas) \cup Permutations(Results)
=============================================================================
