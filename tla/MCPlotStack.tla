---------------------------- MODULE MCPlotStack ----------------------------
(* Two configurations and a toy study that write to one directory: a plot  *)
(* with and one without a PDF, and a simultaneous one with three types, of *)
(* which one has no PDF, of a super category with two inputs.              *)
EXTENDS PlotStack

MCDir == [c1 |-> "Plot", c2 |-> "Plot"]

MCPlots ==
  [mass |-> [config |-> "c1", name |-> "mass", pdf |-> TRUE],
   time |-> [config |-> "c2", name |-> "time", pdf |-> FALSE],
   sim  |-> [config |-> "c1", name |-> "sim", types |-> <<"ax", "ay", "bx">>,
             withPdf |-> {"ax", "bx"},
             inputs |-> <<[name |-> "first", types |-> <<"a", "b">>],
                          [name |-> "second", types |-> <<"x">>]>>]]

MCScalings == {<<"linear", "linear">>, <<"log", "both">>}
=============================================================================
