--------------------------- MODULE MCToyGeneration ---------------------------
(* A finite instance of ToyGeneration.  Of the sizes: yields count 1/64    *)
(* events and fractions are multiples of 1/8, so that the product of a     *)
(* yield in whole eighths and a fraction is exact.                         *)
EXTENDS ToyGeneration

Eighths(n) == 8 * n
Events(n) == 64 * n

(* With a fixed size: a product (1) of two sums with different fractions   *)
(* and a leaf, and a sum (10) with proto data, two of whose sub PDFs take  *)
(* part in the product too.                                                *)
FixedKind == <<"product", "add", "leaf", "leaf", "leaf", "leaf",
               "add", "leaf", "leaf", "add">>
FixedSubs == << <<2, 6, 7>>, <<3, 4, 5>>, <<>>, <<>>, <<>>, <<>>,
                <<8, 9, 3, 4>>, <<>>, <<>>, <<3, 4, 8>> >>

(* Extended, a simultaneous PDF (11) of three categories: an extended sum  *)
(* of two RooExtendPdfs, one of them of a product of a leaf and a sum; a   *)
(* sum whose coefficients are yields; and a sum of a leaf, a sum of that   *)
(* product and a leaf, and the sum of the second category, with proto data *)
(* for the outer and the middle sum.                                       *)
SimKind == <<"simultaneous", "add", "extend", "leaf", "extend", "product",
             "leaf", "add", "leaf", "leaf", "add", "leaf", "leaf", "add",
             "leaf", "add">>
SimSubs == << <<12, 21, 24>>, <<13, 15>>, <<14>>, <<>>, <<16>>, <<17, 18>>,
              <<>>, <<19, 20>>, <<>>, <<>>, <<22, 23>>, <<>>, <<>>,
              <<25, 26, 21>>, <<>>, <<16, 19>> >>

(* With a fixed size, a sum (27) with proto data of a leaf, a sum of two   *)
(* leaves and a leaf; of 8 events the second one gets 1.25 and a carried   *)
(* one.                                                                    *)
NestedKind == <<"add", "add">>
NestedSubs == << <<8, 28, 9>>, <<4, 5>> >>

MCKind == FixedKind \o SimKind \o NestedKind
MCSubs == FixedSubs \o SimSubs \o NestedSubs
MCCoefs ==
  [p \in 1..28 |->
     CASE p = 2 -> <<Eighths(2), Eighths(3)>>
       [] p = 7 -> <<Eighths(1), Eighths(2), Eighths(4)>>
       [] p = 10 -> <<Eighths(3), Eighths(1)>>
       [] p \in {18, 26} -> <<Eighths(4)>>
       [] p = 21 -> <<Eighths(3), Eighths(13)>>
       [] p = 24 -> <<Eighths(3), Eighths(3)>>
       [] p = 27 -> <<19, 10>>
       [] p = 28 -> <<Eighths(7)>>
       [] OTHER -> <<>>]
MCExpected ==
  [p \in 1..28 |->
     CASE p = 11 -> Events(4) [] p = 12 -> Events(2)
       [] p = 13 -> Eighths(12) [] p = 15 -> Eighths(4)
       [] p = 21 -> Events(2) [] OTHER -> 0]
MCProto == {10, 24, 26, 27}
MCProtoOnly == {3, 19}

YieldOf(size, extended) == [yield |-> size, extended |-> extended]
MCYields ==
  [p \in 1..28 |->
     CASE p = 1 -> {YieldOf(Events(n), FALSE) : n \in 1..12}
       [] p = 10 -> {YieldOf(Eighths(n), FALSE) : n \in 1..96}
                    \cup {YieldOf(Events(200), FALSE)}
       [] p = 11 -> {YieldOf(y, TRUE) :
                       y \in {0, Eighths(4), Events(1), Events(3), Events(4)}}
       [] p = 27 -> {YieldOf(Events(4 * n), FALSE) : n \in 1..3}
       [] OTHER -> {}]

-----------------------------------------------------------------------------
(* Of the events: two discrete variables, one that always gets a value and *)
(* one that gets it half of the time, and one that is not generated;       *)
(* yields in half events.                                                  *)
MCVars == {"flavour", "tag", "other"}
MCObservables == {"flavour", "tag"}
MCCumulative == [v \in MCVars |-> IF v = "flavour" THEN <<1, 2>> ELSE <<1>>]

Plain ==
  [file |-> "none", constraints |-> <<>>, parts |-> <<>>, foreign |-> {}, columns |-> {},
   discrete |-> <<>>, yield |-> 6, fixed |-> TRUE]

MCParams == {"mean", "width", "yield"}
Draw(draws, needs) == [draws |-> draws, needs |-> needs]
Constraints ==
  {<<>>, <<Draw({"mean"}, {}), Draw({"width"}, {"yield"})>>,
   <<Draw({"mean"}, {"width"}), Draw({"width", "yield"}, {"mean"})>>,
   <<Draw({"mean", "width"}, {}), Draw({"width"}, {})>>}

Discrete == {<<>>, <<"flavour">>, <<"tag">>, <<"flavour", "tag">>, <<"tag", "other">>}

MCRequests ==
  {[Plain EXCEPT !.file = f, !.constraints = c, !.parts = p, !.discrete = d] :
     f \in {"none", "missing", "there"}, c \in Constraints,
     p \in {<<>>, <<1>>}, d \in {<<>>, <<"flavour">>}}
  \cup
  {[Plain EXCEPT !.parts = p, !.columns = c, !.discrete = d] :
     p \in {<<0>>, <<2>>, <<0, 0>>, <<2, 2>>, <<1, 0, 2>>},
     c \in {{}, {"tag"}, {"flavour", "tag"}}, d \in Discrete}
  \cup {[Plain EXCEPT !.parts = <<3, 2>>]}
  \cup {[Plain EXCEPT !.parts = <<1, 1, 1>>, !.foreign = {k}] : k \in 2..3}
  \cup {[Plain EXCEPT !.discrete = d, !.yield = y, !.fixed = f] :
          d \in Discrete, y \in {0, 5, 6}, f \in BOOLEAN}
=============================================================================
