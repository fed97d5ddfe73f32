----------------------------- MODULE MCBlueprint -----------------------------
(* Two formulas and two PDFs of which the second and the first may depend  *)
(* on each other, the formula also on a PDF, and components with and without  *)
(* a yield, on two workspaces.                                             *)
EXTENDS Blueprint, TLC

MCElements == {"x", "p", "f", "g"}
MCPdfs == {"n", "m"}

MCDeclarations ==
  "x" :> {<<>>} @@ "p" :> {<<>>}
  @@ "f" :> {<<"p", "g">>}
  @@ "g" :> {<<"p">>, <<"f", "p">>, <<"n">>}
  @@ "n" :> {<<"x", "f", "p">>, <<"m", "x">>}
  @@ "m" :> {<<"n", "p">>}

MCDimensions ==
  "d1" :> [element |-> "x", pdf |-> "n"] @@ "d2" :> [element |-> "x", pdf |-> "m"]

MCComponents ==
  "c1" :> [dimensions |-> <<"d1">>, yield |-> "g"]
  @@ "c2" :> [dimensions |-> <<"d1", "d2">>, yield |-> ""]

MCOrder == <<"c1", "c2", "d1", "d2">>
Symmetry == Permutations(Workspaces)
=============================================================================
