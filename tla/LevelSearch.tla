----------------------------- MODULE LevelSearch -----------------------------
(***************************************************************************)
(* FindGraphXValues of FeldmanCousinsProfiler and LikelihoodProfiler: the  *)
(* place where a graph reaches a level, looked for from one of its ends in *)
(* a coarse scan and then by bisection.                                    *)
(*                                                                         *)
(* A graph is a sequence of points [x, y, of] with the height y/of, in the *)
(* order of x, which is a whole number; between two of them it is a        *)
(* straight line.  Heights are compared exactly, places are rounded.       *)
(***************************************************************************)
EXTENDS Integers, Sequences, FiniteSets, FiniteSetsExt

CONSTANT Steps  \* number of steps of the coarse scan, 100 in the code

(* The loop of the bisection ends when the two places are this close.      *)
Eps == 1

(* Places in the order of a map with them as keys.                         *)
Ascending(places) ==
  CHOOSE s \in [1..Cardinality(places) -> places] :
    \A i, j \in 1..Cardinality(places) : i < j => s[i] < s[j]

First(graph) == graph[1].x
Last(graph) == graph[Len(graph)].x

(* TGraph::Eval compared with the level l.num/l.den: negative below it.    *)
Height(graph, x, l) ==
  IF Len(graph) = 1 THEN graph[1].y * l.den - l.num * graph[1].of
  ELSE LET i == CHOOSE i \in 1..(Len(graph) - 1) :
                  graph[i].x <= x /\ x <= graph[i + 1].x
           a == graph[i]
           b == graph[i + 1]
       IN  (a.y * b.of * (b.x - x) + b.y * a.of * (x - a.x)) * l.den
           - l.num * (b.x - a.x) * a.of * b.of

Below(graph, x, l) == Height(graph, x, l) < 0
Above(graph, x, l) == Height(graph, x, l) > 0

(* The places of the coarse scan, from the first one looked at on; the end *)
(* of the graph it goes to is not one of them.                             *)
Places(graph, direction) ==
  LET start == IF direction > 0 THEN First(graph) ELSE Last(graph)
      step == (Last(graph) - First(graph)) \div Steps
  IN  IF step = 0 THEN <<>>
      ELSE [k \in 1..Steps |-> start + direction * (k - 1) * step]

(* The loop of the coarse scan: it stops at the first of the steps stops,  *)
(* and keeps the last one of others before it; what is not found are the   *)
(* ends of the graph.                                                      *)
CoarseScan(places, stops, others, stop_end, other_end) ==
  LET seen == {k \in others : \A s \in stops : k < s}
  IN  [stop |-> IF stops = {} THEN stop_end ELSE places[Min(stops)],
       other |-> IF seen = {} THEN other_end ELSE places[Max(seen)]]

Distance(a, b) == IF a < b THEN b - a ELSE a - b

(* Faulty variant: the ends are moved the wrong way round.                 *)
BugTurnedRound(height) == height > 0

MovesLow(height) == height < 0

(* A turn of the loop of the bisection.  When the graph has exactly the    *)
(* height of the level in the middle, neither place is moved.              *)
Halved(graph, l, ab) ==
  LET middle == (ab[1] + ab[2]) \div 2
      height == Height(graph, middle, l)
  IN  IF height = 0 THEN ab
      ELSE IF MovesLow(height) THEN <<middle, ab[2]>> ELSE <<ab[1], middle>>

(* The bisection between a place below and one above the level.  When no   *)
(* place is moved the next turn is the same again, and it does not end.    *)
Bisect(graph, l, low, high) ==
  LET search[ab \in Int \X Int] ==
        IF Distance(ab[1], ab[2]) <= Eps \/ Halved(graph, l, ab) = ab
        THEN [ends |-> Distance(ab[1], ab[2]) <= Eps, low |-> ab[1], high |-> ab[2]]
        ELSE search[Halved(graph, l, ab)]
  IN  search[<<low, high>>]

BelowAt(graph, l, places) == {k \in DOMAIN places : Below(graph, places[k], l)}
AboveAt(graph, l, places) == {k \in DOMAIN places : Above(graph, places[k], l)}

(* FindGraphXValues of the FeldmanCousinsProfiler, whose graph rises to a  *)
(* maximum: the first place above the level ends the coarse scan.          *)
FindRise(graph, l, direction) ==
  LET places == Places(graph, direction)
      scan == CoarseScan(places, AboveAt(graph, l, places), BelowAt(graph, l, places),
                         Last(graph), First(graph))
  IN  Bisect(graph, l, scan.other, scan.stop)

(* That of the LikelihoodProfiler, whose graph falls to a minimum.         *)
FindFall(graph, l, direction) ==
  LET places == Places(graph, direction)
      scan == CoarseScan(places, BelowAt(graph, l, places), AboveAt(graph, l, places),
                         First(graph), Last(graph))
  IN  Bisect(graph, l, scan.stop, scan.other)

-----------------------------------------------------------------------------
(* What the results are compared with.                                     *)

(* The place found is between low and high, up to rounding.                *)
NotRightOf(found, x) == found.low <= x + Eps \/ found.high <= x + Eps
NotLeftOf(found, x) == found.low >= x - Eps \/ found.high >= x - Eps

(* The graph crosses the level there, or it is one of the ends.            *)
IsCrossing(graph, l, found) ==
  \/ Below(graph, found.low, l) /\ Above(graph, found.high, l)
  \/ \E x \in {First(graph), Last(graph)} : Distance(found.low, x) <= Eps

(* The places of a coarse scan.                                            *)
Looked(graph, direction) ==
  {Places(graph, direction)[k] : k \in DOMAIN Places(graph, direction)}

(* Some place has exactly the height of the level.                         *)
Touches(graph, l) ==
  \E x \in First(graph)..Last(graph) : Height(graph, x, l) = 0
=============================================================================
