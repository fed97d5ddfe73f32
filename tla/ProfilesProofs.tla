--------------------------- MODULE ProfilesProofs ---------------------------
(***************************************************************************)
(* Proofs about Profiles, for any scan points, results, levels, numbers of *)
(* variables, samples and steps: what the copies of a pair of results that *)
(* ReadFitResultsToy of the FeldmanCousinsProfiler owns have to do with    *)
(* the containers that it got; that a scan of the LikelihoodProfiler       *)
(* visits each point of its grid once; that it finds the minimum; and when *)
(* the searches for the ends of the intervals end, and where.              *)
(*                                                                         *)
(* The argument: inside the loop the pointers are null before the first    *)
(* pair, good after a pair, and dangling after a single result that        *)
(* follows a pair (CopiesInv); outside of it nothing is remembered.  The   *)
(* samples of a step are its digits, which determine it (Digits), and the  *)
(* last results of a scan are those of its steps (ProfileInv).  The        *)
(* minimum so far is one of the values looked at and the least, or 0 is    *)
(* (Found).  A turn of the bisection brings its places closer or is its    *)
(* last (SearchStepGoesDown), and keeps what is below the level below it   *)
(* and what is above it above (BisectKeeps), so that where it ends depends *)
(* only on where the coarse scan stopped (RiseFacts, FallFacts).  What a   *)
(* plot was made of stays as it is (FCPlotInv, ProfilePlotInv).            *)
(***************************************************************************)
EXTENDS Profiles, SequenceTheorems, FiniteSetTheorems, TLAPS

-----------------------------------------------------------------------------
(* The FeldmanCousinsProfiler.                                             *)
CopiesInv ==
  /\ ghost \in Ghost
  /\ at \in {"start", "idle", "data"} => ghost.last = "none"
  /\ at = "toys" =>
       \/ copies = "null" /\ ghost.last \in {"none", "single"}
       \/ copies = "live" /\ ghost.last = "pair"
       \/ copies = "deleted" /\ ghost.last = "single_after_pair"
  /\ OnlySinglesBreak

LEMMA CopiesInvInit == FCInit => CopiesInv
BY DEF FCInit, CopiesInv, Ghost, OnlySinglesBreak

(* The variable ghost after a step has the fields it had before.           *)
LEMMA GhostFields ==
  ASSUME ghost \in Ghost
  PROVE  /\ ghost.last \in {"none", "pair", "single", "single_after_pair"}
         /\ \A l \in {"none", "pair", "single", "single_after_pair"} :
              /\ [ghost EXCEPT !.last = l] \in Ghost
              /\ [ghost EXCEPT !.last = l].last = l
         /\ \A p \in ScanPoints :
              /\ [ghost EXCEPT !.times[p] = @ + 1] \in Ghost
              /\ [ghost EXCEPT !.times[p] = @ + 1].last = ghost.last
BY DEF Ghost

(* A turn of the loop with a pair, with a single result, or with a double  *)
(* delete.                                                                 *)
LEMMA CopiesInvToyTurn ==
  ASSUME CopiesInv, ToyTurn
  PROVE  CopiesInv'
  <1>1. at = "toys" /\ ghost \in Ghost
    BY DEF ToyTurn, CopiesInv
  <1>2. CASE DeletedTwice
    <2>1. copies = "deleted" /\ at' = "deleted_twice" /\ ghost' = ghost
      BY <1>2 DEF DeletedTwice
    <2> QED BY <1>1, <2>1 DEF CopiesInv, OnlySinglesBreak
  <1>3. CASE /\ copies # "deleted"
             /\ ProcessToyFitResult
             /\ copies' = IF at' = "toys" THEN "live" ELSE "null"
             /\ ghost' = [ghost EXCEPT !.last = "pair"]
    <2>1. at' \in {"toys", "terminated"}
      BY <1>1, <1>3 DEF ProcessToyFitResult
    <2>2. ghost' \in Ghost /\ ghost'.last = "pair"
      BY <1>1, <1>3, GhostFields
    <2>3. at' = "toys" => copies' = "live"
      BY <1>3
    <2> QED BY <2>1, <2>2, <2>3 DEF CopiesInv, OnlySinglesBreak
  <1>4. CASE /\ copies # "deleted"
             /\ copies' = IF copies = "null" THEN "null" ELSE "deleted"
             /\ ghost' = [ghost EXCEPT !.last =
                                IF @ \in {"pair", "single_after_pair"}
                                THEN "single_after_pair" ELSE "single"]
             /\ UNCHANGED <<at, toys>>
    <2> DEFINE l == IF ghost.last \in {"pair", "single_after_pair"}
                    THEN "single_after_pair" ELSE "single"
    <2>1. ghost' = [ghost EXCEPT !.last = l]
      BY <1>1, <1>4 DEF Ghost
    <2>2. ghost' \in Ghost /\ ghost'.last = l
      BY <1>1, <2>1, GhostFields
    <2>3. \/ copies = "null" /\ copies' = "null" /\ l = "single"
          \/ copies = "live" /\ copies' = "deleted" /\ l = "single_after_pair"
      BY <1>1, <1>4 DEF CopiesInv
    <2>4. at' = "toys"
      BY <1>1, <1>4
    <2> QED BY <2>2, <2>3, <2>4 DEF CopiesInv, OnlySinglesBreak
  <1> QED BY <1>2, <1>3, <1>4 DEF ToyTurn

LEMMA CopiesInvEndToys ==
  ASSUME CopiesInv, EndToys
  PROVE  CopiesInv'
  <1>1. CASE DeletedTwice
    <2>1. copies = "deleted" /\ at = "toys" /\ at' = "deleted_twice" /\ ghost' = ghost
      BY <1>1 DEF DeletedTwice, EndToys
    <2> QED BY <2>1 DEF CopiesInv, OnlySinglesBreak
  <1>2. CASE copies # "deleted" /\ at' = "easyfit" /\ UNCHANGED ghost
    BY <1>2 DEF EndToys, CopiesInv, OnlySinglesBreak
  <1> QED BY <1>1, <1>2 DEF EndToys

LEMMA CopiesInvNext == CopiesInv /\ [FCNext]_fc_vars => CopiesInv'
  <1> SUFFICES ASSUME CopiesInv, [FCNext]_fc_vars PROVE CopiesInv'
    OBVIOUS
  <1>1. CASE ReadFitResultDataNominal
    BY <1>1 DEF ReadFitResultDataNominal, CopiesInv, OnlySinglesBreak
  <1>2. CASE BeginDataScan \/ EndDataScan
    BY <1>2 DEF BeginDataScan, EndDataScan, CopiesInv, OnlySinglesBreak
  <1>3. CASE DataScanTurn
    <2>1. at = "data" /\ at' \in {"data", "terminated"}
      BY <1>3 DEF DataScanTurn
    <2>2. ghost' \in Ghost /\ ghost'.last = ghost.last
      BY <1>3, GhostFields DEF DataScanTurn, CopiesInv
    <2> QED BY <2>1, <2>2 DEF CopiesInv, OnlySinglesBreak
  <1>4. CASE BeginToys
    <2>1. at = "idle" /\ at' = "toys" /\ copies' = "null" /\ ghost' = ghost
      BY <1>4 DEF BeginToys, FreshPointers
    <2> QED BY <2>1 DEF CopiesInv, OnlySinglesBreak
  <1>5. CASE ToyTurn
    BY <1>5, CopiesInvToyTurn
  <1>6. CASE EndToys
    BY <1>6, CopiesInvEndToys
  <1>7. CASE EasyFitTurn
    <2>1. at = "easyfit" /\ at' \in {"easyfit", "terminated"} /\ ghost' = ghost
      BY <1>7 DEF EasyFitTurn, ProcessToyFitResult
    <2> QED BY <2>1 DEF CopiesInv, OnlySinglesBreak
  <1>8. CASE EndEasyFit
    <2>1. ghost' \in Ghost /\ ghost'.last = "none" /\ at' = "idle"
      BY <1>8, GhostFields DEF EndEasyFit, CopiesInv
    <2> QED BY <2>1 DEF CopiesInv, OnlySinglesBreak
  <1>9. CASE PlotHandler
    <2>1. at' \in {"plotted", "empty", "hangs"} /\ ghost' = ghost
      BY <1>9 DEF PlotHandler
    <2> QED BY <2>1 DEF CopiesInv, OnlySinglesBreak
  <1>10. CASE UNCHANGED fc_vars
    BY <1>10 DEF fc_vars, CopiesInv, OnlySinglesBreak
  <1> QED BY <1>1, <1>2, <1>3, <1>4, <1>5, <1>6, <1>7, <1>8, <1>9, <1>10 DEF FCNext

(* For any results, in any number and order: when ReadFitResultsToy        *)
(* deletes the copies of a pair twice, a container with a single result    *)
(* has come after one with a pair, and when it has come the loop does not  *)
(* end in another way.                                                     *)
THEOREM OnlySinglesBreakTheLoop == Spec => []OnlySinglesBreak
  <1>1. CopiesInv => OnlySinglesBreak
    BY DEF CopiesInv
  <1>2. Init => CopiesInv
    BY CopiesInvInit DEF Init
  <1>3. CopiesInv /\ [Next]_vars => CopiesInv'
    BY CopiesInvNext DEF Next, vars
  <1> QED BY <1>1, <1>2, <1>3, PTL DEF Spec

-----------------------------------------------------------------------------
(* The LikelihoodProfiler: powers and digits.                              *)
PowerStep(samples, power, n) == IF n = 0 THEN 1 ELSE samples * power[n - 1]
Powers == INSTANCE FoldFacts WITH op <- PowerStep

(* The powers of the number of samples.                                    *)
LEMMA PowerFacts ==
  /\ LP!Power[0] = 1
  /\ \A n \in Nat : LP!Power[n] \in Nat \ {0} /\ LP!Power[n + 1] = Samples * LP!Power[n]
  <1>0. Samples \in Nat \ {0}
    BY ProfilesAssumption DEF LP!ConstantsOK
  <1> DEFINE m == [n \in Nat |-> n]
  <1>1. Powers!GoesDown(Samples, Nat, m)
    BY DEF Powers!GoesDown, PowerStep
  <1>2. LP!Power = CHOOSE g : g = [n \in Nat |-> PowerStep(Samples, g, n)]
    BY DEF LP!Power, PowerStep
  <1>3. LP!Power = [n \in Nat |-> PowerStep(Samples, LP!Power, n)]
    <2>1. m \in [Nat -> Nat]
      OBVIOUS
    <2> HIDE DEF m
    <2> QED BY <1>1, <1>2, <2>1, Powers!RecursionByMeasure
  <1>4. \A n \in Nat : LP!Power[n + 1] = Samples * LP!Power[n]
    <2> TAKE n \in Nat
    <2>1. n + 1 \in Nat /\ n + 1 # 0 /\ (n + 1) - 1 = n
      OBVIOUS
    <2>2. LP!Power[n + 1] = PowerStep(Samples, LP!Power, n + 1)
      BY <1>3, <2>1
    <2> QED BY <2>1, <2>2 DEF PowerStep
  <1> DEFINE T == {n \in Nat : LP!Power[n] \in Nat \ {0}}
  <1>5. 0 \in T /\ LP!Power[0] = 1
    BY <1>3 DEF PowerStep
  <1>6. \A n \in Nat : n \in T => n + 1 \in T
    <2>1. \A a \in Nat \ {0} : Samples * a \in Nat \ {0}
      BY <1>0
    <2> QED BY <1>4, <2>1
  <1>7. \A n \in Nat : n \in T
    BY ONLY <1>5, <1>6, Powers!NatSetInduction
  <1> QED BY <1>4, <1>5, <1>7

(* Division by a product.                                                  *)
LEMMA DivDiv ==
  ASSUME NEW a \in Nat, NEW m \in Nat \ {0}, NEW n \in Nat \ {0}
  PROVE  a \div (n * m) = (a \div m) \div n
  <1> DEFINE d == a \div m
             r == a % m
             e == d \div n
             s == d % n
  <1>1. d \in Nat /\ r \in 0..m - 1 /\ a = (m * d) + r
    OBVIOUS
  <1> HIDE DEF d, r
  <1>2. e \in Nat /\ s \in 0..n - 1 /\ d = (n * e) + s
    BY <1>1
  <1> HIDE DEF e, s
  <1>3. m * d = ((n * m) * e) + (m * s)
    BY <1>2
  <1>4. m * s \in Nat /\ (m * s) + m <= n * m /\ n * m \in Nat \ {0}
    <2>1. (n - (s + 1)) * m >= 0 /\ (n - (s + 1)) * m = (n * m) - ((m * s) + m)
      BY <1>2
    <2>2. m * s \in Nat /\ n * m \in Nat \ {0}
      BY <1>2
    <2> QED BY <2>1, <2>2
  <1> DEFINE k == n * m
             t == (m * s) + r
  <1>5. k \in Nat \ {0} /\ t \in 0..k - 1 /\ a = (k * e) + t
    <2>1. m * d \in Nat /\ k * e \in Nat
      BY <1>1, <1>2, <1>4
    <2> QED BY <1>1, <1>3, <1>4, <2>1
  <1> HIDE DEF k, t
  <1>6. a \div k = e
    BY <1>2, <1>5
  <1> QED BY <1>6 DEF k, e, d

(* The digits of a number below a power determine it.                      *)
LEMMA Digits ==
  ASSUME NEW k \in Nat, NEW a \in Nat, NEW b \in Nat,
         a < LP!Power[k], b < LP!Power[k],
         \A v \in 1..k : (a \div LP!Power[k - v]) % Samples
                           = (b \div LP!Power[k - v]) % Samples
  PROVE  a = b
  <1> DEFINE Top(x, j) == x \div LP!Power[k - j]
             T == {j \in Nat : j <= k => Top(a, j) = Top(b, j)}
  <1>0. Samples \in Nat \ {0}
    BY ProfilesAssumption DEF LP!ConstantsOK
  <1>1. \A x \in {a, b} : x \in Nat /\ Top(x, 0) = 0
    <2>1. LP!Power[k - 0] = LP!Power[k] /\ LP!Power[k] \in Nat \ {0}
      BY PowerFacts
    <2>2. \A x, m \in Nat : x < m => x \div m = 0
      OBVIOUS
    <2> QED BY <2>1, <2>2
  <1>2. \A x \in {a, b} : Top(x, k) = x
    <2>1. LP!Power[k - k] = 1
      BY PowerFacts
    <2> QED BY <2>1
  <1>3. ASSUME NEW j \in Nat, j + 1 <= k, NEW x \in {a, b}
        PROVE  /\ Top(x, j + 1) \in Nat
               /\ Top(x, j + 1) = (Samples * Top(x, j)) + (Top(x, j + 1) % Samples)
    <2> DEFINE i == k - (j + 1)
               m == LP!Power[i]
               q == x \div m
    <2>1. i \in Nat /\ k - j = i + 1
      BY <1>3
    <2>2. m \in Nat \ {0} /\ LP!Power[k - j] = Samples * m
      BY <2>1, PowerFacts
    <2>3. x \in Nat
      BY <1>1
    <2> HIDE DEF m
    <2>4. x \div (Samples * m) = q \div Samples
      BY <1>0, <2>2, <2>3, DivDiv
    <2>5. q \in Nat
      BY <2>2, <2>3
    <2> HIDE DEF q
    <2>6. q = (Samples * (q \div Samples)) + (q % Samples)
      BY <1>0, <2>5
    <2>7. Top(x, j + 1) = q
      BY DEF q, m
    <2>8. Top(x, j) = q \div Samples
      BY <2>2, <2>4
    <2> HIDE DEF Top
    <2> QED BY ONLY <2>5, <2>6, <2>7, <2>8
  <1>4. \A v \in 1..k : Top(a, v) % Samples = Top(b, v) % Samples
    OBVIOUS
  <1>5. 0 \in T
    BY <1>1
  <1> HIDE DEF Top
  <1>6. \A j \in Nat : j \in T => j + 1 \in T
    <2> SUFFICES ASSUME NEW j \in Nat, j \in T, j + 1 <= k
                 PROVE  Top(a, j + 1) = Top(b, j + 1)
      OBVIOUS
    <2>1. Top(a, j) = Top(b, j)
      OBVIOUS
    <2>2. Top(a, j + 1) % Samples = Top(b, j + 1) % Samples
      BY <1>4
    <2>3. /\ Top(a, j + 1) = (Samples * Top(a, j)) + (Top(a, j + 1) % Samples)
          /\ Top(b, j + 1) = (Samples * Top(b, j)) + (Top(b, j + 1) % Samples)
      BY <1>3
    <2> QED BY ONLY <2>1, <2>2, <2>3, Zenon
  <1>7. k \in T
    BY <1>5, <1>6, Powers!NatSetInduction
  <1> QED BY <1>2, <1>7

-----------------------------------------------------------------------------
(* The minimum.                                                            *)

WithMinimum(p, min, r) == IF r.okay THEN LP!NewMinimum(min, r.nll) ELSE min
Minimum == INSTANCE FoldFacts WITH op <- WithMinimum

OkayNlls(s) == {s[i].nll : i \in {j \in 1..Len(s) : s[j].okay}}

IsLeast(x, N) == x \in N /\ \A n \in N : x <= n

(* The minimum so far is one of the values looked at, and the least one,   *)
(* unless that is 0.                                                       *)
Found(x, N) ==
  /\ N = {} => x = 0
  /\ N # {} => x \in N /\ (IsLeast(x, N) \/ IsLeast(0, N))

LEMMA FoundOneMore ==
  ASSUME NEW N, N \subseteq Int, NEW x \in Int, Found(x, N), NEW n \in Int
  PROVE  Found(LP!NewMinimum(x, n), N \cup {n})
  <1> DEFINE y == LP!NewMinimum(x, n)
  <1>1. y = IF x = 0 \/ x > n THEN n ELSE x
    BY DEF LP!NewMinimum
  <1> SUFFICES Found(y, N \cup {n})
    OBVIOUS
  <1> HIDE DEF y
  <1>2. CASE N = {}
    BY <1>1, <1>2 DEF Found, IsLeast
  <1>3. CASE N # {} /\ IsLeast(x, N)
    <2>1. x \in N /\ \A k \in N : x <= k
      BY <1>3 DEF IsLeast
    <2>2. y \in N \cup {n}
      BY <1>1, <2>1
    <2>3. CASE x = 0 /\ n >= 0
      BY <2>1, <2>2, <2>3 DEF Found, IsLeast
    <2>4. CASE ~(x = 0 /\ n >= 0)
      <3>1. \A k \in N \cup {n} : y <= k
        BY <1>1, <2>1, <2>4
      <3> QED BY <2>2, <3>1 DEF Found, IsLeast
    <2> QED BY <2>3, <2>4
  <1>4. CASE N # {} /\ IsLeast(0, N)
    <2>1. x \in N /\ 0 \in N /\ \A k \in N : 0 <= k
      BY <1>4 DEF IsLeast, Found
    <2>2. y \in N \cup {n}
      BY <1>1, <2>1
    <2>3. CASE n >= 0
      BY <2>1, <2>2, <2>3 DEF Found, IsLeast
    <2>4. CASE ~(n >= 0)
      <3>1. \A k \in N \cup {n} : y <= k
        BY <1>1, <2>1, <2>4
      <3> QED BY <2>2, <3>1 DEF Found, IsLeast
    <2> QED BY <2>3, <2>4
  <1> QED BY <1>2, <1>3, <1>4 DEF Found

LEMMA FoundAll ==
  ASSUME NEW R, \A r \in R : r.okay \in BOOLEAN /\ r.nll \in Int,
         NEW s \in Seq(R)
  PROVE  Found(Minimum!Fold(0, 0, s), OkayNlls(s))
  <1> DEFINE Least(t) == Minimum!Fold(0, 0, t)
             T == {t \in Seq(R) : /\ Least(t) \in Int /\ OkayNlls(t) \subseteq Int
                                  /\ Found(Least(t), OkayNlls(t))}
  <1>1. <<>> \in T
    <2>1. Least(<<>>) = 0
      BY Minimum!FoldEmpty
    <2>2. OkayNlls(<<>>) = {} /\ <<>> \in Seq(R)
      BY DEF OkayNlls
    <2> HIDE DEF Least
    <2> QED BY <2>1, <2>2 DEF Found
  <1>2. ASSUME NEW t \in T, NEW r \in R
        PROVE  Append(t, r) \in T
    <2>1. Least(Append(t, r)) = WithMinimum(0, Least(t), r)
      BY Minimum!FoldAppend
    <2>2. /\ t \in Seq(R) /\ Least(t) \in Int /\ OkayNlls(t) \subseteq Int
          /\ Found(Least(t), OkayNlls(t)) /\ r.nll \in Int
      OBVIOUS
    <2>3. Append(t, r) \in Seq(R) /\ Len(Append(t, r)) = Len(t) + 1 /\ Len(t) \in Nat
          /\ Append(t, r)[Len(t) + 1] = r /\ \A i \in 1..Len(t) : Append(t, r)[i] = t[i]
      BY <2>2
    <2>4. OkayNlls(Append(t, r)) = OkayNlls(t) \cup (IF r.okay THEN {r.nll} ELSE {})
      BY <2>3 DEF OkayNlls
    <2> HIDE DEF Least
    <2>5. CASE r.okay
      <3>1. Least(Append(t, r)) = LP!NewMinimum(Least(t), r.nll)
        BY <2>1, <2>5 DEF WithMinimum
      <3>2. Found(LP!NewMinimum(Least(t), r.nll), OkayNlls(t) \cup {r.nll})
        BY <2>2, FoundOneMore
      <3>3. LP!NewMinimum(Least(t), r.nll) \in Int
        BY <2>2 DEF LP!NewMinimum
      <3>4. OkayNlls(Append(t, r)) = OkayNlls(t) \cup {r.nll}
        BY <2>4, <2>5
      <3> QED BY <2>2, <2>3, <3>1, <3>2, <3>3, <3>4
    <2>6. CASE ~r.okay
      <3>1. Least(Append(t, r)) = Least(t) /\ OkayNlls(Append(t, r)) = OkayNlls(t)
        BY <2>1, <2>4, <2>6 DEF WithMinimum
      <3> QED BY <2>2, <2>3, <3>1
    <2> QED BY <2>5, <2>6
  <1>3. Seq(R) \subseteq T
    BY ONLY <1>1, <1>2, Minimum!SeqSetInduction
  <1> QED BY <1>3

LEMMA MinimumIsFold == LP!MinNll = Minimum!Fold(0, 0, fit_results_)
  <1>1. LP!MinNll = LP!FoldLeft(LAMBDA min, r : WithMinimum(0, min, r), 0, fit_results_)
    BY DEF LP!MinNll, WithMinimum
  <1> QED BY <1>1 DEF LP!MinNll, Minimum!Fold, WithMinimum, LP!FoldLeft, Minimum!FoldLeft,
               LP!MapThenFoldSet, Minimum!MapThenFoldSet, LP!Max, Minimum!Max
-----------------------------------------------------------------------------
(* The invariant of the LikelihoodProfiler.                                *)
Result == [vals: [LP!Vars -> Int], fixed: BOOLEAN, okay: BOOLEAN, nll: Int]

Sampled(n) ==
  /\ n <= Len(fit_results_)
  /\ \A i \in 1..n :
       fit_results_[Len(fit_results_) - n + i].vals = LP!SetSamplePoint(i - 1)

ProfileInv ==
  /\ scan_vars_ \in Nat
  /\ values \in [LP!Vars -> Int] /\ start_vals_ \in [LP!Vars -> Int]
  /\ step \in -1..LP!NumTotalSamples
  /\ fit_results_ \in Seq(Result)
  /\ step >= 0 => Sampled(step)
  /\ profile.state # "none" => step = -1
  /\ LP!Plotted => /\ profile.min_nll = LP!MinNll
                   /\ \E r \in LP!Range(fit_results_) : r.okay

(* A sample is a digit.                                                    *)
LEMMA SampleType ==
  ASSUME scan_vars_ \in Nat, NEW n \in Nat, NEW v \in LP!Vars
  PROVE  LP!StepOf(n, v) \in 0..Samples - 1
  <1>1. v \in 1..scan_vars_ /\ scan_vars_ - v \in Nat /\ Samples \in Nat \ {0}
    BY ProfilesAssumption DEF LP!Vars, LP!ConstantsOK
  <1>2. LP!Power[scan_vars_ - v] \in Nat \ {0}
    BY <1>1, PowerFacts
  <1> DEFINE m == LP!Power[scan_vars_ - v]
             q == n \div m
  <1>3. q \in Nat
    BY <1>2
  <1>4. LP!StepOf(n, v) = q % Samples
    BY DEF LP!StepOf
  <1> HIDE DEF m, q
  <1> QED BY <1>1, <1>3, <1>4

LEMMA SamplePointType ==
  ASSUME scan_vars_ \in Nat, start_vals_ \in [LP!Vars -> Int], NEW n \in Nat
  PROVE  LP!SetSamplePoint(n) \in [LP!Vars -> Int]
  <1>1. Unit \in Nat /\ Samples \in Nat
    BY ProfilesAssumption DEF LP!ConstantsOK
  <1>2. \A v \in LP!Vars : start_vals_[v] + (2 * LP!StepOf(n, v) - Samples) * Unit \in Int
    <2> TAKE v \in LP!Vars
    <2>1. LP!StepOf(n, v) \in Nat
      BY SampleType, <1>1
    <2>2. (2 * LP!StepOf(n, v) - Samples) * Unit \in Int
      BY <1>1, <2>1
    <2> QED BY <2>2
  <1> QED BY <1>2 DEF LP!SetSamplePoint

LEMMA ProfileInvInit == Init => ProfileInv
  <1> SUFFICES ASSUME LP!Init PROVE ProfileInv
    BY DEF Init
  <1>1. scan_vars_ \in Nat
    BY ProfilesAssumption DEF LP!Init, LP!ConstantsOK
  <1>2. LP!NumTotalSamples \in Nat
    BY <1>1, PowerFacts DEF LP!NumTotalSamples
  <1>3. /\ values \in [LP!Vars -> Int] /\ start_vals_ \in [LP!Vars -> Int]
        /\ step = -1 /\ fit_results_ = <<>> /\ profile.state = "none"
    BY DEF LP!Init
  <1> QED BY <1>1, <1>2, <1>3 DEF ProfileInv, LP!Plotted

LEMMA BeginScanKeeps ==
  ASSUME ProfileInv, LP!BeginScan
  PROVE  ProfileInv'
  <1>1. /\ step' = 0 /\ start_vals_' = values /\ profile.state = "none"
        /\ UNCHANGED <<scan_vars_, values, fit_results_, profile>>
    BY DEF LP!BeginScan
  <1>2. LP!Vars' = LP!Vars /\ LP!NumTotalSamples' = LP!NumTotalSamples /\ Result' = Result
    BY <1>1 DEF LP!Vars, LP!NumTotalSamples, Result
  <1>3. LP!NumTotalSamples \in Nat
    BY PowerFacts DEF ProfileInv, LP!NumTotalSamples
  <1>4. Sampled(step)'
    BY <1>1 DEF ProfileInv, Sampled
  <1>5. ~LP!Plotted'
    BY <1>1 DEF LP!Plotted
  <1> QED BY <1>1, <1>2, <1>3, <1>4, <1>5 DEF ProfileInv

(* A result more, in a scan or out of it.                                  *)
LEMMA ResultMore ==
  ASSUME NEW R, NEW s \in Seq(R), NEW r \in R, NEW t, t = Append(s, r)
  PROVE  /\ t \in Seq(R) /\ Len(t) = Len(s) + 1 /\ Len(s) \in Nat
         /\ t[Len(s) + 1] = r
         /\ \A i \in 1..Len(s) : t[i] = s[i]
OBVIOUS

LEMMA ScanStepKeeps ==
  ASSUME ProfileInv, LP!ScanStep
  PROVE  ProfileInv'
  <1>1. /\ step \in 0..LP!NumTotalSamples - 1 /\ values' = LP!SetSamplePoint(step)
        /\ step' = step + 1
        /\ UNCHANGED <<scan_vars_, start_vals_, profile>>
    BY DEF LP!ScanStep
  <1>2. LP!Vars' = LP!Vars /\ LP!NumTotalSamples' = LP!NumTotalSamples /\ Result' = Result
        /\ \A n : LP!SetSamplePoint(n)' = LP!SetSamplePoint(n)
    BY <1>1 DEF LP!Vars, LP!NumTotalSamples, Result, LP!SetSamplePoint, LP!StepOf
  <1>3. LP!NumTotalSamples \in Nat /\ step \in Nat
    <2>1. LP!NumTotalSamples \in Nat
      BY PowerFacts DEF ProfileInv, LP!NumTotalSamples
    <2> QED BY <1>1, <2>1
  <1>4. values' \in [LP!Vars -> Int]
    BY <1>1, <1>3, SamplePointType DEF ProfileInv
  <1>5. PICK r : r \in Result /\ r.vals = values' /\ fit_results_' = Append(fit_results_, r)
    <2>1. PICK fit \in Fits :
            fit_results_' = Append(fit_results_, [vals |-> values', fixed |-> TRUE,
                                                  okay |-> fit.okay, nll |-> fit.nll])
      BY DEF LP!ScanStep
    <2>2. fit \in [okay: BOOLEAN, nll: Int]
      BY ProfilesAssumption DEF LP!ConstantsOK
    <2>3. [vals |-> values', fixed |-> TRUE, okay |-> fit.okay, nll |-> fit.nll] \in Result
      BY <1>4, <2>2 DEF Result
    <2> QED BY <2>1, <2>3
  <1>6. /\ fit_results_' \in Seq(Result) /\ Len(fit_results_') = Len(fit_results_) + 1
        /\ Len(fit_results_) \in Nat /\ fit_results_'[Len(fit_results_) + 1] = r
        /\ \A i \in 1..Len(fit_results_) : fit_results_'[i] = fit_results_[i]
    BY <1>5, ResultMore DEF ProfileInv
  <1>7. Sampled(step)
    BY <1>3 DEF ProfileInv
  <1>8. Sampled(step)'
    <2> SUFFICES ASSUME NEW i \in 1..step + 1
                 PROVE  fit_results_'[Len(fit_results_') - (step + 1) + i].vals
                          = LP!SetSamplePoint(i - 1)
      <3>1. step + 1 <= Len(fit_results_')
        BY <1>3, <1>6, <1>7 DEF Sampled
      <3>2. ASSUME \A i \in 1..step + 1 :
                     fit_results_'[Len(fit_results_') - (step + 1) + i].vals
                       = LP!SetSamplePoint(i - 1)
            PROVE  \A i \in 1..step' :
                     fit_results_'[Len(fit_results_') - step' + i].vals
                       = LP!SetSamplePoint(i - 1)'
        <4> TAKE i \in 1..step'
        <4>1. LP!SetSamplePoint(i - 1)' = LP!SetSamplePoint(i - 1)
          BY <1>2
        <4> QED BY <1>1, <3>2, <4>1
      <3> QED BY <1>1, <3>1, <3>2 DEF Sampled
    <2>1. Len(fit_results_') - (step + 1) + i = Len(fit_results_) - step + i
      BY <1>3, <1>6
    <2>2. CASE i = step + 1
      <3>1. Len(fit_results_) - step + i = Len(fit_results_) + 1 /\ i - 1 = step
        BY <1>3, <1>6, <2>2
      <3> QED BY <1>1, <1>5, <1>6, <2>1, <3>1
    <2>3. CASE i # step + 1
      <3>1. i \in 1..step /\ Len(fit_results_) - step + i \in 1..Len(fit_results_)
        BY <1>3, <1>6, <1>7, <2>3 DEF Sampled
      <3> QED BY <1>6, <1>7, <2>1, <3>1 DEF Sampled
    <2> QED BY <2>2, <2>3
  <1>9. profile.state = "none"
    BY <1>3 DEF ProfileInv
  <1>10. ~LP!Plotted'
    BY <1>1, <1>9 DEF LP!Plotted
  <1>11. step' \in -1..LP!NumTotalSamples
    BY <1>1, <1>3
  <1> QED BY <1>1, <1>2, <1>4, <1>6, <1>8, <1>9, <1>10, <1>11 DEF ProfileInv

(* Where the results stay, the invariant does, whatever the plot found.    *)
LEMMA ResultsStay ==
  ASSUME ProfileInv,
         UNCHANGED <<scan_vars_, values, start_vals_, fit_results_>>,
         step' = -1 \/ UNCHANGED step,
         profile'.state # "none" => step' = -1,
         LP!Plotted' => /\ profile'.min_nll = LP!MinNll
                        /\ \E r \in LP!Range(fit_results_) : r.okay
  PROVE  ProfileInv'
  <1>1. LP!Vars' = LP!Vars /\ LP!NumTotalSamples' = LP!NumTotalSamples /\ Result' = Result
        /\ LP!MinNll' = LP!MinNll /\ LP!Range(fit_results_)' = LP!Range(fit_results_)
        /\ \A n : LP!SetSamplePoint(n)' = LP!SetSamplePoint(n)
    <2>1. LP!Vars' = LP!Vars /\ LP!NumTotalSamples' = LP!NumTotalSamples /\ Result' = Result
          /\ \A n : LP!SetSamplePoint(n)' = LP!SetSamplePoint(n)
      BY DEF LP!Vars, LP!NumTotalSamples, Result, LP!SetSamplePoint, LP!StepOf
    <2>2. LP!Range(fit_results_)' = LP!Range(fit_results_)
      BY DEF LP!Range
    <2>3. LP!MinNll' = LP!MinNll
      <3>1. (LP!MinNll = Minimum!Fold(0, 0, fit_results_))'
        BY MinimumIsFold, PTL
      <3> QED BY <3>1, MinimumIsFold
    <2> QED BY <2>1, <2>2, <2>3
  <1>2. LP!NumTotalSamples \in Nat
    BY PowerFacts DEF ProfileInv, LP!NumTotalSamples
  <1>3. step' >= 0 => Sampled(step)'
    <2> SUFFICES ASSUME step' >= 0 PROVE Sampled(step)'
      OBVIOUS
    <2>1. UNCHANGED step /\ Sampled(step)
      BY <1>2 DEF ProfileInv
    <2>2. \A i \in 1..step :
            fit_results_[Len(fit_results_) - step + i].vals = LP!SetSamplePoint(i - 1)'
      <3> TAKE i \in 1..step
      <3>1. LP!SetSamplePoint(i - 1)' = LP!SetSamplePoint(i - 1)
        BY <1>1
      <3> QED BY <2>1, <3>1 DEF Sampled
    <2> QED BY <2>1, <2>2 DEF Sampled
  <1>4. step' \in -1..LP!NumTotalSamples
    BY <1>2 DEF ProfileInv
  <1> QED BY <1>1, <1>3, <1>4 DEF ProfileInv

LEMMA ReadKeeps ==
  ASSUME ProfileInv, LP!ReadFitResults
  PROVE  ProfileInv'
  <1>1. /\ step = -1 /\ profile.state = "none"
        /\ UNCHANGED <<scan_vars_, values, start_vals_, step, profile>>
    BY DEF LP!ReadFitResults
  <1>2. LP!Vars' = LP!Vars /\ LP!NumTotalSamples' = LP!NumTotalSamples /\ Result' = Result
    BY <1>1 DEF LP!Vars, LP!NumTotalSamples, Result
  <1>3. fit_results_' \in Seq(Result)
    <2>1. PICK r \in Readable :
            fit_results_' = Append(fit_results_, [vals |-> [v \in LP!Vars |-> r.place],
                                                  fixed |-> r.fixed, okay |-> r.okay,
                                                  nll |-> r.nll])
      BY DEF LP!ReadFitResults
    <2>2. r \in [place: Int, fixed: BOOLEAN, okay: BOOLEAN, nll: Int]
      BY ProfilesAssumption DEF LP!ConstantsOK
    <2>3. [vals |-> [v \in LP!Vars |-> r.place], fixed |-> r.fixed, okay |-> r.okay,
           nll |-> r.nll] \in Result
      BY <2>2 DEF Result
    <2> QED BY <2>1, <2>3 DEF ProfileInv
  <1>4. ~LP!Plotted'
    BY <1>1 DEF LP!Plotted
  <1> QED BY <1>1, <1>2, <1>3, <1>4 DEF ProfileInv

LEMMA ProfileInvNext == ProfileInv /\ [Next]_vars => ProfileInv'
  <1> SUFFICES ASSUME ProfileInv, [Next]_vars PROVE ProfileInv'
    OBVIOUS
  <1>0. LP!NumTotalSamples \in Nat \ {0}
    BY PowerFacts DEF ProfileInv, LP!NumTotalSamples
  <1>1. CASE UNCHANGED likelihood_vars
    <2>1. UNCHANGED <<scan_vars_, values, start_vals_, step, fit_results_, profile>>
      BY <1>1 DEF likelihood_vars
    <2> QED BY <2>1, ResultsStay DEF ProfileInv, LP!Plotted
  <1>2. CASE LP!BeginScan
    BY <1>2, BeginScanKeeps
  <1>3. CASE LP!ScanStep
    BY <1>3, ScanStepKeeps
  <1>4. CASE LP!EndScan
    <2>1. /\ step' = -1 /\ profile.state = "none"
          /\ UNCHANGED <<scan_vars_, values, start_vals_, fit_results_, profile>>
      BY <1>0, <1>4 DEF LP!EndScan, ProfileInv
    <2> QED BY <2>1, ResultsStay DEF LP!Plotted
  <1>5. CASE LP!ReadFitResults
    BY <1>5, ReadKeeps
  <1>6. CASE LP!PlotHandler
    <2>1. /\ step = -1 /\ UNCHANGED step
          /\ UNCHANGED <<scan_vars_, values, start_vals_, fit_results_>>
      BY <1>6 DEF LP!PlotHandler
    <2>2. CASE LP!Terminates
      BY <1>6, <2>1, <2>2, ResultsStay DEF LP!PlotHandler, LP!Plotted
    <2>3. CASE ~LP!Terminates
      <3>1. profile'.min_nll = LP!MinNll
        BY <1>6, <2>3 DEF LP!PlotHandler
      <3>2. \E r \in LP!Range(fit_results_) : r.okay
        BY <2>3 DEF LP!Terminates
      <3> QED BY <2>1, <3>1, <3>2, ResultsStay
    <2> QED BY <2>2, <2>3
  <1> QED BY <1>1, <1>2, <1>3, <1>4, <1>5, <1>6 DEF Next, LP!Next, vars

LEMMA ProfileInvAlways == Spec => []ProfileInv
  <1> QED BY ProfileInvInit, ProfileInvNext, PTL DEF Spec

(* The minimum that is subtracted from all points of a profile is the      *)
(* least of the usable results, in whatever order and number they come,    *)
(* but for the 0.0 that LikelihoodProfiler.cpp takes for "none yet".       *)
THEOREM MinimumIsLeast == Spec => []MinIsMinimum
  <1>1. ProfileInv => MinIsMinimum
    <2> SUFFICES ASSUME ProfileInv, LP!Plotted
                 PROVE  \/ /\ profile.min_nll \in LP!UsableNlls
                           /\ \A nll \in LP!UsableNlls : profile.min_nll <= nll
                        \/ 0 \in LP!UsableNlls /\ \A nll \in LP!UsableNlls : 0 <= nll
      BY DEF MinIsMinimum, LP!MinIsMinimum
    <2>1. /\ profile.min_nll = LP!MinNll /\ fit_results_ \in Seq(Result)
          /\ \E r \in LP!Range(fit_results_) : r.okay
      BY DEF ProfileInv
    <2>2. Found(LP!MinNll, OkayNlls(fit_results_))
      <3>1. \A r \in Result : r.okay \in BOOLEAN /\ r.nll \in Int
        BY DEF Result
      <3>2. Found(Minimum!Fold(0, 0, fit_results_), OkayNlls(fit_results_))
        BY ONLY <2>1, <3>1, FoundAll
      <3> QED BY <3>2, MinimumIsFold
    <2>3. OkayNlls(fit_results_) = LP!UsableNlls /\ LP!UsableNlls # {}
      BY <2>1 DEF OkayNlls, LP!UsableNlls, LP!Range
    <2> QED BY <2>1, <2>2, <2>3 DEF Found, IsLeast
  <1> QED BY <1>1, ProfileInvAlways, PTL

(* A scan visits as many different points of its grid as it did steps, for *)
(* any number of variables and samples: SetSamplePoint takes a step apart  *)
(* into one digit for each variable.                                       *)
THEOREM GridVisitedOnce == Spec => []GridOnce
  <1>1. ProfileInv => GridOnce
    <2> SUFFICES ASSUME ProfileInv, step >= 0
                 PROVE  LP!GridOnce
      BY DEF GridOnce, LP!GridOnce
    <2> DEFINE first == Len(fit_results_) - step
               visited == [i \in 1..step |-> fit_results_[first + i].vals]
               k == scan_vars_
    <2>1. /\ step \in Nat /\ step <= LP!Power[k] /\ k \in Nat /\ Sampled(step)
          /\ start_vals_ \in [LP!Vars -> Int]
      <3>1. LP!NumTotalSamples \in Nat
        BY PowerFacts DEF ProfileInv, LP!NumTotalSamples
      <3> QED BY <3>1 DEF ProfileInv, LP!NumTotalSamples
    <2>2. \A i \in 1..step : fit_results_[first + i].vals = LP!SetSamplePoint(i - 1)
      BY <2>1 DEF Sampled
    <2>3. Unit \in Nat \ {0} /\ Samples \in Nat \ {0} /\ LP!Power[k] \in Nat
      BY <2>1, ProfilesAssumption, PowerFacts DEF LP!ConstantsOK
    <2>4. \A n \in Nat : \A v \in LP!Vars :
            /\ LP!StepOf(n, v) \in 0..Samples - 1
            /\ LP!SetSamplePoint(n)[v] = start_vals_[v] + (2 * LP!StepOf(n, v) - Samples) * Unit
      BY <2>1, SampleType DEF LP!SetSamplePoint
    <2>5. ASSUME NEW a \in 0..step - 1, NEW b \in 0..step - 1,
                 LP!SetSamplePoint(a) = LP!SetSamplePoint(b)
          PROVE  a = b
      <3>1. \A x, c, d \in Int : x + (2 * c - Samples) * Unit = x + (2 * d - Samples) * Unit => c = d
        <4> SUFFICES ASSUME NEW x \in Int, NEW c \in Int, NEW d \in Int,
                            x + (2 * c - Samples) * Unit = x + (2 * d - Samples) * Unit
                     PROVE  c = d
          OBVIOUS
        <4> DEFINE p == 2 * c - Samples
                   q == 2 * d - Samples
        <4>1. p \in Int /\ q \in Int /\ p * Unit \in Int /\ q * Unit \in Int
          BY <2>3
        <4>2. p * Unit = q * Unit
          BY <4>1
        <4>3. (p - q) * Unit = 0
          BY <2>3, <4>1, <4>2
        <4> HIDE DEF p, q
        <4>4. p = q
          BY <2>3, <4>1, <4>3
        <4> QED BY <2>3, <4>4 DEF p, q
      <3>2. \A v \in LP!Vars : LP!StepOf(a, v) = LP!StepOf(b, v)
        <4> TAKE v \in LP!Vars
        <4>1. /\ LP!StepOf(a, v) \in Int /\ LP!StepOf(b, v) \in Int /\ start_vals_[v] \in Int
              /\ a \in Nat /\ b \in Nat
          BY <2>1, <2>3, <2>4
        <4>2. start_vals_[v] + (2 * LP!StepOf(a, v) - Samples) * Unit
                = start_vals_[v] + (2 * LP!StepOf(b, v) - Samples) * Unit
          BY <2>4, <2>5, <4>1
        <4> QED BY ONLY <3>1, <4>1, <4>2
      <3>3. a \in Nat /\ b \in Nat /\ a < LP!Power[k] /\ b < LP!Power[k]
        BY <2>1, <2>3
      <3>4. \A v \in 1..k : (a \div LP!Power[k - v]) % Samples = (b \div LP!Power[k - v]) % Samples
        BY <3>2 DEF LP!StepOf, LP!Vars
      <3> QED BY ONLY <2>1, <3>3, <3>4, Digits
    <2>6. \A i \in 1..step : visited[i] = LP!SetSamplePoint(i - 1) /\ i - 1 \in 0..step - 1
      <3> TAKE i \in 1..step
      <3>1. visited[i] = fit_results_[first + i].vals
        OBVIOUS
      <3>2. i - 1 \in 0..step - 1
        BY <2>1
      <3> HIDE DEF visited
      <3> QED BY <2>2, <3>1, <3>2
    <2>7. \A i, j \in 1..step : visited[i] = visited[j] => i = j
      <3> SUFFICES ASSUME NEW i \in 1..step, NEW j \in 1..step, visited[i] = visited[j]
                   PROVE  i = j
        OBVIOUS
      <3>1. i - 1 = j - 1
        BY <2>5, <2>6
      <3> QED BY <3>1
    <2>8. \A i \in 1..step, v \in LP!Vars :
            \E j \in 0..Samples - 1 :
              visited[i][v] = start_vals_[v] + (2 * j - Samples) * Unit
      <3> TAKE i \in 1..step, v \in LP!Vars
      <3>1. i - 1 \in Nat
        OBVIOUS
      <3> HIDE DEF visited
      <3> QED BY <2>4, <2>6, <3>1
    <2>9. DOMAIN visited = 1..step
      OBVIOUS
    <2>10. LP!IsInjective(visited)
      BY <2>7, <2>9 DEF LP!IsInjective
    <2> QED BY <2>8, <2>10 DEF LP!GridOnce
  <1> QED BY <1>1, ProfileInvAlways, PTL

-----------------------------------------------------------------------------
(* Places in ascending order, which are what a graph is drawn over.        *)

(* Every finite set of whole numbers has a greatest one.                   *)
LEMMA GreatestExists ==
  \A S \in SUBSET Int :
    IsFiniteSet(S) /\ S # {} => \E m \in S : \A x \in S : x <= m
  <1> DEFINE Ok(S) == S # {} => \E m \in S : \A x \in S : x <= m
             T == {n \in Nat : \A S \in SUBSET Int :
                                 IsFiniteSet(S) /\ Cardinality(S) = n => Ok(S)}
  <1>1. 0 \in T
    BY FS_EmptySet
  <1>2. ASSUME NEW n \in Nat, n \in T
        PROVE  n + 1 \in T
    <2> SUFFICES ASSUME NEW S \in SUBSET Int, IsFiniteSet(S), Cardinality(S) = n + 1
                 PROVE  Ok(S)
      OBVIOUS
    <2>0. S # {}
      BY FS_EmptySet
    <2>1. PICK x \in S : TRUE
      BY <2>0
    <2> DEFINE R == S \ {x}
    <2>2. R \in SUBSET Int /\ IsFiniteSet(R) /\ Cardinality(R) = n
      BY <2>1, FS_RemoveElement
    <2>3. CASE R = {}
      <3>1. \A y \in S : y <= x
        BY <2>3
      <3> QED BY <2>1, <3>1
    <2>4. CASE R # {}
      <3>1. PICK m \in R : \A y \in R : y <= m
        BY <1>2, <2>2, <2>4
      <3>2. \A y \in S : y <= IF m < x THEN x ELSE m
        BY <2>1, <3>1
      <3> QED BY <2>1, <3>1, <3>2
    <2> QED BY <2>3, <2>4
  <1> HIDE DEF T
  <1>3. \A n \in Nat : n \in T
    BY <1>1, <1>2, Powers!NatSetInduction
  <1>4. ASSUME NEW S \in SUBSET Int, IsFiniteSet(S)
        PROVE  Ok(S)
    <2>1. Cardinality(S) \in T
      BY <1>3, <1>4, FS_CardinalityType
    <2> QED BY <1>4, <2>1 DEF T
  <1> QED BY <1>4

(* A set can be put in ascending order.                                    *)
IsAscending(s, S) ==
  /\ s \in [1..Cardinality(S) -> S]
  /\ \A i, j \in 1..Cardinality(S) : i < j => s[i] < s[j]

LEMMA AscendingExists ==
  \A S \in SUBSET Int : IsFiniteSet(S) => \E s : IsAscending(s, S)
  <1> DEFINE T == {n \in Nat : \A S \in SUBSET Int :
                                 IsFiniteSet(S) /\ Cardinality(S) = n
                                   => \E s : IsAscending(s, S)}
  <1>1. 0 \in T
    <2>1. ASSUME NEW S \in SUBSET Int, IsFiniteSet(S), Cardinality(S) = 0
          PROVE  IsAscending(<<>>, S)
      <3>1. 1..0 = {} /\ <<>> \in [{} -> S]
        OBVIOUS
      <3> QED BY <2>1, <3>1 DEF IsAscending
    <2> QED BY <2>1
  <1>2. ASSUME NEW n \in Nat, n \in T
        PROVE  n + 1 \in T
    <2> SUFFICES ASSUME NEW S \in SUBSET Int, IsFiniteSet(S), Cardinality(S) = n + 1
                 PROVE  \E s : IsAscending(s, S)
      OBVIOUS
    <2>1. S # {}
      BY FS_EmptySet
    <2>2. PICK m \in S : \A x \in S : x <= m
      BY <2>1, GreatestExists
    <2> DEFINE R == S \ {m}
    <2>3. R \in SUBSET Int /\ IsFiniteSet(R) /\ Cardinality(R) = n
      BY <2>2, FS_RemoveElement
    <2>4. PICK s : IsAscending(s, R)
      BY <1>2, <2>3
    <2> DEFINE t == [i \in 1..n + 1 |-> IF i = n + 1 THEN m ELSE s[i]]
    <2>5. s \in [1..n -> R] /\ \A i, j \in 1..n : i < j => s[i] < s[j]
      BY <2>3, <2>4 DEF IsAscending
    <2>6. t \in [1..n + 1 -> S]
      <3>1. \A i \in 1..n + 1 : i = n + 1 \/ i \in 1..n
        OBVIOUS
      <3> QED BY <2>5, <3>1
    <2>7. ASSUME NEW i \in 1..n + 1, NEW j \in 1..n + 1, i < j
          PROVE  t[i] < t[j]
      <3>1. i \in 1..n /\ t[i] = s[i] /\ s[i] \in R
        BY <2>5, <2>7
      <3>2. CASE j = n + 1
        <4>1. s[i] <= m /\ s[i] # m /\ s[i] \in Int /\ m \in Int
          BY <2>2, <3>1
        <4> QED BY <3>1, <3>2, <4>1
      <3>3. CASE j # n + 1
        <4>1. j \in 1..n /\ t[j] = s[j]
          BY <3>3
        <4> QED BY <2>5, <2>7, <3>1, <4>1
      <3> QED BY <3>2, <3>3
    <2> HIDE DEF t
    <2>8. IsAscending(t, S)
      BY <2>6, <2>7 DEF IsAscending
    <2> QED BY <2>8
  <1> HIDE DEF T
  <1>3. \A n \in Nat : n \in T
    BY <1>1, <1>2, Powers!NatSetInduction
  <1>4. ASSUME NEW S \in SUBSET Int, IsFiniteSet(S)
        PROVE  \E s : IsAscending(s, S)
    <2>1. Cardinality(S) \in T
      BY <1>3, <1>4, FS_CardinalityType
    <2> QED BY <1>4, <2>1 DEF T
  <1> QED BY <1>4

LEMMA AscendingIs ==
  \A S \in SUBSET Int : IsFiniteSet(S) => IsAscending(LS!Ascending(S), S)
  <1> SUFFICES ASSUME NEW S \in SUBSET Int, IsFiniteSet(S)
               PROVE  IsAscending(LS!Ascending(S), S)
    OBVIOUS
  <1>1. PICK s : IsAscending(s, S)
    BY AscendingExists
  <1>2. LS!Ascending(S) = CHOOSE t \in [1..Cardinality(S) -> S] :
                            \A i, j \in 1..Cardinality(S) : i < j => t[i] < t[j]
    BY DEF LS!Ascending, LS!Cardinality, Cardinality
  <1> QED BY <1>1, <1>2 DEF IsAscending

(* What a graph is: points in ascending order.                             *)
Point == [x: Int, y: Int, of: Int]
LevelType == [num: Int, den: Nat \ {0}]

IsGraph(g) ==
  /\ g \in Seq(Point)
  /\ Len(g) > 0
  /\ \A i, j \in 1..Len(g) : i < j => g[i].x < g[j].x

(* The places between the ends of a graph.                                 *)
Span(g) == LS!First(g)..LS!Last(g)

LEMMA SpanFacts ==
  ASSUME NEW g, IsGraph(g)
  PROVE  /\ LS!First(g) \in Int /\ LS!Last(g) \in Int
         /\ LS!First(g) <= LS!Last(g)
         /\ Span(g) \subseteq Int
         /\ LS!First(g) \in Span(g) /\ LS!Last(g) \in Span(g)
  <1>1. 1 \in 1..Len(g) /\ Len(g) \in 1..Len(g) /\ Len(g) \in Nat
    BY DEF IsGraph
  <1>2. g[1] \in Point /\ g[Len(g)] \in Point
    BY <1>1, ElementOfSeq DEF IsGraph
  <1>3. g[1].x \in Int /\ g[Len(g)].x \in Int
    BY <1>2 DEF Point
  <1>4. g[1].x <= g[Len(g)].x
    <2>1. CASE Len(g) = 1
      BY <1>3, <2>1
    <2>2. CASE Len(g) # 1
      <3>1. 1 < Len(g)
        <4> DEFINE n == Len(g)
        <4>1. n \in Nat /\ 1 \in 1..n /\ n # 1
          BY <1>1, <2>2
        <4> HIDE DEF n
        <4>2. 1 < n
          BY <4>1
        <4> QED BY <4>2 DEF n
      <3>2. g[1].x < g[Len(g)].x
        BY <1>1, <3>1 DEF IsGraph
      <3> QED BY <1>3, <3>2
    <2> QED BY <2>1, <2>2
  <1> QED BY <1>3, <1>4 DEF LS!First, LS!Last, Span

(* Each place between the ends is on a segment.                            *)
LEMMA OnSegment ==
  ASSUME NEW g, IsGraph(g), Len(g) # 1, NEW x \in Span(g)
  PROVE  \E i \in 1..(Len(g) - 1) : g[i].x <= x /\ x <= g[i + 1].x
  <1> DEFINE n == Len(g)
             before == {i \in 1..n - 1 : g[i].x <= x}
  <1>1. n \in Nat /\ n > 1 /\ 1 \in 1..n - 1
    <2>1. n \in Nat /\ n > 0 /\ n # 1
      BY DEF IsGraph
    <2> HIDE DEF n
    <2> QED BY <2>1
  <1>2. \A i \in 1..n : g[i].x \in Int
    <2>1. \A i \in 1..n : g[i] \in Point
      BY ElementOfSeq DEF IsGraph
    <2> QED BY <2>1 DEF Point
  <1>3. x \in Int /\ g[1].x <= x /\ x <= g[n].x
    BY SpanFacts DEF Span, LS!First, LS!Last
  <1>4. 1 \in before
    BY <1>1, <1>3
  <1> HIDE DEF n
  <1>5. before \in SUBSET Int /\ IsFiniteSet(before)
    <2>1. IsFiniteSet(1..n - 1) /\ before \subseteq 1..n - 1
      BY <1>1, FS_Interval
    <2>2. IsFiniteSet(before)
      BY <2>1, FS_Subset
    <2> QED BY <2>1, <2>2
  <1>6. PICK i \in before : \A k \in before : k <= i
    BY <1>4, <1>5, GreatestExists
  <1>7. i \in 1..n - 1 /\ i + 1 \in 1..n /\ g[i].x <= x
    BY <1>1, <1>6
  <1>8. x <= g[i + 1].x
    <2>1. CASE i + 1 = n
      BY <1>3, <2>1
    <2>2. CASE i + 1 # n
      <3>1. i + 1 \in 1..n - 1 /\ i + 1 \notin before
        BY <1>1, <1>6, <1>7, <2>2
      <3>2. ~(g[i + 1].x <= x) /\ g[i + 1].x \in Int
        BY <1>2, <1>7, <3>1
      <3> QED BY <1>3, <3>2
    <2> QED BY <2>1, <2>2
  <1> QED BY <1>7, <1>8 DEF n

LEMMA HeightType ==
  ASSUME NEW g, IsGraph(g), NEW l \in LevelType, NEW x \in Span(g)
  PROVE  LS!Height(g, x, l) \in Int
  <1>1. x \in Int /\ l.num \in Int /\ l.den \in Int
    BY SpanFacts DEF LevelType
  <1>2. \A i \in 1..Len(g) : g[i].x \in Int /\ g[i].y \in Int /\ g[i].of \in Int
    <2>1. \A i \in 1..Len(g) : g[i] \in Point
      BY ElementOfSeq DEF IsGraph
    <2> QED BY <2>1 DEF Point
  <1>3. Len(g) \in Nat /\ Len(g) >= 1
    BY DEF IsGraph
  <1>4. CASE Len(g) = 1
    <2>1. g[1].y \in Int /\ g[1].of \in Int
      BY <1>2, <1>3
    <2> QED BY <1>1, <1>4, <2>1 DEF LS!Height
  <1>5. CASE Len(g) # 1
    <2> DEFINE i == CHOOSE i \in 1..(Len(g) - 1) : g[i].x <= x /\ x <= g[i + 1].x
               a == g[i]
               b == g[i + 1]
    <2>1. i \in 1..(Len(g) - 1)
      BY <1>5, OnSegment
    <2>2. i \in 1..Len(g) /\ i + 1 \in 1..Len(g)
      BY <1>3, <2>1
    <2> HIDE DEF i
    <2>3. /\ a.x \in Int /\ a.y \in Int /\ a.of \in Int
          /\ b.x \in Int /\ b.y \in Int /\ b.of \in Int
      BY <1>2, <2>2
    <2> HIDE DEF a, b
    <2>4. (a.y * b.of * (b.x - x) + b.y * a.of * (x - a.x)) * l.den
             - l.num * (b.x - a.x) * a.of * b.of \in Int
      <3>1. \A u, v \in Int : u * v \in Int /\ u - v \in Int /\ u + v \in Int
        OBVIOUS
      <3>2. b.x - x \in Int /\ x - a.x \in Int /\ b.x - a.x \in Int
            /\ a.y * b.of \in Int /\ b.y * a.of \in Int
        BY <1>1, <2>3, <3>1
      <3>3. a.y * b.of * (b.x - x) \in Int /\ b.y * a.of * (x - a.x) \in Int
            /\ l.num * (b.x - a.x) \in Int
        BY <1>1, <3>1, <3>2
      <3>4. a.y * b.of * (b.x - x) + b.y * a.of * (x - a.x) \in Int
            /\ l.num * (b.x - a.x) * a.of \in Int
        BY <2>3, <3>1, <3>3
      <3>5. (a.y * b.of * (b.x - x) + b.y * a.of * (x - a.x)) * l.den \in Int
            /\ l.num * (b.x - a.x) * a.of * b.of \in Int
        BY <1>1, <2>3, <3>1, <3>4
      <3> QED BY <3>1, <3>5
    <2> QED BY <1>5, <2>4 DEF LS!Height, i, a, b
  <1> QED BY <1>4, <1>5

-----------------------------------------------------------------------------
(* The places of the coarse scan are between the ends and go one way.      *)
LEMMA PlacesFacts ==
  ASSUME NEW g, IsGraph(g), NEW d \in {1, -1}
  PROVE  LET places == LS!Places(g, d)
             from == IF d > 0 THEN LS!First(g) ELSE LS!Last(g)
         IN  \/ DOMAIN places = {}
             \/ /\ DOMAIN places = 1..Steps
                /\ 1 \in DOMAIN places /\ places[1] = from
                /\ \A k \in DOMAIN places : places[k] \in Span(g)
                /\ \A j, k \in DOMAIN places :
                     j <= k => IF d > 0 THEN places[j] <= places[k]
                                        ELSE places[k] <= places[j]
  <1> DEFINE places == LS!Places(g, d)
             first == LS!First(g)
             last == LS!Last(g)
             from == IF d > 0 THEN first ELSE last
             width == (last - first) \div Steps
  <1>1. first \in Int /\ last \in Int /\ first <= last /\ Steps \in Nat \ {0}
    BY SpanFacts, FeldmanCousinsAssumption
  <1>2. width \in Nat /\ Steps * width <= last - first
    <2> DEFINE w == last - first
    <2>1. w \in Nat
      BY <1>1
    <2> HIDE DEF w, first, last
    <2>2. w \div Steps \in Nat /\ Steps * (w \div Steps) <= w
      BY <1>1, <2>1
    <2> QED BY <2>2 DEF w
  <1>3. CASE width = 0
    <2>1. places = <<>>
      BY <1>3 DEF LS!Places
    <2> QED BY <2>1
  <1>4. CASE width # 0
    <2>1. places = [k \in 1..Steps |-> from + d * (k - 1) * width]
      BY <1>4 DEF LS!Places
    <2> HIDE DEF first, last, places, width
    <2>2. \A j, k \in 1..Steps :
            j <= k => /\ (j - 1) * width \in Nat
                      /\ (j - 1) * width <= (k - 1) * width
                      /\ (k - 1) * width <= last - first
      <3> SUFFICES ASSUME NEW j \in 1..Steps, NEW k \in 1..Steps, j <= k
                   PROVE  /\ (j - 1) * width \in Nat
                          /\ (j - 1) * width <= (k - 1) * width
                          /\ (k - 1) * width <= last - first
        OBVIOUS
      <3>1. \A u, v, w \in Nat : u <= v => u * w \in Nat /\ u * w <= v * w /\ v * w \in Nat
        OBVIOUS
      <3>2. j - 1 \in Nat /\ k - 1 \in Nat /\ Steps \in Nat /\ j - 1 <= k - 1 /\ k - 1 <= Steps
        BY <1>1
      <3>3. (j - 1) * width \in Nat /\ (j - 1) * width <= (k - 1) * width
        BY <1>2, <3>1, <3>2
      <3>4. (k - 1) * width <= Steps * width /\ (k - 1) * width \in Nat /\ Steps * width \in Nat
        BY <1>2, <3>1, <3>2
      <3> QED BY <1>1, <1>2, <3>3, <3>4
    <2>3. 1 \in 1..Steps /\ (1 - 1) * width = 0
      BY <1>1, <1>2
    <2>4. CASE d = 1
      <3>1. \A k \in 1..Steps : places[k] = first + (k - 1) * width
        <4>1. \A k \in 1..Steps : d * (k - 1) = k - 1
          BY <1>1, <2>4
        <4> QED BY <2>1, <2>4, <4>1
      <3>2. \A k \in 1..Steps : places[k] \in first..last
        BY <1>1, <2>2, <3>1
      <3>3. \A j, k \in 1..Steps : j <= k => places[j] <= places[k]
        BY <1>1, <2>2, <3>1
      <3>4. places[1] = first
        BY <1>1, <2>3, <3>1
      <3> QED BY <2>1, <2>3, <2>4, <3>2, <3>3, <3>4 DEF Span, first, last, places
    <2>5. CASE d = -1
      <3>1. \A k \in 1..Steps : places[k] = last - (k - 1) * width
        <4>1. \A k \in 1..Steps : d * (k - 1) = -(k - 1) /\ k - 1 \in Nat
          BY <1>1, <2>5
        <4>2. \A u \in Nat : (-u) * width = -(u * width)
          BY <1>2
        <4>3. \A k \in 1..Steps : d * (k - 1) * width = -((k - 1) * width)
          BY <4>1, <4>2
        <4>4. \A k \in 1..Steps : (k - 1) * width \in Nat
          BY <2>2
        <4> QED BY <1>1, <2>1, <2>5, <4>3, <4>4
      <3>2. \A k \in 1..Steps : places[k] \in first..last
        BY <1>1, <2>2, <3>1
      <3>3. \A j, k \in 1..Steps : j <= k => places[k] <= places[j]
        BY <1>1, <2>2, <3>1
      <3>4. places[1] = last
        BY <1>1, <2>3, <3>1
      <3> QED BY <2>1, <2>3, <2>5, <3>2, <3>3, <3>4 DEF Span, first, last, places
    <2> QED BY <2>4, <2>5
  <1> QED BY <1>3, <1>4

(* The bisection is a recursion on the distance.                           *)
Close(ab) == LS!Distance(ab[1], ab[2]) <= LS!Eps
Middle(ab) == (ab[1] + ab[2]) \div 2

SearchStep(p, search, ab) ==
  IF Close(ab) \/ LS!Halved(p[1], p[2], ab) = ab
  THEN [ends |-> Close(ab), low |-> ab[1], high |-> ab[2]]
  ELSE search[LS!Halved(p[1], p[2], ab)]

Searches == INSTANCE FoldFacts WITH op <- SearchStep

LEMMA MiddleFacts ==
  ASSUME NEW a \in Int, NEW b \in Int
  PROVE  LET m == (a + b) \div 2
         IN  /\ m \in Int
             /\ a <= b => a <= m /\ m <= b
             /\ b <= a => b <= m /\ m <= a
             /\ ~(LS!Distance(a, b) <= LS!Eps) =>
                  /\ m # a /\ m # b
                  /\ LS!Distance(m, b) < LS!Distance(a, b)
                  /\ LS!Distance(a, m) < LS!Distance(a, b)
  BY DEF LS!Distance, LS!Eps

LEMMA HalvedIs ==
  ASSUME NEW g, NEW l, NEW ab \in Int \X Int
  PROVE  /\ LS!Halved(g, l, ab) \in {ab, <<Middle(ab), ab[2]>>, <<ab[1], Middle(ab)>>}
         /\ LS!Halved(g, l, ab) \in Int \X Int
         /\ ab = <<ab[1], ab[2]>> /\ ab[1] \in Int /\ ab[2] \in Int
         /\ Middle(ab) \in Int
         /\ LS!Distance(ab[1], ab[2]) \in Nat
  <1>1. ab = <<ab[1], ab[2]>> /\ ab[1] \in Int /\ ab[2] \in Int /\ Middle(ab) \in Int
    BY MiddleFacts DEF Middle
  <1>2. LS!Halved(g, l, ab) \in {ab, <<Middle(ab), ab[2]>>, <<ab[1], Middle(ab)>>}
    BY DEF LS!Halved, Middle
  <1>3. LS!Distance(ab[1], ab[2]) \in Nat
    BY <1>1 DEF LS!Distance
  <1> QED BY <1>1, <1>2, <1>3

LEMMA HalvedIsCloser ==
  ASSUME NEW g, NEW l, NEW ab \in Int \X Int, ~Close(ab), LS!Halved(g, l, ab) # ab
  PROVE  LET to == LS!Halved(g, l, ab)
         IN  LS!Distance(to[1], to[2]) < LS!Distance(ab[1], ab[2])
  <1>1. LS!Halved(g, l, ab) \in {<<Middle(ab), ab[2]>>, <<ab[1], Middle(ab)>>}
    BY HalvedIs
  <1>2. /\ LS!Distance(Middle(ab), ab[2]) < LS!Distance(ab[1], ab[2])
        /\ LS!Distance(ab[1], Middle(ab)) < LS!Distance(ab[1], ab[2])
    BY HalvedIs, MiddleFacts DEF Close, Middle
  <1> QED BY <1>1, <1>2

LEMMA SearchStepGoesDown ==
  ASSUME NEW p
  PROVE  LET D == Int \X Int
         IN  Searches!GoesDown(p, D, [ab \in D |-> LS!Distance(ab[1], ab[2])])
  <1> DEFINE D == Int \X Int
             m == [ab \in D |-> LS!Distance(ab[1], ab[2])]
  <1>1. ASSUME NEW ab \in D, NEW g, NEW h, \A cd \in D : m[cd] < m[ab] => g[cd] = h[cd]
        PROVE  SearchStep(p, g, ab) = SearchStep(p, h, ab)
    <2> DEFINE to == LS!Halved(p[1], p[2], ab)
    <2>1. CASE Close(ab) \/ to = ab
      BY <2>1 DEF SearchStep
    <2>2. CASE ~(Close(ab) \/ to = ab)
      <3>1. to \in D /\ LS!Distance(to[1], to[2]) < LS!Distance(ab[1], ab[2])
        BY <2>2, HalvedIs, HalvedIsCloser
      <3> HIDE DEF to
      <3>2. g[to] = h[to]
        BY <1>1, <3>1
      <3> QED BY <2>2, <3>2 DEF SearchStep, to
    <2> QED BY <2>1, <2>2
  <1> QED BY <1>1 DEF Searches!GoesDown

(* What holds at the start and is kept by each turn holds in the end.      *)
LEMMA BisectKeeps ==
  ASSUME NEW g, NEW l, NEW I \in SUBSET (Int \X Int),
         \A ab \in I : ~Close(ab) => LS!Halved(g, l, ab) \in I,
         NEW low, NEW high, <<low, high>> \in I
  PROVE  \E ab \in I :
           /\ LS!Bisect(g, l, low, high)
                = [ends |-> Close(ab), low |-> ab[1], high |-> ab[2]]
           /\ Close(ab) \/ LS!Halved(g, l, ab) = ab
  <1> DEFINE D == Int \X Int
             p == <<g, l>>
             m == [ab \in D |-> LS!Distance(ab[1], ab[2])]
             f == CHOOSE h : h = [ab \in D |-> SearchStep(p, h, ab)]
             Reaches(ab, end) ==
               /\ f[ab] = [ends |-> Close(end), low |-> end[1], high |-> end[2]]
               /\ Close(end) \/ LS!Halved(g, l, end) = end
  <1>1. LS!Bisect(g, l, low, high) = f[<<low, high>>]
    BY DEF LS!Bisect, SearchStep, Close
  <1>2. m \in [D -> Nat]
    BY HalvedIs
  <1>3. Searches!GoesDown(p, D, m)
    BY SearchStepGoesDown
  <1>4. f = [ab \in D |-> SearchStep(p, f, ab)]
    <2> HIDE DEF D, p, m
    <2>1. f = CHOOSE h : h = [ab \in D |-> SearchStep(p, h, ab)]
      OBVIOUS
    <2> HIDE DEF f
    <2> QED BY <1>2, <1>3, <2>1, Searches!RecursionByMeasure
  <1> HIDE DEF f
  <1>5. ASSUME NEW ab \in I, Close(ab) \/ LS!Halved(g, l, ab) = ab
        PROVE  Reaches(ab, ab)
    <2>1. f[ab] = SearchStep(p, f, ab)
      BY <1>4
    <2>2. f[ab] = [ends |-> Close(ab), low |-> ab[1], high |-> ab[2]]
      BY <1>5, <2>1 DEF SearchStep
    <2> QED BY <1>5, <2>2
  <1>6. ASSUME NEW ab \in I, ~Close(ab), LS!Halved(g, l, ab) # ab
        PROVE  f[ab] = f[LS!Halved(g, l, ab)]
    <2>1. f[ab] = SearchStep(p, f, ab)
      BY <1>4
    <2> QED BY <1>6, <2>1 DEF SearchStep
  <1> DEFINE T == {n \in Nat : \A ab \in I : m[ab] <= n => \E end \in I : Reaches(ab, end)}
  <1>7. 0 \in T
    <2>1. ASSUME NEW ab \in I, m[ab] <= 0
          PROVE  Close(ab)
      <3>1. LS!Distance(ab[1], ab[2]) \in Nat /\ m[ab] = LS!Distance(ab[1], ab[2])
        BY HalvedIs
      <3> QED BY <2>1, <3>1 DEF Close, LS!Eps
    <2> HIDE DEF Reaches, m
    <2> QED BY <1>5, <2>1
  <1>8. ASSUME NEW n \in Nat, n \in T
        PROVE  n + 1 \in T
    <2> SUFFICES ASSUME NEW ab \in I, m[ab] <= n + 1
                 PROVE  \E end \in I : Reaches(ab, end)
      <3> HIDE DEF Reaches, m
      <3> QED OBVIOUS
    <2>1. CASE Close(ab) \/ LS!Halved(g, l, ab) = ab
      <3> HIDE DEF Reaches
      <3> QED BY <1>5, <2>1
    <2>2. CASE ~(Close(ab) \/ LS!Halved(g, l, ab) = ab)
      <3> DEFINE to == LS!Halved(g, l, ab)
      <3>1. to \in I /\ LS!Distance(to[1], to[2]) < LS!Distance(ab[1], ab[2])
        BY <2>2, HalvedIsCloser
      <3>2. f[ab] = f[to]
        BY <1>6, <2>2
      <3>3. m[to] < m[ab] /\ m[to] \in Nat /\ m[ab] \in Nat
        <4> HIDE DEF to
        <4>1. to \in D /\ ab \in D
          BY <3>1
        <4> QED BY <1>2, <3>1, <4>1
      <3> HIDE DEF to, m
      <3>4. PICK end \in I : Reaches(to, end)
        BY <1>8, <3>1, <3>3
      <3> QED BY <3>2, <3>4
    <2> QED BY <2>1, <2>2
  <1> HIDE DEF T
  <1>9. \A n \in Nat : n \in T
    BY <1>7, <1>8, Powers!NatSetInduction
  <1>10. \E end \in I : Reaches(<<low, high>>, end)
    <2>1. m[<<low, high>>] \in Nat
      BY <1>2
    <2> HIDE DEF m, Reaches
    <2> QED BY <1>9, <2>1 DEF T
  <1>11. PICK end \in I : Reaches(<<low, high>>, end)
    BY <1>10
  <1>12. LS!Bisect(g, l, low, high) = [ends |-> Close(end), low |-> end[1], high |-> end[2]]
    BY <1>1, <1>11
  <1>13. Close(end) \/ LS!Halved(g, l, end) = end
    BY <1>11
  <1> QED BY <1>12, <1>13

(* What the bisection finds between two places a and b of the graph.       *)
EndsWell(g, l, f) ==
  /\ f.ends \in BOOLEAN
  /\ f.ends => LS!IsCrossing(g, l, f)
  /\ ~f.ends => LS!Touches(g, l)

LEMMA BisectBetween ==
  ASSUME NEW g, IsGraph(g), NEW l \in LevelType,
         NEW a \in Span(g), NEW b \in Span(g), NEW low \in a..b, NEW high \in a..b,
         LS!Below(g, low, l) \/ low = LS!First(g),
         LS!Above(g, high, l) \/ high = LS!Last(g)
  PROVE  LET f == LS!Bisect(g, l, low, high)
         IN  EndsWell(g, l, f) /\ f.low \in a..b /\ f.high \in a..b
  <1> DEFINE Low(x) == LS!Below(g, x, l) \/ x = LS!First(g)
             High(x) == LS!Above(g, x, l) \/ x = LS!Last(g)
             I == {ab \in (a..b) \X (a..b) : Low(ab[1]) /\ High(ab[2])}
             f == LS!Bisect(g, l, low, high)
  <1>1. a \in Int /\ b \in Int /\ a..b \subseteq Span(g) /\ a..b \subseteq Int
    <2>1. a \in Int /\ b \in Int /\ LS!First(g) \in Int /\ LS!Last(g) \in Int
      BY SpanFacts
    <2> QED BY <2>1 DEF Span
  <1>2. \A x \in a..b : LS!Height(g, x, l) \in Int
    BY <1>1, HeightType
  <1>3. ASSUME NEW ab \in I
        PROVE  /\ ab \in Int \X Int
               /\ Middle(ab) \in a..b
               /\ LS!Height(g, Middle(ab), l) \in Int
               /\ ab = <<ab[1], ab[2]>>
    <2>1. ab[1] \in a..b /\ ab[2] \in a..b /\ ab = <<ab[1], ab[2]>> /\ ab \in Int \X Int
      BY <1>1
    <2>2. Middle(ab) \in Int
      BY <1>1, <2>1, MiddleFacts DEF Middle
    <2>3. Middle(ab) \in a..b
      <3> DEFINE u == ab[1]
                 v == ab[2]
      <3>1. u \in a..b /\ v \in a..b /\ u \in Int /\ v \in Int
        BY <1>1, <2>1
      <3> HIDE DEF u, v
      <3>2. (u + v) \div 2 \in a..b
        BY <1>1, <3>1, MiddleFacts
      <3> QED BY <3>2 DEF Middle, u, v
    <2> QED BY <1>2, <2>1, <2>3
  <1>4. ASSUME NEW ab \in I, ~Close(ab)
        PROVE  LS!Halved(g, l, ab) \in I
    <2> DEFINE m == Middle(ab)
               h == LS!Height(g, m, l)
    <2>1. /\ ab[1] \in a..b /\ ab[2] \in a..b /\ Low(ab[1]) /\ High(ab[2])
          /\ m \in a..b /\ h \in Int
      BY <1>3
    <2>2. LS!Halved(g, l, ab) = IF h = 0 THEN ab
                                ELSE IF h < 0 THEN <<m, ab[2]>> ELSE <<ab[1], m>>
      BY DEF LS!Halved, LS!MovesLow, Middle
    <2>3. CASE h = 0
      BY <2>2, <2>3
    <2>4. CASE h < 0
      <3>1. LS!Below(g, m, l)
        BY <2>4 DEF LS!Below
      <3> HIDE DEF m
      <3>2. LS!Halved(g, l, ab) = <<m, ab[2]>>
        BY <2>1, <2>2, <2>4
      <3> QED BY <2>1, <3>1, <3>2
    <2>5. CASE h > 0
      <3>1. LS!Above(g, m, l)
        BY <2>5 DEF LS!Above
      <3> HIDE DEF m
      <3>2. LS!Halved(g, l, ab) = <<ab[1], m>>
        BY <2>1, <2>2, <2>5
      <3> QED BY <2>1, <3>1, <3>2
    <2> QED BY <2>1, <2>3, <2>4, <2>5
  <1>5. I \in SUBSET (Int \X Int) /\ <<low, high>> \in I
    BY <1>1
  <1> HIDE DEF I
  <1>6. PICK end \in I : /\ f = [ends |-> Close(end), low |-> end[1], high |-> end[2]]
                         /\ Close(end) \/ LS!Halved(g, l, end) = end
    BY <1>4, <1>5, BisectKeeps
  <1>7. f.ends = Close(end) /\ f.low = end[1] /\ f.high = end[2] /\ f.ends \in BOOLEAN
    BY <1>6 DEF Close
  <1> HIDE DEF f
  <1>8. f.low \in a..b /\ f.high \in a..b /\ Low(f.low) /\ High(f.high)
    BY <1>7 DEF I
  <1>9. f.low \in Int /\ f.high \in Int /\ LS!First(g) \in Int /\ LS!Last(g) \in Int
    BY <1>1, <1>8, SpanFacts
  <1>10. ASSUME f.ends PROVE LS!IsCrossing(g, l, f)
    <2>1. CASE LS!Below(g, f.low, l) /\ LS!Above(g, f.high, l)
      BY <2>1 DEF LS!IsCrossing
    <2>2. CASE f.low = LS!First(g)
      <3>1. LS!Distance(f.low, LS!First(g)) <= LS!Eps
        BY <1>9, <2>2 DEF LS!Distance, LS!Eps
      <3> QED BY <3>1 DEF LS!IsCrossing
    <2>3. CASE f.high = LS!Last(g)
      <3>1. LS!Distance(f.low, LS!Last(g)) <= LS!Eps
        BY <1>7, <1>10, <2>3 DEF Close
      <3> QED BY <3>1 DEF LS!IsCrossing
    <2> QED BY <1>8, <2>1, <2>2, <2>3
  <1>11. ASSUME ~f.ends PROVE LS!Touches(g, l)
    <2> DEFINE m == Middle(end)
    <2>1. ~Close(end) /\ LS!Halved(g, l, end) = end
      BY <1>6, <1>7, <1>11
    <2>2. m \in a..b /\ end[1] \in Int /\ end[2] \in Int /\ end = <<end[1], end[2]>>
      BY <1>3, HalvedIs
    <2>3. m # end[1] /\ m # end[2]
      BY <2>1, <2>2, MiddleFacts DEF Close, Middle
    <2>4. LS!Height(g, m, l) = 0
      <3> SUFFICES ASSUME LS!Height(g, m, l) # 0 PROVE FALSE
        OBVIOUS
      <3>1. end \in {<<m, end[2]>>, <<end[1], m>>}
        BY <2>1 DEF LS!Halved, Middle
      <3> HIDE DEF m
      <3> QED BY <2>2, <2>3, <3>1
    <2> HIDE DEF m
    <2> QED BY <1>1, <2>2, <2>4 DEF LS!Touches, Span
  <1> QED BY <1>7, <1>8, <1>10, <1>11 DEF EndsWell, f

(* The coarse scan.                                                        *)
LEMMA LeastOf ==
  ASSUME NEW S, S \subseteq Nat, S # {}
  PROVE  LS!Min(S) \in S /\ \A k \in S : LS!Min(S) <= k
  <1>1. \E n \in S : \A k \in S : n <= k
    BY Powers!NatLeast
  <1> QED BY <1>1 DEF LS!Min

LEMMA GreatestOf ==
  ASSUME NEW S, S \subseteq Int, IsFiniteSet(S), S # {}
  PROVE  LS!Max(S) \in S
  <1>1. PICK m \in S : \A k \in S : k <= m
    BY GreatestExists
  <1>2. \A k \in S : m >= k
    BY <1>1
  <1> QED BY <1>2 DEF LS!Max

Scanned(scan, places, stops, others, stop_end, other_end) ==
  /\ \/ stops = {} /\ scan.stop = stop_end
     \/ \E s \in stops : scan.stop = places[s] /\ \A k \in stops : s <= k
  /\ \/ (\A k \in others : \E s \in stops : ~(k < s)) /\ scan.other = other_end
     \/ \E k \in others : scan.other = places[k] /\ \A s \in stops : k < s

LEMMA CoarseScanFacts ==
  ASSUME NEW places, NEW n \in Nat, NEW stops, NEW others, NEW stop_end, NEW other_end,
         stops \subseteq 1..n, others \subseteq 1..n
  PROVE  Scanned(LS!CoarseScan(places, stops, others, stop_end, other_end),
                 places, stops, others, stop_end, other_end)
  <1> DEFINE scan == LS!CoarseScan(places, stops, others, stop_end, other_end)
             seen == {k \in others : \A s \in stops : k < s}
  <1>1. scan = [stop |-> IF stops = {} THEN stop_end ELSE places[LS!Min(stops)],
                other |-> IF seen = {} THEN other_end ELSE places[LS!Max(seen)]]
    BY DEF LS!CoarseScan
  <1> HIDE DEF scan
  <1>0. /\ stops \subseteq Nat
        /\ seen \subseteq 1..n /\ seen \subseteq Int
    <2>1. 1..n \subseteq Nat /\ 1..n \subseteq Int
      OBVIOUS
    <2>2. seen \subseteq others
      OBVIOUS
    <2> HIDE DEF seen
    <2> QED BY ONLY <2>1, <2>2, stops \subseteq 1..n, others \subseteq 1..n
  <1>2. \/ stops = {} /\ scan.stop = stop_end
        \/ \E s \in stops : scan.stop = places[s] /\ \A k \in stops : s <= k
    <2>1. CASE stops = {}
      BY <1>1, <2>1
    <2>2. CASE stops # {}
      <3>1. LS!Min(stops) \in stops /\ \A k \in stops : LS!Min(stops) <= k
        BY <1>0, <2>2, LeastOf
      <3> QED BY <1>1, <2>2, <3>1
    <2> QED BY <2>1, <2>2
  <1>3. \/ (\A k \in others : \E s \in stops : ~(k < s)) /\ scan.other = other_end
        \/ \E k \in others : scan.other = places[k] /\ \A s \in stops : k < s
    <2>1. CASE seen = {}
      BY <1>1, <2>1
    <2>2. CASE seen # {}
      <3>1. IsFiniteSet(seen)
        <4>1. IsFiniteSet(1..n) /\ seen \subseteq 1..n
          BY <1>0, FS_Interval
        <4> QED BY <4>1, FS_Subset
      <3>2. LS!Max(seen) \in seen
        <4> HIDE DEF seen
        <4> QED BY <1>0, <2>2, <3>1, GreatestOf
      <3> QED BY <1>1, <2>2, <3>2
    <2> QED BY <2>1, <2>2
  <1> QED BY <1>2, <1>3 DEF Scanned, scan

(* The search of the FeldmanCousinsProfiler.                               *)
LEMMA RiseFacts ==
  ASSUME NEW g, IsGraph(g), NEW l \in LevelType, NEW d \in {1, -1}
  PROVE  LET f == LS!FindRise(g, l, d)
         IN  /\ EndsWell(g, l, f)
             /\ (LS!Below(g, LS!Last(g), l) /\ d = 1) =>
                  \A x \in LS!Looked(g, d) : LS!Above(g, x, l) => LS!NotRightOf(f, x)
             /\ (LS!Below(g, LS!Last(g), l) /\ d = -1) =>
                  \A x \in LS!Looked(g, d) : LS!Above(g, x, l) => LS!NotLeftOf(f, x)
  <1> DEFINE places == LS!Places(g, d)
             dom == DOMAIN places
             first == LS!First(g)
             last == LS!Last(g)
             stops == LS!AboveAt(g, l, places)
             others == LS!BelowAt(g, l, places)
             scan == LS!CoarseScan(places, stops, others, last, first)
             f == LS!FindRise(g, l, d)
  <1>1. f = LS!Bisect(g, l, scan.other, scan.stop)
    BY DEF LS!FindRise
  <1>2. /\ stops = {k \in dom : LS!Above(g, places[k], l)}
        /\ others = {k \in dom : LS!Below(g, places[k], l)}
    BY DEF LS!AboveAt, LS!BelowAt
  <1>3. /\ dom = {} \/ (dom = 1..Steps /\ 1 \in dom /\ places[1] = IF d > 0 THEN first ELSE last)
        /\ \A k \in dom : places[k] \in Span(g)
        /\ \A j, k \in dom : j <= k => IF d > 0 THEN places[j] <= places[k]
                                               ELSE places[k] <= places[j]
    BY PlacesFacts
  <1>4. /\ first \in Int /\ last \in Int /\ Span(g) = first..last
        /\ first \in Span(g) /\ last \in Span(g) /\ Steps \in Nat
    BY SpanFacts, FeldmanCousinsAssumption DEF Span
  <1>5. LS!Looked(g, d) = {places[k] : k \in dom}
    BY DEF LS!Looked
  <1> HIDE DEF places, dom, stops, others, f, first, last
  <1>6. dom \subseteq 1..Steps /\ stops \subseteq 1..Steps /\ others \subseteq 1..Steps
    BY <1>2, <1>3
  <1>7. /\ \/ stops = {} /\ scan.stop = last
           \/ \E s \in stops : scan.stop = places[s] /\ \A k \in stops : s <= k
        /\ \/ (\A k \in others : \E s \in stops : ~(k < s)) /\ scan.other = first
           \/ \E k \in others : scan.other = places[k] /\ \A s \in stops : k < s
    <2>1. Scanned(scan, places, stops, others, last, first)
      BY <1>4, <1>6, CoarseScanFacts
    <2> QED BY <2>1 DEF Scanned
  <1> HIDE DEF scan
  <1> DEFINE low == scan.other
             high == scan.stop
  <1>8. /\ low \in Span(g) /\ high \in Span(g)
        /\ LS!Below(g, low, l) \/ low = first
        /\ LS!Above(g, high, l) \/ high = last
    BY <1>2, <1>3, <1>4, <1>7
  <1> HIDE DEF low, high
  <1>9. f = LS!Bisect(g, l, low, high)
    BY <1>1 DEF low, high
  <1>10. EndsWell(g, l, f)
    <2>1. low \in first..last /\ high \in first..last
      BY <1>4, <1>8
    <2> QED BY <1>4, <1>8, <1>9, <2>1, BisectBetween DEF first, last
  <1>11. ASSUME d = 1, NEW x \in LS!Looked(g, d), LS!Above(g, x, l)
         PROVE  LS!NotRightOf(f, x)
    <2>1. PICK k \in stops : x = places[k]
      BY <1>2, <1>5, <1>11
    <2>2. PICK s \in stops : high = places[s] /\ \A j \in stops : s <= j
      BY <1>7, <2>1 DEF high
    <2>3. high <= x /\ x \in Int /\ high \in Int
      <3>1. s <= k /\ s \in dom /\ k \in dom
        BY <1>2, <2>1, <2>2
      <3> QED BY <1>3, <1>4, <1>11, <2>1, <2>2, <3>1
    <2>4. low <= high
      <3>1. CASE low = first
        BY <1>4, <1>8, <3>1
      <3>2. CASE low # first
        <4>1. PICK j \in others : low = places[j] /\ j < s
          BY <1>7, <2>2, <3>2 DEF low
        <4>2. j \in dom /\ s \in dom /\ j \in Int /\ s \in Int /\ j <= s
          BY <1>2, <1>6, <2>2, <4>1
        <4> QED BY <1>3, <1>11, <2>2, <4>1, <4>2
      <3> QED BY <3>1, <3>2
    <2>5. low \in first..high /\ high \in first..high
      BY <1>4, <1>8, <2>4
    <2>6. f.low \in first..high
      BY <1>4, <1>8, <1>9, <2>5, BisectBetween DEF first, last
    <2>7. f.low <= x + LS!Eps
      BY <1>4, <2>3, <2>6 DEF LS!Eps
    <2> QED BY <2>7 DEF LS!NotRightOf
  <1>12. ASSUME d = -1, LS!Below(g, last, l), NEW x \in LS!Looked(g, d), LS!Above(g, x, l)
         PROVE  LS!NotLeftOf(f, x)
    <2>1. PICK k \in stops : x = places[k]
      BY <1>2, <1>5, <1>12
    <2>2. PICK s \in stops : high = places[s] /\ \A j \in stops : s <= j
      BY <1>7, <2>1 DEF high
    <2>3. x <= high /\ x \in Int /\ high \in Int
      <3>1. s <= k /\ s \in dom /\ k \in dom
        BY <1>2, <2>1, <2>2
      <3> QED BY <1>3, <1>4, <1>12, <2>1, <2>2, <3>1
    <2>4. 1 \in others /\ 1 < s
      <3>1. 1 \in dom /\ places[1] = last
        BY <1>2, <1>3, <1>12, <2>1
      <3>2. LS!Height(g, last, l) \in Int
        BY <1>4, HeightType
      <3>3. ~LS!Above(g, last, l)
        BY <1>12, <3>2 DEF LS!Above, LS!Below
      <3>4. 1 \in others /\ 1 \notin stops
        BY <1>2, <1>12, <3>1, <3>3
      <3>5. s \in 1..Steps /\ s # 1
        BY <1>6, <2>2, <3>4
      <3> QED BY <1>4, <3>4, <3>5
    <2>5. PICK j \in others : low = places[j] /\ j < s
      <3>1. \A i \in stops : s <= i /\ i \in Int /\ s \in Int
        BY <1>6, <2>2
      <3>2. \A i \in stops : 1 < i
        BY <2>4, <3>1
      <3>3. ~(\A i \in others : \E t \in stops : ~(i < t))
        BY <2>4, <3>2
      <3> QED BY <1>7, <2>2, <3>3 DEF low
    <2>6. high <= low
      <3>1. j \in dom /\ s \in dom /\ j \in Int /\ s \in Int /\ j <= s
        BY <1>2, <1>6, <2>2, <2>5
      <3> QED BY <1>3, <1>12, <2>2, <2>5, <3>1
    <2>7. low \in high..last /\ high \in high..last
      BY <1>4, <1>8, <2>3, <2>6
    <2>8. f.low \in high..last
      BY <1>4, <1>8, <1>9, <2>7, BisectBetween DEF first, last
    <2>9. f.low >= x - LS!Eps
      BY <1>4, <2>3, <2>8 DEF LS!Eps
    <2> QED BY <2>9 DEF LS!NotLeftOf
  <1> QED BY <1>10, <1>11, <1>12 DEF f, last

(* The search of the LikelihoodProfiler.                                   *)
LEMMA FallFacts ==
  ASSUME NEW g, IsGraph(g), NEW l \in LevelType, NEW d \in {1, -1}
  PROVE  LET f == LS!FindFall(g, l, d)
         IN  /\ EndsWell(g, l, f)
             /\ (LS!Above(g, LS!First(g), l) /\ d = 1) =>
                  \A x \in LS!Looked(g, d) : LS!Below(g, x, l) => LS!NotRightOf(f, x)
             /\ (LS!Above(g, LS!First(g), l) /\ d = -1) =>
                  \A x \in LS!Looked(g, d) : LS!Below(g, x, l) => LS!NotLeftOf(f, x)
  <1> DEFINE places == LS!Places(g, d)
             dom == DOMAIN places
             first == LS!First(g)
             last == LS!Last(g)
             stops == LS!BelowAt(g, l, places)
             others == LS!AboveAt(g, l, places)
             scan == LS!CoarseScan(places, stops, others, first, last)
             f == LS!FindFall(g, l, d)
  <1>1. f = LS!Bisect(g, l, scan.stop, scan.other)
    BY DEF LS!FindFall
  <1>2. /\ stops = {k \in dom : LS!Below(g, places[k], l)}
        /\ others = {k \in dom : LS!Above(g, places[k], l)}
    BY DEF LS!AboveAt, LS!BelowAt
  <1>3. /\ dom = {} \/ (dom = 1..Steps /\ 1 \in dom /\ places[1] = IF d > 0 THEN first ELSE last)
        /\ \A k \in dom : places[k] \in Span(g)
        /\ \A j, k \in dom : j <= k => IF d > 0 THEN places[j] <= places[k]
                                               ELSE places[k] <= places[j]
    BY PlacesFacts
  <1>4. /\ first \in Int /\ last \in Int /\ Span(g) = first..last
        /\ first \in Span(g) /\ last \in Span(g) /\ Steps \in Nat
    BY SpanFacts, FeldmanCousinsAssumption DEF Span
  <1>5. LS!Looked(g, d) = {places[k] : k \in dom}
    BY DEF LS!Looked
  <1> HIDE DEF places, dom, stops, others, f, first, last
  <1>6. dom \subseteq 1..Steps /\ stops \subseteq 1..Steps /\ others \subseteq 1..Steps
    BY <1>2, <1>3
  <1>7. /\ \/ stops = {} /\ scan.stop = first
           \/ \E s \in stops : scan.stop = places[s] /\ \A k \in stops : s <= k
        /\ \/ (\A k \in others : \E s \in stops : ~(k < s)) /\ scan.other = last
           \/ \E k \in others : scan.other = places[k] /\ \A s \in stops : k < s
    <2>1. Scanned(scan, places, stops, others, first, last)
      BY <1>4, <1>6, CoarseScanFacts
    <2> QED BY <2>1 DEF Scanned
  <1> HIDE DEF scan
  <1> DEFINE low == scan.stop
             high == scan.other
  <1>8. /\ low \in Span(g) /\ high \in Span(g)
        /\ LS!Below(g, low, l) \/ low = first
        /\ LS!Above(g, high, l) \/ high = last
    BY <1>2, <1>3, <1>4, <1>7
  <1> HIDE DEF low, high
  <1>9. f = LS!Bisect(g, l, low, high)
    BY <1>1 DEF low, high
  <1>10. EndsWell(g, l, f)
    <2>1. low \in first..last /\ high \in first..last
      BY <1>4, <1>8
    <2> QED BY <1>4, <1>8, <1>9, <2>1, BisectBetween DEF first, last
  <1>11. ASSUME d = 1, LS!Above(g, first, l), NEW x \in LS!Looked(g, d), LS!Below(g, x, l)
         PROVE  LS!NotRightOf(f, x)
    <2>1. PICK k \in stops : x = places[k]
      BY <1>2, <1>5, <1>11
    <2>2. PICK s \in stops : low = places[s] /\ \A j \in stops : s <= j
      BY <1>7, <2>1 DEF low
    <2>3. low <= x /\ x \in Int /\ low \in Int
      <3>1. s <= k /\ s \in dom /\ k \in dom
        BY <1>2, <2>1, <2>2
      <3> QED BY <1>3, <1>4, <1>11, <2>1, <2>2, <3>1
    <2>4. 1 \in others /\ 1 < s
      <3>1. 1 \in dom /\ places[1] = first
        BY <1>2, <1>3, <1>11, <2>1
      <3>2. LS!Height(g, first, l) \in Int
        BY <1>4, HeightType
      <3>3. ~LS!Below(g, first, l)
        BY <1>11, <3>2 DEF LS!Above, LS!Below
      <3>4. 1 \in others /\ 1 \notin stops
        BY <1>2, <1>11, <3>1, <3>3
      <3>5. s \in 1..Steps /\ s # 1
        BY <1>6, <2>2, <3>4
      <3> QED BY <1>4, <3>4, <3>5
    <2>5. PICK j \in others : high = places[j] /\ j < s
      <3>1. \A i \in stops : s <= i /\ i \in Int /\ s \in Int
        BY <1>6, <2>2
      <3>2. \A i \in stops : 1 < i
        BY <2>4, <3>1
      <3>3. ~(\A i \in others : \E t \in stops : ~(i < t))
        BY <2>4, <3>2
      <3> QED BY <1>7, <2>2, <3>3 DEF high
    <2>6. high <= low
      <3>1. j \in dom /\ s \in dom /\ j \in Int /\ s \in Int /\ j <= s
        BY <1>2, <1>6, <2>2, <2>5
      <3> QED BY <1>3, <1>11, <2>2, <2>5, <3>1
    <2>7. low \in first..low /\ high \in first..low
      BY <1>4, <1>8, <2>3, <2>6
    <2>8. f.low \in first..low
      BY <1>4, <1>8, <1>9, <2>7, BisectBetween DEF first, last
    <2>9. f.low <= x + LS!Eps
      BY <1>4, <2>3, <2>8 DEF LS!Eps
    <2> QED BY <2>9 DEF LS!NotRightOf
  <1>12. ASSUME d = -1, NEW x \in LS!Looked(g, d), LS!Below(g, x, l)
         PROVE  LS!NotLeftOf(f, x)
    <2>1. PICK k \in stops : x = places[k]
      BY <1>2, <1>5, <1>12
    <2>2. PICK s \in stops : low = places[s] /\ \A j \in stops : s <= j
      BY <1>7, <2>1 DEF low
    <2>3. x <= low /\ x \in Int /\ low \in Int
      <3>1. s <= k /\ s \in dom /\ k \in dom
        BY <1>2, <2>1, <2>2
      <3> QED BY <1>3, <1>4, <1>12, <2>1, <2>2, <3>1
    <2>4. low <= high
      <3>1. CASE high = last
        BY <1>4, <1>8, <3>1
      <3>2. CASE high # last
        <4>1. PICK j \in others : high = places[j] /\ j < s
          BY <1>7, <2>2, <3>2 DEF high
        <4>2. j \in dom /\ s \in dom /\ j \in Int /\ s \in Int /\ j <= s
          BY <1>2, <1>6, <2>2, <4>1
        <4> QED BY <1>3, <1>12, <2>2, <4>1, <4>2
      <3> QED BY <3>1, <3>2
    <2>5. low \in low..last /\ high \in low..last
      BY <1>4, <1>8, <2>3, <2>4
    <2>6. f.low \in low..last
      BY <1>4, <1>8, <1>9, <2>5, BisectBetween DEF first, last
    <2>7. f.low >= x - LS!Eps
      BY <1>4, <2>3, <2>6 DEF LS!Eps
    <2> QED BY <2>7 DEF LS!NotLeftOf
  <1> QED BY <1>10, <1>11, <1>12 DEF f, first

-----------------------------------------------------------------------------
(* The LikelihoodProfiler's instance of the search is the same.            *)
LEMMA SameSearch ==
  ASSUME NEW g, NEW l, NEW d
  PROVE  LP!LS!FindFall(g, l, d) = LS!FindFall(g, l, d)
  BY DEF LP!LS!FindFall, LS!FindFall, LP!LS!Places, LS!Places, LP!LS!CoarseScan,
         LS!CoarseScan, LP!LS!BelowAt, LS!BelowAt, LP!LS!AboveAt, LS!AboveAt, LP!LS!Below,
         LS!Below, LP!LS!Above, LS!Above, LP!LS!Height, LS!Height, LP!LS!First, LS!First,
         LP!LS!Last, LS!Last, LP!LS!Min, LS!Min, LP!LS!Max, LS!Max, LP!LS!Bisect, LS!Bisect,
         LP!LS!Halved, LS!Halved, LP!LS!MovesLow, LS!MovesLow, LP!LS!Distance, LS!Distance,
         LP!LS!Eps, LS!Eps

LEMMA SameTerms ==
  ASSUME NEW g, NEW l, NEW d, NEW f, NEW x
  PROVE  /\ LP!LS!Looked(g, d) = LS!Looked(g, d)
         /\ LP!LS!Above(g, x, l) = LS!Above(g, x, l)
         /\ LP!LS!Below(g, x, l) = LS!Below(g, x, l)
         /\ LP!LS!First(g) = LS!First(g)
         /\ LP!LS!NotRightOf(f, x) = LS!NotRightOf(f, x)
         /\ LP!LS!NotLeftOf(f, x) = LS!NotLeftOf(f, x)
         /\ LP!LS!IsCrossing(g, l, f) = LS!IsCrossing(g, l, f)
         /\ LP!LS!Touches(g, l) = LS!Touches(g, l)
  BY DEF LP!LS!Looked, LS!Looked, LP!LS!Places, LS!Places, LP!LS!Below, LS!Below, LP!LS!Above,
         LS!Above, LP!LS!Height, LS!Height, LP!LS!First, LS!First, LP!LS!Last, LS!Last,
         LP!LS!Distance, LS!Distance, LP!LS!Eps, LS!Eps, LP!LS!NotRightOf, LS!NotRightOf,
         LP!LS!NotLeftOf, LS!NotLeftOf, LP!LS!IsCrossing, LS!IsCrossing, LP!LS!Touches,
         LS!Touches

LEMMA SameAscending ==
  ASSUME NEW S
  PROVE  LP!LS!Ascending(S) = LS!Ascending(S)
  BY DEF LP!LS!Ascending, LS!Ascending, LP!LS!Cardinality, LS!Cardinality

-----------------------------------------------------------------------------
(* The types of the FeldmanCousinsProfiler, and its graph.                 *)

(* A sum of natural numbers is one, and is 0 only if all of them are.      *)
SumStep(f, sum, s) ==
  IF s = {} THEN 0 ELSE f[CHOOSE x \in s : TRUE] + sum[s \ {CHOOSE x \in s : TRUE}]

Sums == INSTANCE FoldFacts WITH op <- SumStep

LEMMA SumFacts ==
  ASSUME NEW S, IsFiniteSet(S), NEW f \in [S -> Nat]
  PROVE  SumFunction(f) \in Nat /\ (SumFunction(f) = 0 <=> \A x \in S : f[x] = 0)
  <1> DEFINE D == SUBSET S
             m == [s \in D |-> Cardinality(s)]
             g == CHOOSE h : h = [s \in D |-> SumStep(f, h, s)]
             Ok(s) == g[s] \in Nat /\ (g[s] = 0 <=> \A x \in s : f[x] = 0)
  <1>1. SumFunction(f) = g[S]
    <2>1. DOMAIN f = S
      OBVIOUS
    <2> QED BY <2>1 DEF SumFunction, SumFunctionOnSet, FoldFunctionOnSet, MapThenFoldSet, SumStep
  <1>2. \A s \in D : IsFiniteSet(s) /\ Cardinality(s) \in Nat
    BY FS_Subset, FS_CardinalityType
  <1>3. m \in [D -> Nat]
    BY <1>2
  <1>4. \A s \in D : s # {} =>
          LET x == CHOOSE x \in s : TRUE
          IN  x \in s /\ s \ {x} \in D /\ Cardinality(s \ {x}) = Cardinality(s) - 1
    <2> SUFFICES ASSUME NEW s \in D, s # {}
                 PROVE  LET x == CHOOSE x \in s : TRUE
                        IN  x \in s /\ s \ {x} \in D
                            /\ Cardinality(s \ {x}) = Cardinality(s) - 1
      OBVIOUS
    <2> DEFINE x == CHOOSE x \in s : TRUE
    <2>1. x \in s
      OBVIOUS
    <2> HIDE DEF x
    <2>2. Cardinality(s \ {x}) = Cardinality(s) - 1
      BY <1>2, <2>1, FS_RemoveElement
    <2> QED BY <2>1, <2>2 DEF x
  <1>5. Sums!GoesDown(f, D, m)
    <2> SUFFICES ASSUME NEW s \in D, NEW h, NEW k, \A t \in D : m[t] < m[s] => h[t] = k[t]
                 PROVE  SumStep(f, h, s) = SumStep(f, k, s)
      BY DEF Sums!GoesDown
    <2>1. CASE s = {}
      BY <2>1 DEF SumStep
    <2>2. CASE s # {}
      <3> DEFINE t == s \ {CHOOSE x \in s : TRUE}
      <3>1. t \in D /\ m[t] < m[s]
        BY <1>2, <1>4, <2>2
      <3> HIDE DEF t
      <3>2. h[t] = k[t]
        BY <3>1
      <3> QED BY <2>2, <3>2 DEF SumStep, t
    <2> QED BY <2>1, <2>2
  <1>6. g = [s \in D |-> SumStep(f, g, s)]
    <2> HIDE DEF D, m
    <2>1. g = CHOOSE h : h = [s \in D |-> SumStep(f, h, s)]
      OBVIOUS
    <2> HIDE DEF g
    <2> QED BY <1>3, <1>5, <2>1, Sums!RecursionByMeasure
  <1> HIDE DEF g
  <1> DEFINE T == {n \in Nat : \A s \in D : Cardinality(s) = n => Ok(s)}
  <1>7. 0 \in T
    <2>1. ASSUME NEW s \in D, Cardinality(s) = 0
          PROVE  Ok(s)
      <3>1. s = {}
        BY <1>2, <2>1, FS_EmptySet
      <3>2. g[s] = 0
        BY <1>6, <3>1 DEF SumStep
      <3> QED BY <3>1, <3>2
    <2> QED BY <2>1
  <1>8. ASSUME NEW n \in Nat, n \in T
        PROVE  n + 1 \in T
    <2>1. ASSUME NEW s \in D, Cardinality(s) = n + 1
          PROVE  Ok(s)
      <3> DEFINE x == CHOOSE x \in s : TRUE
                 t == s \ {x}
      <3>1. s # {}
        BY <2>1, FS_EmptySet
      <3>2. x \in s /\ t \in D /\ Cardinality(t) = n
        BY <1>4, <2>1, <3>1
      <3>3. g[s] = f[x] + g[t]
        BY <1>6, <3>1 DEF SumStep
      <3>4. f[x] \in Nat
        BY <3>2
      <3>5. s = t \cup {x}
        BY <3>2
      <3> HIDE DEF x, t
      <3>6. g[t] \in Nat /\ (g[t] = 0 <=> \A y \in t : f[y] = 0)
        BY <1>8, <3>2
      <3>7. g[s] \in Nat /\ (g[s] = 0 <=> f[x] = 0 /\ g[t] = 0)
        BY <3>3, <3>4, <3>6
      <3> QED BY <3>5, <3>6, <3>7
    <2> HIDE DEF Ok
    <2> QED BY <2>1
  <1> HIDE DEF T
  <1>9. \A n \in Nat : n \in T
    BY <1>7, <1>8, Powers!NatSetInduction
  <1>10. Ok(S)
    <2>1. S \in D /\ Cardinality(S) \in T
      BY <1>2, <1>9
    <2> HIDE DEF Ok
    <2> QED BY <2>1 DEF T
  <1> QED BY <1>1, <1>10

-----------------------------------------------------------------------------
(* The FeldmanCousinsProfiler's types.                                     *)
LEMMA KeptFinite == IsFiniteSet(Kept) /\ Kept \subseteq Int
  BY FeldmanCousinsAssumption, FS_Subset DEF Kept

LEMMA FCTypeInit == FCInit => FCTypeOK
  <1> SUFFICES ASSUME FCInit PROVE FCTypeOK
    OBVIOUS
  <1>1. DOMAIN <<>> = {}
    OBVIOUS
  <1>2. toys \in Toys /\ ghost \in Ghost
    BY DEF FCInit, Toys, Ghost
  <1> QED BY <1>1, <1>2 DEF FCInit, FCTypeOK

LEMMA ProcessType ==
  ASSUME FCTypeOK, ProcessToyFitResult
  PROVE  toys' \in Toys /\ at' \in {at, "terminated"}
  <1>1. CASE toys' = toys
    BY <1>1 DEF FCTypeOK, ProcessToyFitResult
  <1>2. CASE toys' # toys
    <2>1. /\ at' = at
          /\ \E p \in ScanPoints, d \in Deltas :
               toys' = IF d < 0 THEN [toys EXCEPT !.neglected[p] = @ + 1]
                       ELSE [toys EXCEPT !.kept[<<p, d>>] = @ + 1]
      BY <1>2 DEF ProcessToyFitResult
    <2>2. PICK p \in ScanPoints, d \in Deltas :
            toys' = IF d < 0 THEN [toys EXCEPT !.neglected[p] = @ + 1]
                    ELSE [toys EXCEPT !.kept[<<p, d>>] = @ + 1]
      BY <2>1
    <2>3. toys \in Toys /\ d \in Int
      BY FeldmanCousinsAssumption DEF FCTypeOK
    <2>4. toys.kept \in [ScanPoints \X Kept -> Nat] /\ toys.neglected \in [ScanPoints -> Nat]
          /\ toys = [kept |-> toys.kept, neglected |-> toys.neglected]
      BY <2>3 DEF Toys
    <2>5. CASE d < 0
      <3>1. [toys.neglected EXCEPT ![p] = @ + 1] \in [ScanPoints -> Nat]
        BY <2>4
      <3>2. toys' = [kept |-> toys.kept, neglected |-> [toys.neglected EXCEPT ![p] = @ + 1]]
        BY <2>2, <2>4, <2>5
      <3> QED BY <2>1, <2>4, <3>1, <3>2 DEF Toys
    <2>6. CASE ~(d < 0)
      <3>1. <<p, d>> \in ScanPoints \X Kept
        BY <2>3, <2>6 DEF Kept
      <3>2. [toys.kept EXCEPT ![<<p, d>>] = @ + 1] \in [ScanPoints \X Kept -> Nat]
        BY <2>4, <3>1
      <3>3. toys' = [kept |-> [toys.kept EXCEPT ![<<p, d>>] = @ + 1],
                     neglected |-> toys.neglected]
        BY <2>2, <2>4, <2>6
      <3> QED BY <2>1, <2>4, <3>2, <3>3 DEF Toys
    <2> QED BY <2>5, <2>6
  <1> QED BY <1>1, <1>2

LEMMA FCTypeNext == FCTypeOK /\ [FCNext]_fc_vars => FCTypeOK'
  <1> SUFFICES ASSUME FCTypeOK, [FCNext]_fc_vars PROVE FCTypeOK'
    OBVIOUS
  <1> USE FeldmanCousinsAssumption
  <1>1. CASE ReadFitResultDataNominal
    BY <1>1 DEF ReadFitResultDataNominal, FCTypeOK, Ends
  <1>2. CASE BeginDataScan
    BY <1>2 DEF BeginDataScan, FCTypeOK
  <1>3. CASE DataScanTurn
    <2>1. CASE UNCHANGED <<delta, result, ghost>>
      BY <1>3, <2>1 DEF DataScanTurn, FCTypeOK, Ends
    <2>2. CASE \E p \in ScanPoints, nll \in DataNlls :
                 /\ delta' = WithDelta(p, nll)
                 /\ result' = WithResult(p, nll)
                 /\ ghost' = [ghost EXCEPT !.times[p] = @ + 1]
                 /\ UNCHANGED at
      <3>1. PICK p \in ScanPoints, nll \in DataNlls :
              /\ delta' = WithDelta(p, nll)
              /\ result' = WithResult(p, nll)
              /\ ghost' = [ghost EXCEPT !.times[p] = @ + 1]
              /\ UNCHANGED at
        BY <2>2
      <3>2. nll \in Int /\ nominal \in Int /\ nll - nominal \in Int
        BY DEF FCTypeOK
      <3>3. DOMAIN delta' = DOMAIN delta \cup {p} /\ DOMAIN delta' \subseteq ScanPoints
        BY <3>1 DEF FCTypeOK, WithDelta
      <3>4. \A q \in DOMAIN delta' : delta'[q] \in Int
        BY <3>1, <3>2, <3>3 DEF FCTypeOK, WithDelta
      <3>5. DOMAIN result' = DOMAIN result \cup {p} /\ DOMAIN result' \subseteq ScanPoints
        BY <3>1 DEF FCTypeOK, WithResult
      <3>6. \A q \in DOMAIN result' : result'[q] \in DataNlls
        BY <3>1, <3>5 DEF FCTypeOK, WithResult
      <3>7. ghost' \in Ghost
        <4>1. ghost.times \in [ScanPoints -> Nat] /\ ghost.last \in {"none", "pair", "single", "single_after_pair"}
              /\ ghost = [times |-> ghost.times, last |-> ghost.last]
          BY DEF FCTypeOK, Ghost
        <4>2. ghost' = [times |-> [ghost.times EXCEPT ![p] = @ + 1], last |-> ghost.last]
          BY <3>1, <4>1
        <4>3. [ghost.times EXCEPT ![p] = @ + 1] \in [ScanPoints -> Nat]
          BY <4>1
        <4> QED BY <4>1, <4>2, <4>3 DEF Ghost
      <3> QED BY <1>3, <3>1, <3>3, <3>4, <3>5, <3>6, <3>7 DEF DataScanTurn, FCTypeOK
    <2> QED BY <1>3, <2>1, <2>2 DEF DataScanTurn
  <1>4. CASE EndDataScan
    BY <1>4 DEF EndDataScan, FCTypeOK
  <1>5. CASE BeginToys
    BY <1>5 DEF BeginToys, FreshPointers, FCTypeOK
  <1>6. CASE ToyTurn
    <2>0. /\ UNCHANGED <<nominal, delta, result, intervals>>
          /\ ghost.last \in {"none", "pair", "single", "single_after_pair"}
          /\ ghost.times \in [ScanPoints -> Nat]
          /\ ghost = [times |-> ghost.times, last |-> ghost.last]
      BY <1>6 DEF ToyTurn, FCTypeOK, Ghost
    <2>1. CASE DeletedTwice
      BY <2>0, <2>1 DEF DeletedTwice, FCTypeOK, Ends
    <2>2. CASE /\ ProcessToyFitResult
               /\ copies' = IF at' = "toys" THEN "live" ELSE "null"
               /\ ghost' = [ghost EXCEPT !.last = "pair"]
      <3>1. toys' \in Toys /\ at' \in {at, "terminated"}
        BY <2>2, ProcessType
      <3>2. ghost' \in Ghost
        BY <2>0, <2>2 DEF Ghost
      <3> QED BY <2>0, <2>2, <3>1, <3>2 DEF FCTypeOK, Ends
    <2>3. CASE /\ copies' = IF copies = "null" THEN "null" ELSE "deleted"
               /\ ghost' = [ghost EXCEPT !.last =
                                IF @ \in {"pair", "single_after_pair"}
                                THEN "single_after_pair" ELSE "single"]
               /\ UNCHANGED <<at, toys>>
      <3>1. ghost' \in Ghost
        BY <2>0, <2>3 DEF Ghost
      <3>2. at = "toys"
        BY <1>6 DEF ToyTurn
      <3> QED BY <2>0, <2>3, <3>1, <3>2 DEF FCTypeOK
    <2> QED BY <1>6, <2>1, <2>2, <2>3 DEF ToyTurn
  <1>7. CASE EndToys
    BY <1>7 DEF EndToys, DeletedTwice, FCTypeOK, Ends
  <1>8. CASE EasyFitTurn
    <2>1. toys' \in Toys /\ at' \in {at, "terminated"} /\ at = "easyfit"
      BY <1>8, ProcessType DEF EasyFitTurn
    <2> QED BY <1>8, <2>1 DEF EasyFitTurn, FCTypeOK, Ends
  <1>9. CASE EndEasyFit
    <2>1. ghost' \in Ghost
      BY <1>9 DEF EndEasyFit, FCTypeOK, Ghost
    <2> QED BY <1>9, <2>1 DEF EndEasyFit, FCTypeOK
  <1>10. CASE PlotHandler
    <2>1. at' \in Ends /\ UNCHANGED <<nominal, delta, result, toys, copies, ghost>>
      BY <1>10 DEF PlotHandler, Ends
    <2>2. DOMAIN intervals' \subseteq DOMAIN Levels
      BY <1>10 DEF PlotHandler, FCTypeOK
    <2>3. at' # "toys" /\ copies = "null"
      BY <1>10, <2>1 DEF PlotHandler, FCTypeOK, Ends
    <2> QED BY <2>1, <2>2, <2>3 DEF FCTypeOK
  <1>11. CASE UNCHANGED fc_vars
    BY <1>11 DEF fc_vars, FCTypeOK
  <1> QED BY <1>1, <1>2, <1>3, <1>4, <1>5, <1>6, <1>7, <1>8, <1>9, <1>10, <1>11 DEF FCNext

(* Which points are plotted.                                               *)
LEMMA CountFacts ==
  ASSUME FCTypeOK, NEW p \in DOMAIN delta
  PROVE  /\ NumToys(p) \in Nat /\ NumToysExceed(p) \in Nat
         /\ NumToysExceed(p) = 0 <=>
              \A d \in Kept : d > delta[p] => toys.kept[<<p, d>>] = 0
  <1> DEFINE far == {e \in Kept : Exceeds(e, p)}
             all == [d \in Kept |-> toys.kept[<<p, d>>]]
             some == [d \in far |-> toys.kept[<<p, d>>]]
  <1>1. toys.kept \in [ScanPoints \X Kept -> Nat] /\ p \in ScanPoints
    BY DEF FCTypeOK, Toys
  <1>2. all \in [Kept -> Nat] /\ some \in [far -> Nat]
    BY <1>1
  <1>3. IsFiniteSet(Kept) /\ IsFiniteSet(far)
    <2>1. far \subseteq Kept
      OBVIOUS
    <2> HIDE DEF far
    <2> QED BY <2>1, KeptFinite, FS_Subset
  <1>4. SumFunction(all) \in Nat
    <2> HIDE DEF all
    <2> QED BY <1>2, <1>3, SumFacts
  <1>5. SumFunction(some) \in Nat /\ (SumFunction(some) = 0 <=> \A d \in far : some[d] = 0)
    <2> HIDE DEF some, far
    <2> QED BY <1>2, <1>3, SumFacts
  <1>6. (\A d \in far : some[d] = 0) <=> \A d \in Kept : d > delta[p] => toys.kept[<<p, d>>] = 0
    <2>1. \A d \in Kept : d \in far <=> d > delta[p]
      <3>1. delta[p] \in Int
        BY DEF FCTypeOK
      <3>2. \A d \in Kept : d \in Int
        BY KeptFinite
      <3> QED BY <3>1, <3>2 DEF Exceeds
    <2>2. \A d \in far : d \in Kept /\ some[d] = toys.kept[<<p, d>>]
      OBVIOUS
    <2> HIDE DEF far, some
    <2> QED BY <2>1, <2>2
  <1>7. NumToys(p) = SumFunction(all) /\ NumToysExceed(p) = SumFunction(some)
    BY DEF NumToys, NumToysExceed
  <1> QED BY <1>4, <1>5, <1>6, <1>7

LEMMA PlottedFinite ==
  ASSUME FCTypeOK
  PROVE  PlottedPoints \in SUBSET Int /\ IsFiniteSet(PlottedPoints)
         /\ PlottedPoints \subseteq DOMAIN delta
  <1>1. PlottedPoints \subseteq DOMAIN delta /\ DOMAIN delta \subseteq ScanPoints
    BY DEF PlottedPoints, FCTypeOK
  <1>2. PlottedPoints \subseteq ScanPoints
    BY <1>1
  <1> QED BY <1>1, <1>2, FeldmanCousinsAssumption, FS_Subset

LEMMA GraphFacts ==
  ASSUME FCTypeOK, PlottedPoints # {}
  PROVE  IsGraph(Graph)
  <1> DEFINE sorted == LS!Ascending(PlottedPoints)
             n == Cardinality(PlottedPoints)
             point(k) == [x |-> sorted[k], y |-> NumToysExceed(sorted[k]), of |-> NumToys(sorted[k])]
  <1>1. n \in Nat /\ n # 0
    BY PlottedFinite, FS_CardinalityType, FS_EmptySet
  <1>2. /\ sorted \in [1..n -> PlottedPoints]
        /\ \A i, j \in 1..n : i < j => sorted[i] < sorted[j]
    BY PlottedFinite, AscendingIs DEF IsAscending
  <1>3. Graph = [k \in DOMAIN sorted |-> point(k)]
    BY DEF Graph
  <1> HIDE DEF n, sorted
  <1>4. \A k \in 1..n : point(k) \in Point
    <2> SUFFICES ASSUME NEW k \in 1..n PROVE point(k) \in Point
      OBVIOUS
    <2>1. sorted[k] \in DOMAIN delta /\ sorted[k] \in Int
      BY <1>2, PlottedFinite
    <2>2. NumToys(sorted[k]) \in Nat /\ NumToysExceed(sorted[k]) \in Nat
      BY <2>1, CountFacts
    <2> QED BY <2>1, <2>2 DEF Point
  <1>5. Graph \in [1..n -> Point] /\ \A k \in 1..n : Graph[k].x = sorted[k]
    <2>1. DOMAIN sorted = 1..n
      BY <1>2
    <2>2. \A k \in 1..n : Graph[k] = point(k)
      BY <1>3, <2>1
    <2>3. \A k \in 1..n : point(k).x = sorted[k]
      OBVIOUS
    <2> HIDE DEF point
    <2>4. Graph \in [1..n -> Point]
      BY <1>3, <1>4, <2>1
    <2> QED BY <2>2, <2>3, <2>4
  <1> HIDE DEF point
  <1>6. Graph \in Seq(Point) /\ Len(Graph) = n
    BY <1>1, <1>5, IsASeq, LenProperties
  <1> QED BY <1>1, <1>2, <1>5, <1>6 DEF IsGraph

-----------------------------------------------------------------------------
(* What the plot was made of stays.                                        *)
EndsOf(i, all) == all[i].lower.ends /\ all[i].upper.ends

FoundIn(g) ==
  [i \in DOMAIN Levels |->
     [lower |-> LS!FindRise(g, Levels[i], 1), upper |-> LS!FindRise(g, Levels[i], -1)]]

FCPlotInv ==
  /\ at \notin {"empty", "plotted", "hangs"} => intervals = <<>>
  /\ at = "empty" => PlottedPoints = {}
  /\ (at \in {"plotted", "hangs"} /\ DOMAIN delta = {}) =>
       at = "plotted" /\ intervals = <<>>
  /\ (at \in {"plotted", "hangs"} /\ DOMAIN delta # {}) =>
       /\ PlottedPoints # {}
       /\ intervals = FoundIn(Graph)
       /\ at = "hangs" => \E i \in DOMAIN Levels : ~EndsOf(i, intervals)
       /\ at = "plotted" => \A i \in DOMAIN Levels : EndsOf(i, intervals)

LEMMA GraphStays ==
  UNCHANGED <<delta, toys>> => PlottedPoints' = PlottedPoints /\ Graph' = Graph
  BY DEF PlottedPoints, Graph, NumToys, NumToysExceed, Exceeds, LS!Ascending

LEMMA FCPlotInit == FCInit => FCPlotInv
  BY DEF FCInit, FCPlotInv

LEMMA FCPlotNext == FCPlotInv /\ [FCNext]_fc_vars => FCPlotInv'
  <1> SUFFICES ASSUME FCPlotInv, [FCNext]_fc_vars PROVE FCPlotInv'
    OBVIOUS
  <1>1. CASE PlotHandler
    <2>1. UNCHANGED <<delta, toys>> /\ at = "idle" /\ intervals = <<>>
      BY <1>1 DEF PlotHandler, FCPlotInv
    <2>2. PlottedPoints' = PlottedPoints /\ Graph' = Graph /\ (DOMAIN delta)' = DOMAIN delta
      BY <2>1, GraphStays
    <2>3. CASE DOMAIN delta = {}
      BY <1>1, <2>1, <2>2, <2>3 DEF PlotHandler, FCPlotInv
    <2>4. CASE DOMAIN delta # {} /\ PlottedPoints = {}
      BY <1>1, <2>1, <2>2, <2>4 DEF PlotHandler, FCPlotInv
    <2>5. CASE DOMAIN delta # {} /\ PlottedPoints # {}
      <3>1. /\ intervals' = FoundIn(Graph)
            /\ at' = IF \A i \in DOMAIN Levels : EndsOf(i, intervals') THEN "plotted" ELSE "hangs"
        BY <1>1, <2>5 DEF PlotHandler, FoundIn, EndsOf
      <3>2. FoundIn(Graph)' = FoundIn(Graph)
        BY <2>2 DEF FoundIn
      <3>3. at' = "hangs" => \E i \in DOMAIN Levels : ~EndsOf(i, intervals')
        BY <3>1
      <3>4. at' = "plotted" => \A i \in DOMAIN Levels : EndsOf(i, intervals')
        BY <3>1
      <3>5. at' \in {"plotted", "hangs"}
        BY <3>1
      <3> QED BY <2>2, <2>5, <3>1, <3>2, <3>3, <3>4, <3>5 DEF FCPlotInv, EndsOf
    <2> QED BY <2>3, <2>4, <2>5
  <1>2. CASE UNCHANGED fc_vars
    <2>1. UNCHANGED <<delta, toys, at, intervals>>
      BY <1>2 DEF fc_vars
    <2>2. PlottedPoints' = PlottedPoints /\ Graph' = Graph
      BY <2>1, GraphStays
    <2> QED BY <2>1, <2>2 DEF FCPlotInv, FoundIn, EndsOf
  <1>3. CASE FCNext /\ ~PlotHandler
    <2>1. at \notin {"empty", "plotted", "hangs"} /\ at' \notin {"empty", "plotted", "hangs"}
          /\ UNCHANGED intervals
      BY <1>3 DEF FCNext, ReadFitResultDataNominal, BeginDataScan, DataScanTurn, EndDataScan,
           BeginToys, ToyTurn, EndToys, EasyFitTurn, EndEasyFit, DeletedTwice, ProcessToyFitResult
    <2> QED BY <2>1 DEF FCPlotInv
  <1> QED BY <1>1, <1>2, <1>3

-----------------------------------------------------------------------------
(* What follows from it.                                                   *)
LEMMA LevelsTyped == \A i \in DOMAIN Levels : Levels[i] \in LevelType
  BY FeldmanCousinsAssumption DEF LevelType

LEMMA FCEndsFollow ==
  ASSUME FCTypeOK, FCPlotInv
  PROVE  EmptyOnlyWithout /\ FCSearchEnds
  <1>1. EmptyOnlyWithout
    <2> SUFFICES ASSUME at \in {"empty", "plotted", "hangs"}, DOMAIN delta # {}
                 PROVE  at = "empty" <=>
                          \A p \in DOMAIN delta :
                            \/ NumToys(p) <= FewToys
                            \/ \A d \in Kept : d > delta[p] => toys.kept[<<p, d>>] = 0
      BY DEF EmptyOnlyWithout
    <2>1. at = "empty" <=> PlottedPoints = {}
      BY DEF FCPlotInv
    <2>2. PlottedPoints = {} <=>
            \A p \in DOMAIN delta : NumToys(p) <= FewToys \/ NumToysExceed(p) = 0
      <3>1. \A p \in DOMAIN delta : NumToys(p) \in Nat /\ FewToys \in Nat
        BY CountFacts, FeldmanCousinsAssumption
      <3>2. \A p \in DOMAIN delta : NumToys(p) > FewToys <=> ~(NumToys(p) <= FewToys)
        BY <3>1
      <3> QED BY <3>2 DEF PlottedPoints
    <2> QED BY <2>1, <2>2, CountFacts
  <1>2. FCSearchEnds
    <2> SUFFICES ASSUME at = "hangs"
                 PROVE  \E i \in DOMAIN Levels : LS!Touches(Graph, Levels[i])
      BY DEF FCSearchEnds
    <2>1. PlottedPoints # {} /\ intervals = FoundIn(Graph)
          /\ \E i \in DOMAIN Levels : ~EndsOf(i, intervals)
      BY DEF FCPlotInv
    <2>2. PICK i \in DOMAIN Levels : ~EndsOf(i, intervals)
      BY <2>1
    <2>3. IsGraph(Graph)
      BY <2>1, GraphFacts
    <2>4. /\ EndsWell(Graph, Levels[i], LS!FindRise(Graph, Levels[i], 1))
          /\ EndsWell(Graph, Levels[i], LS!FindRise(Graph, Levels[i], -1))
      BY <2>3, RiseFacts, LevelsTyped
    <2>5. \/ ~LS!FindRise(Graph, Levels[i], 1).ends
          \/ ~LS!FindRise(Graph, Levels[i], -1).ends
      BY <2>1, <2>2 DEF EndsOf, FoundIn
    <2> QED BY <2>4, <2>5 DEF EndsWell
  <1> QED BY <1>1, <1>2

LEMMA FCCoversFollows ==
  ASSUME FCTypeOK, FCPlotInv
  PROVE  FCIntervalCovers
  <1> SUFFICES ASSUME at = "plotted", NEW i \in DOMAIN intervals,
                      LS!Below(Graph, LS!Last(Graph), Levels[i])
               PROVE  /\ \A x \in LS!Looked(Graph, 1) :
                           LS!Above(Graph, x, Levels[i]) => LS!NotRightOf(intervals[i].lower, x)
                      /\ \A x \in LS!Looked(Graph, -1) :
                           LS!Above(Graph, x, Levels[i]) => LS!NotLeftOf(intervals[i].upper, x)
                      /\ LS!IsCrossing(Graph, Levels[i], intervals[i].lower)
                      /\ LS!IsCrossing(Graph, Levels[i], intervals[i].upper)
    BY DEF FCIntervalCovers
  <1>1. DOMAIN delta # {}
    <2>1. DOMAIN <<>> = {}
      OBVIOUS
    <2> QED BY <2>1 DEF FCPlotInv
  <1>2. /\ PlottedPoints # {} /\ intervals = FoundIn(Graph)
        /\ \A j \in DOMAIN Levels : EndsOf(j, intervals)
    BY <1>1 DEF FCPlotInv
  <1>3. i \in DOMAIN Levels /\ IsGraph(Graph) /\ Levels[i] \in LevelType
    BY <1>2, GraphFacts, LevelsTyped DEF FoundIn
  <1> DEFINE low == LS!FindRise(Graph, Levels[i], 1)
             high == LS!FindRise(Graph, Levels[i], -1)
  <1>4. intervals[i].lower = low /\ intervals[i].upper = high
    BY <1>2, <1>3 DEF FoundIn
  <1>5. low.ends /\ high.ends
    BY <1>2, <1>3, <1>4 DEF EndsOf
  <1>6. /\ EndsWell(Graph, Levels[i], low)
        /\ \A x \in LS!Looked(Graph, 1) :
             LS!Above(Graph, x, Levels[i]) => LS!NotRightOf(low, x)
    BY <1>3, RiseFacts
  <1>7. /\ EndsWell(Graph, Levels[i], high)
        /\ \A x \in LS!Looked(Graph, -1) :
             LS!Above(Graph, x, Levels[i]) => LS!NotLeftOf(high, x)
    BY <1>3, RiseFacts
  <1> HIDE DEF low, high
  <1> QED BY <1>4, <1>5, <1>6, <1>7 DEF EndsWell

-----------------------------------------------------------------------------
(* The graph of the LikelihoodProfiler.                                    *)
KeepOkay(p, before, r) == IF r.okay THEN Append(before, r) ELSE before
Okays == INSTANCE FoldFacts WITH op <- KeepOkay

LEMMA UsableIsFold == LP!Usable = Okays!Fold(0, <<>>, fit_results_)
  <1>1. LP!Usable = LP!FoldLeft(LAMBDA before, r : KeepOkay(0, before, r), <<>>, fit_results_)
    BY DEF LP!Usable, KeepOkay
  <1> QED BY <1>1 DEF LP!Usable, Okays!Fold, KeepOkay, LP!FoldLeft, Okays!FoldLeft,
               LP!MapThenFoldSet, Okays!MapThenFoldSet, LP!Max, Okays!Max

LEMMA OkayFacts ==
  ASSUME NEW R, \A r \in R : r.okay \in BOOLEAN, NEW s \in Seq(R)
  PROVE  /\ Okays!Fold(0, <<>>, s) \in Seq({r \in R : r.okay})
         /\ (\E i \in 1..Len(s) : s[i].okay) => Len(Okays!Fold(0, <<>>, s)) > 0
  <1> DEFINE Q == {r \in R : r.okay}
             U(t) == Okays!Fold(0, <<>>, t)
             T == {t \in Seq(R) : /\ U(t) \in Seq(Q)
                                  /\ (\E i \in 1..Len(t) : t[i].okay) => Len(U(t)) > 0}
  <1>1. <<>> \in T
    <2>1. U(<<>>) = <<>>
      BY Okays!FoldEmpty
    <2> HIDE DEF U, Q
    <2>2. <<>> \in Seq(R) /\ <<>> \in Seq(Q) /\ 1..Len(<<>>) = {}
      OBVIOUS
    <2> QED BY <2>1, <2>2
  <1>2. ASSUME NEW t \in T, NEW r \in R
        PROVE  Append(t, r) \in T
    <2>1. U(Append(t, r)) = KeepOkay(0, U(t), r)
      BY Okays!FoldAppend
    <2>2. /\ t \in Seq(R) /\ U(t) \in Seq(Q)
          /\ (\E i \in 1..Len(t) : t[i].okay) => Len(U(t)) > 0
      OBVIOUS
    <2> HIDE DEF U, Q
    <2>3. Append(t, r) \in Seq(R) /\ Len(Append(t, r)) = Len(t) + 1 /\ Len(t) \in Nat
          /\ Append(t, r)[Len(t) + 1] = r /\ \A i \in 1..Len(t) : Append(t, r)[i] = t[i]
      BY <2>2
    <2>4. CASE r.okay
      <3>1. r \in Q
        BY <2>4 DEF Q
      <3>2. U(Append(t, r)) = Append(U(t), r)
        BY <2>1, <2>4 DEF KeepOkay
      <3>3. U(Append(t, r)) \in Seq(Q) /\ Len(U(Append(t, r))) > 0
        <4> DEFINE u == U(t)
        <4>1. u \in Seq(Q)
          BY <2>2
        <4> HIDE DEF u
        <4>2. Append(u, r) \in Seq(Q) /\ Len(Append(u, r)) > 0
          BY <3>1, <4>1
        <4> QED BY <3>2, <4>2 DEF u
      <3> QED BY <2>3, <3>3
    <2>5. CASE ~r.okay
      <3>1. U(Append(t, r)) = U(t)
        BY <2>1, <2>5 DEF KeepOkay
      <3>2. (\E i \in 1..Len(Append(t, r)) : Append(t, r)[i].okay)
              => \E i \in 1..Len(t) : t[i].okay
        BY <2>3, <2>5
      <3> QED BY <2>2, <2>3, <3>1, <3>2
    <2> QED BY <2>4, <2>5
  <1>3. Seq(R) \subseteq T
    <2> HIDE DEF T
    <2> QED BY ONLY <1>1, <1>2, Okays!SeqSetInduction
  <1> QED BY <1>3

LEMMA UsableFacts ==
  ASSUME ProfileInv
  PROVE  /\ LP!Usable \in Seq(Result)
         /\ (\E r \in LP!Range(fit_results_) : r.okay) => Len(LP!Usable) > 0
  <1>1. fit_results_ \in Seq(Result) /\ \A r \in Result : r.okay \in BOOLEAN
    BY DEF ProfileInv, Result
  <1> DEFINE U == Okays!Fold(0, <<>>, fit_results_)
             Q == {r \in Result : r.okay}
  <1>2. U \in Seq(Q) /\ ((\E i \in 1..Len(fit_results_) : fit_results_[i].okay) => Len(U) > 0)
    <2> HIDE DEF U, Q
    <2> QED BY ONLY <1>1, OkayFacts DEF U, Q
  <1>3. U \in Seq(Result)
    <2>1. Q \subseteq Result
      OBVIOUS
    <2> HIDE DEF U, Q
    <2> QED BY <1>2, <2>1
  <1>4. (\E r \in LP!Range(fit_results_) : r.okay)
          => \E i \in 1..Len(fit_results_) : fit_results_[i].okay
    BY <1>1 DEF LP!Range
  <1> QED BY <1>2, <1>3, <1>4, UsableIsFold

LEMMA MinimumType == ProfileInv => LP!MinNll \in Int
  <1> SUFFICES ASSUME ProfileInv PROVE LP!MinNll \in Int
    OBVIOUS
  <1>1. fit_results_ \in Seq(Result) /\ \A r \in Result : r.nll \in Int
    BY DEF ProfileInv, Result
  <1>2. \A before \in Int, r \in Result : WithMinimum(0, before, r) \in Int
    BY <1>1 DEF WithMinimum, LP!NewMinimum
  <1>3. \A s \in Seq(Result) : Minimum!Fold(0, 0, s) \in Int
    BY ONLY <1>2, Minimum!FoldType
  <1> QED BY <1>1, <1>3, MinimumIsFold

(* The places of results, and which of them are there twice.               *)
Places(s) == {LP!Place(s[i]) : i \in DOMAIN s}

LEMMA PlacesOfResults ==
  ASSUME ProfileInv, scan_vars_ >= 1, NEW s \in Seq(Result)
  PROVE  /\ Places(s) \in SUBSET Int /\ IsFiniteSet(Places(s))
         /\ Len(s) > Cardinality(Places(s)) <=>
              \E i, j \in DOMAIN s : i < j /\ LP!Place(s[i]) = LP!Place(s[j])
  <1> DEFINE n == Len(s)
             f == [i \in 1..n |-> LP!Place(s[i])]
  <1>1. n \in Nat /\ DOMAIN s = 1..n
    OBVIOUS
  <1>2. \A i \in 1..n : LP!Place(s[i]) \in Int
    <2> TAKE i \in 1..n
    <2>1. s[i] \in Result
      BY ElementOfSeq
    <2>2. 1 \in LP!Vars
      BY DEF ProfileInv, LP!Vars
    <2> QED BY <2>1, <2>2 DEF Result, LP!Place
  <1> HIDE DEF n
  <1>3. Places(s) = {f[i] : i \in 1..n}
    BY <1>1 DEF Places
  <1> HIDE DEF f
  <1>4. f \in Surjection(1..n, Places(s))
    <2>1. f \in [1..n -> Places(s)] /\ \A t \in Places(s) : \E i \in 1..n : f[i] = t
      BY <1>3 DEF f
    <2> QED BY <2>1 DEF Surjection
  <1>5. IsFiniteSet(1..n) /\ Cardinality(1..n) = n
    BY <1>1, FS_Interval
  <1>6. /\ IsFiniteSet(Places(s)) /\ Cardinality(Places(s)) <= n
        /\ Cardinality(Places(s)) = n <=> f \in Injection(1..n, Places(s))
    <2> HIDE DEF Places
    <2> QED BY <1>4, <1>5, FS_Surjection
  <1>7. f \in Injection(1..n, Places(s)) <=>
          ~\E i, j \in 1..n : i < j /\ f[i] = f[j]
    <2>1. f \in [1..n -> Places(s)]
      BY <1>4 DEF Surjection
    <2>2. f \in Injection(1..n, Places(s)) <=> \A i, j \in 1..n : f[i] = f[j] => i = j
      BY <2>1 DEF Injection, IsInjective
    <2> QED BY <1>1, <2>2
  <1>8. Cardinality(Places(s)) \in Nat
    BY <1>6, FS_CardinalityType
  <1>9. \A i \in 1..n : f[i] = LP!Place(s[i])
    BY DEF f
  <1>10. Places(s) \in SUBSET Int
    BY <1>1, <1>2 DEF Places
  <1>11. n > Cardinality(Places(s)) <=> ~(Cardinality(Places(s)) = n)
    BY <1>1, <1>6, <1>8
  <1> QED BY <1>1, <1>6, <1>7, <1>9, <1>10, <1>11 DEF n

LEMMA ProfileGraphFacts ==
  ASSUME ProfileInv, scan_vars_ >= 1, \E r \in LP!Range(fit_results_) : r.okay
  PROVE  /\ IsGraph(LP!Graph)
         /\ Len(LP!Graph) = Cardinality(Places(LP!Usable))
  <1> DEFINE U == LP!Usable
             P == Places(U)
             n == Cardinality(P)
             sorted == LS!Ascending(P)
             at_(x) == U[CHOOSE i \in DOMAIN U :
                           /\ LP!Place(U[i]) = x
                           /\ \A j \in 1..(i - 1) : LP!Place(U[j]) # x]
             point(k) == [x |-> sorted[k], y |-> LP!Shifted(at_(sorted[k]).nll), of |-> 1]
  <1>1. U \in Seq(Result) /\ Len(U) > 0
    BY UsableFacts
  <1>2. P \in SUBSET Int /\ IsFiniteSet(P)
    <2> HIDE DEF U
    <2> QED BY <1>1, PlacesOfResults
  <1>3. n \in Nat /\ n # 0
    <2>1. P # {}
      <3> HIDE DEF U
      <3>1. 1 \in DOMAIN U
        BY <1>1
      <3> QED BY <3>1 DEF Places
    <2> HIDE DEF P
    <2> QED BY <1>2, <2>1, FS_CardinalityType, FS_EmptySet
  <1>4. /\ sorted \in [1..n -> P]
        /\ \A i, j \in 1..n : i < j => sorted[i] < sorted[j]
    <2> HIDE DEF P
    <2> QED BY <1>2, AscendingIs DEF IsAscending
  <1>5. LP!Graph = [k \in DOMAIN sorted |-> point(k)]
    BY SameAscending DEF LP!Graph, Places
  <1> HIDE DEF U, n, sorted
  <1>6. \A x \in P : at_(x) \in Result
    <2> SUFFICES ASSUME NEW x \in P
                 PROVE  at_(x) \in Result
      OBVIOUS
    <2> DEFINE T == {i \in DOMAIN U : LP!Place(U[i]) = x}
    <2>1. DOMAIN U = 1..Len(U) /\ Len(U) \in Nat
      BY <1>1
    <2>2. T # {} /\ T \subseteq Nat
      BY <2>1 DEF Places
    <2>3. PICK i \in T : \A k \in T : i <= k
      <3> HIDE DEF T
      <3> QED BY <2>2, Powers!NatLeast
    <2>4. \A j \in 1..(i - 1) : LP!Place(U[j]) # x
      <3> SUFFICES ASSUME NEW j \in 1..(i - 1), LP!Place(U[j]) = x PROVE FALSE
        OBVIOUS
      <3>1. i \in 1..Len(U) /\ j \in 1..Len(U) /\ ~(i <= j)
        BY <2>1
      <3>2. j \in T
        BY <2>1, <3>1
      <3> QED BY <2>3, <3>1, <3>2
    <2> DEFINE c == CHOOSE k \in DOMAIN U :
                      /\ LP!Place(U[k]) = x
                      /\ \A j \in 1..(k - 1) : LP!Place(U[j]) # x
    <2>5. c \in DOMAIN U
      BY <2>3, <2>4
    <2>6. U[c] \in Result
      <3> HIDE DEF c
      <3> QED BY <1>1, <2>1, <2>5, ElementOfSeq
    <2> QED BY <2>6
  <1>7. \A k \in 1..n : point(k) \in Point
    <2> SUFFICES ASSUME NEW k \in 1..n PROVE point(k) \in Point
      OBVIOUS
    <2>1. sorted[k] \in P /\ sorted[k] \in Int
      BY <1>2, <1>4
    <2>2. at_(sorted[k]) \in Result
      BY <1>6, <2>1
    <2> DEFINE nll == at_(sorted[k]).nll
    <2>3. nll \in Int
      BY <2>2 DEF Result
    <2>4. LP!Shifted(nll) \in Int
      <3> HIDE DEF nll
      <3> QED BY <2>3, MinimumType DEF LP!Shifted
    <2>5. point(k) = [x |-> sorted[k], y |-> LP!Shifted(nll), of |-> 1]
      OBVIOUS
    <2> HIDE DEF nll, point
    <2> QED BY <2>1, <2>4, <2>5 DEF Point
  <1>8. LP!Graph \in [1..n -> Point] /\ \A k \in 1..n : LP!Graph[k].x = sorted[k]
    <2>1. DOMAIN sorted = 1..n
      BY <1>4
    <2>2. \A k \in 1..n : LP!Graph[k] = point(k)
      BY <1>5, <2>1
    <2>3. \A k \in 1..n : point(k).x = sorted[k]
      OBVIOUS
    <2> HIDE DEF point, at_
    <2>4. LP!Graph \in [1..n -> Point]
      BY <1>5, <1>7, <2>1
    <2> QED BY <2>2, <2>3, <2>4
  <1> HIDE DEF point, at_, P
  <1>9. LP!Graph \in Seq(Point) /\ Len(LP!Graph) = n
    BY <1>3, <1>8, IsASeq, LenProperties
  <1>10. \A i, j \in 1..n : i < j => LP!Graph[i].x < LP!Graph[j].x
    BY <1>4, <1>8
  <1>11. IsGraph(LP!Graph)
    BY <1>3, <1>9, <1>10 DEF IsGraph
  <1> QED BY <1>9, <1>11 DEF n, P, U

(* What the plot of the LikelihoodProfiler was made of stays, too.         *)
ProfilePlotInv ==
  /\ scan_vars_ \in 1..MaxVars
  /\ scans \in 0..MaxScans
  /\ profile.state \in {"none", "terminated", "hangs", "past_end", "done", "done_2d"}
  /\ profile.state = "done_2d" => scan_vars_ > 1
  /\ profile.state = "past_end" => LP!ReadsPastEnd(LP!Usable, LP!Graph)
  /\ profile.state \in {"done", "hangs"} =>
       /\ ~LP!ReadsPastEnd(LP!Usable, LP!Graph)
       /\ profile.lower = LS!FindFall(LP!Graph, Level, 1)
       /\ profile.upper = LS!FindFall(LP!Graph, Level, -1)
       /\ profile.state = "done" => profile.lower.ends /\ profile.upper.ends
       /\ profile.state = "hangs" => ~(profile.lower.ends /\ profile.upper.ends)

LEMMA ProfileGraphStays ==
  UNCHANGED fit_results_ => LP!Usable' = LP!Usable /\ LP!Graph' = LP!Graph
  <1> SUFFICES ASSUME UNCHANGED fit_results_
               PROVE  LP!Usable' = LP!Usable /\ LP!Graph' = LP!Graph
    OBVIOUS
  <1>1. (LP!Usable = Okays!Fold(0, <<>>, fit_results_))'
    BY UsableIsFold, PTL
  <1>2. LP!Usable' = LP!Usable
    BY <1>1, UsableIsFold
  <1>3. (LP!MinNll = Minimum!Fold(0, 0, fit_results_))'
    BY MinimumIsFold, PTL
  <1>4. LP!MinNll' = LP!MinNll
    BY <1>3, MinimumIsFold
  <1>5. \A nll : LP!Shifted(nll)' = LP!Shifted(nll)
    BY <1>4 DEF LP!Shifted
  <1> QED BY <1>2, <1>4 DEF LP!Graph, LP!Shifted, LP!Place, LP!LS!Ascending

LEMMA ProfilePlotInit == Init => ProfilePlotInv
  <1> SUFFICES ASSUME LP!Init PROVE ProfilePlotInv
    BY DEF Init
  <1>1. MaxScans \in Nat
    BY ProfilesAssumption DEF LP!ConstantsOK
  <1> QED BY <1>1 DEF LP!Init, ProfilePlotInv

LEMMA ProfilePlotNext == ProfileInv /\ ProfilePlotInv /\ [Next]_vars => ProfilePlotInv'
  <1> SUFFICES ASSUME ProfileInv, ProfilePlotInv, [Next]_vars PROVE ProfilePlotInv'
    OBVIOUS
  <1>0. MaxScans \in Nat /\ scans \in 0..MaxScans
    BY ProfilesAssumption DEF LP!ConstantsOK, ProfilePlotInv
  <1>1. CASE UNCHANGED <<scan_vars_, scans, fit_results_, profile>>
    <2>1. LP!Usable' = LP!Usable /\ LP!Graph' = LP!Graph
      BY <1>1, ProfileGraphStays
    <2> QED BY <1>1, <2>1 DEF ProfilePlotInv, LP!ReadsPastEnd
  <1>2. CASE /\ profile.state = "none" /\ UNCHANGED <<scan_vars_, profile>>
             /\ scans' \in 0..MaxScans
    BY <1>2 DEF ProfilePlotInv
  <1>3. CASE LP!PlotHandler
    <2>1. UNCHANGED <<scan_vars_, scans, fit_results_>>
      BY <1>3 DEF LP!PlotHandler
    <2>2. LP!Usable' = LP!Usable /\ LP!Graph' = LP!Graph
      BY <2>1, ProfileGraphStays
    <2>3. scan_vars_ \in 1..MaxVars /\ scans \in 0..MaxScans
      BY DEF ProfilePlotInv
    <2>4. CASE LP!Terminates
      BY <1>3, <2>1, <2>3, <2>4 DEF LP!PlotHandler, ProfilePlotInv
    <2>5. CASE ~LP!Terminates /\ scan_vars_ > 1
      BY <1>3, <2>1, <2>3, <2>5 DEF LP!PlotHandler, ProfilePlotInv
    <2>6. CASE ~LP!Terminates /\ ~(scan_vars_ > 1) /\ LP!ReadsPastEnd(LP!Usable, LP!Graph)
      <3>1. profile' = [state |-> "past_end", min_nll |-> LP!MinNll]
        BY <1>3, <2>6 DEF LP!PlotHandler
      <3> QED BY <2>1, <2>2, <2>3, <2>6, <3>1 DEF ProfilePlotInv, LP!ReadsPastEnd
    <2>7. CASE ~LP!Terminates /\ ~(scan_vars_ > 1) /\ ~LP!ReadsPastEnd(LP!Usable, LP!Graph)
      <3> DEFINE lower == LS!FindFall(LP!Graph, Level, 1)
                 upper == LS!FindFall(LP!Graph, Level, -1)
      <3>1. profile' = [state |-> IF lower.ends /\ upper.ends THEN "done" ELSE "hangs",
                        min_nll |-> LP!MinNll, lower |-> lower, upper |-> upper]
        BY <1>3, <2>7, SameSearch DEF LP!PlotHandler
      <3>2. lower' = lower /\ upper' = upper
        BY <2>2
      <3>3. ~LP!ReadsPastEnd(LP!Usable, LP!Graph)'
        BY <2>2, <2>7 DEF LP!ReadsPastEnd
      <3>4. /\ profile'.lower = lower /\ profile'.upper = upper
            /\ profile'.state \in {"done", "hangs"}
            /\ profile'.state = "done" => lower.ends /\ upper.ends
            /\ profile'.state = "hangs" => ~(lower.ends /\ upper.ends)
        BY <3>1
      <3>5. /\ profile'.lower = LS!FindFall(LP!Graph, Level, 1)'
            /\ profile'.upper = LS!FindFall(LP!Graph, Level, -1)'
            /\ profile'.state = "done" => profile'.lower.ends /\ profile'.upper.ends
            /\ profile'.state = "hangs" => ~(profile'.lower.ends /\ profile'.upper.ends)
        BY <3>2, <3>4
      <3> QED BY <2>1, <2>3, <3>3, <3>4, <3>5 DEF ProfilePlotInv
    <2> QED BY <2>4, <2>5, <2>6, <2>7
  <1>4. CASE LP!BeginScan
    <2>1. scans' = scans + 1 /\ scans < MaxScans
      BY <1>4 DEF LP!BeginScan
    <2>2. scans' \in 0..MaxScans
      BY <1>0, <2>1
    <2> QED BY <1>2, <1>4, <2>2 DEF LP!BeginScan
  <1>5. CASE LP!ScanStep
    <2>1. step # -1
      <3>1. LP!NumTotalSamples \in Nat
        BY PowerFacts DEF ProfileInv, LP!NumTotalSamples
      <3> QED BY <1>5, <3>1 DEF LP!ScanStep
    <2>2. profile.state = "none"
      BY <2>1 DEF ProfileInv
    <2> QED BY <1>0, <1>2, <1>5, <2>2 DEF LP!ScanStep
  <1>6. CASE LP!EndScan
    BY <1>1, <1>6 DEF LP!EndScan
  <1>7. CASE LP!ReadFitResults
    BY <1>0, <1>2, <1>7 DEF LP!ReadFitResults
  <1>8. CASE UNCHANGED likelihood_vars
    BY <1>1, <1>8 DEF likelihood_vars
  <1> QED BY <1>3, <1>4, <1>5, <1>6, <1>7, <1>8 DEF Next, LP!Next, vars

-----------------------------------------------------------------------------
(* What follows from it.                                                   *)
LEMMA LevelTyped == Level \in LevelType
  BY ProfilesAssumption DEF LP!ConstantsOK, LevelType

LEMMA ProfileTypeFollows ==
  ASSUME ProfileInv, ProfilePlotInv
  PROVE  LP!TypeOK
  <1>1. \A i \in DOMAIN fit_results_ : fit_results_[i] \in Result
    BY DEF ProfileInv
  <1> QED BY <1>1 DEF ProfileInv, ProfilePlotInv, LP!TypeOK, Result

LEMMA PlottedGraph ==
  ASSUME ProfileInv, ProfilePlotInv, LP!Plotted
  PROVE  /\ IsGraph(LP!Graph)
         /\ LP!ReadsPastEnd(LP!Usable, LP!Graph) <=>
              \E i, j \in DOMAIN LP!Usable :
                i < j /\ LP!Place(LP!Usable[i]) = LP!Place(LP!Usable[j])
  <1>1. scan_vars_ >= 1 /\ \E r \in LP!Range(fit_results_) : r.okay
    BY DEF ProfileInv, ProfilePlotInv
  <1>2. IsGraph(LP!Graph) /\ Len(LP!Graph) = Cardinality(Places(LP!Usable))
    BY <1>1, ProfileGraphFacts
  <1>3. LP!Usable \in Seq(Result)
    BY UsableFacts
  <1>4. Len(LP!Usable) > Cardinality(Places(LP!Usable)) <=>
          \E i, j \in DOMAIN LP!Usable :
            i < j /\ LP!Place(LP!Usable[i]) = LP!Place(LP!Usable[j])
    <2> DEFINE U == LP!Usable
    <2>1. U \in Seq(Result)
      BY <1>3
    <2> HIDE DEF U
    <2>2. Len(U) > Cardinality(Places(U)) <=>
            \E i, j \in DOMAIN U : i < j /\ LP!Place(U[i]) = LP!Place(U[j])
      BY <1>1, <2>1, PlacesOfResults
    <2> QED BY <2>2 DEF U
  <1> QED BY <1>2, <1>4 DEF LP!ReadsPastEnd

LEMMA ProfileEndsFollow ==
  ASSUME ProfileInv, ProfilePlotInv
  PROVE  LP!PastEndOnlyTwice /\ LP!SearchEnds
  <1>1. LP!PastEndOnlyTwice
    <2> SUFFICES ASSUME LP!Plotted, scan_vars_ = 1
                 PROVE  profile.state = "past_end" <=>
                          \E i, j \in DOMAIN LP!Usable :
                            i < j /\ LP!Place(LP!Usable[i]) = LP!Place(LP!Usable[j])
      BY DEF LP!PastEndOnlyTwice
    <2>1. profile.state \in {"past_end", "done", "hangs"}
      BY DEF LP!Plotted, ProfilePlotInv
    <2>2. profile.state = "past_end" <=> LP!ReadsPastEnd(LP!Usable, LP!Graph)
      BY <2>1 DEF ProfilePlotInv
    <2> QED BY <2>2, PlottedGraph
  <1>2. LP!SearchEnds
    <2> SUFFICES ASSUME profile.state = "hangs" PROVE LP!LS!Touches(LP!Graph, Level)
      BY DEF LP!SearchEnds
    <2>1. IsGraph(LP!Graph)
      BY PlottedGraph DEF LP!Plotted
    <2>2. \/ ~LS!FindFall(LP!Graph, Level, 1).ends
          \/ ~LS!FindFall(LP!Graph, Level, -1).ends
      BY DEF ProfilePlotInv
    <2>3. /\ EndsWell(LP!Graph, Level, LS!FindFall(LP!Graph, Level, 1))
          /\ EndsWell(LP!Graph, Level, LS!FindFall(LP!Graph, Level, -1))
      BY <2>1, LevelTyped, FallFacts
    <2> QED BY <2>2, <2>3, SameTerms DEF EndsWell
  <1> QED BY <1>1, <1>2

LEMMA ProfileCoversFollows ==
  ASSUME ProfileInv, ProfilePlotInv
  PROVE  LP!IntervalCovers
  <1> DEFINE G == LP!Graph
             low == LS!FindFall(G, Level, 1)
             high == LS!FindFall(G, Level, -1)
  <1> SUFFICES ASSUME profile.state = "done", LS!Above(G, LS!First(G), Level)
               PROVE  /\ \A x \in LS!Looked(G, 1) :
                           LS!Below(G, x, Level) => LS!NotRightOf(profile.lower, x)
                      /\ \A x \in LS!Looked(G, -1) :
                           LS!Below(G, x, Level) => LS!NotLeftOf(profile.upper, x)
                      /\ LS!IsCrossing(G, Level, profile.lower)
                      /\ LS!IsCrossing(G, Level, profile.upper)
    BY SameTerms DEF LP!IntervalCovers
  <1>1. IsGraph(G) /\ Level \in LevelType
    BY PlottedGraph, LevelTyped DEF LP!Plotted
  <1>2. profile.lower = low /\ profile.upper = high /\ low.ends /\ high.ends
    BY DEF ProfilePlotInv
  <1>3. /\ EndsWell(G, Level, low)
        /\ \A x \in LS!Looked(G, 1) : LS!Below(G, x, Level) => LS!NotRightOf(low, x)
    BY <1>1, FallFacts
  <1>4. /\ EndsWell(G, Level, high)
        /\ \A x \in LS!Looked(G, -1) : LS!Below(G, x, Level) => LS!NotLeftOf(high, x)
    BY <1>1, FallFacts
  <1> HIDE DEF low, high, G
  <1> QED BY <1>2, <1>3, <1>4 DEF EndsWell

-----------------------------------------------------------------------------
(* The FeldmanCousinsProfiler's part of the steps.                         *)
LEMMA FCStep == [Next]_vars => [FCNext]_fc_vars
  BY DEF Next, vars

LEMMA FCAlways == Spec => [](FCTypeOK /\ FCPlotInv)
  <1>1. Init => FCTypeOK /\ FCPlotInv
    BY FCTypeInit, FCPlotInit DEF Init
  <1>2. FCTypeOK /\ FCPlotInv /\ [Next]_vars => (FCTypeOK /\ FCPlotInv)'
    BY FCTypeNext, FCPlotNext, FCStep
  <1> QED BY <1>1, <1>2, PTL DEF Spec

LEMMA ProfilePlotAlways == Spec => [](ProfileInv /\ ProfilePlotInv)
  <1>1. Init => ProfileInv /\ ProfilePlotInv
    BY ProfileInvInit, ProfilePlotInit
  <1>2. ProfileInv /\ ProfilePlotInv /\ [Next]_vars => (ProfileInv /\ ProfilePlotInv)'
    BY ProfileInvNext, ProfilePlotNext
  <1> QED BY <1>1, <1>2, PTL DEF Spec

(* Whatever the results and the toys: the FeldmanCousinsProfiler breaks in *)
(* the loop over the toys only after a single result that follows a pair,  *)
(* and plots nothing only when no scan point has enough toys; the          *)
(* LikelihoodProfiler reads past the end of its vectors only when two      *)
(* results are at one place; and either one's search for the ends of an    *)
(* interval goes on for ever only when the graph has exactly the height of *)
(* the level somewhere (OnlySinglesBreakTheLoop, FCEndsFollow,             *)
(* ProfileEndsFollow).  All state stays within its types.                  *)
THEOREM EndsAreExplained == Spec => []EndsExplained
  <1>1. FCTypeOK /\ FCPlotInv /\ ProfileInv /\ ProfilePlotInv /\ OnlySinglesBreak
          => EndsExplained
    BY FCEndsFollow, ProfileTypeFollows, ProfileEndsFollow DEF EndsExplained
  <1> QED BY <1>1, FCAlways, ProfilePlotAlways, OnlySinglesBreakTheLoop, PTL

(* Each interval that is printed holds all the places on its side of the   *)
(* level that the searches for its two ends looked at, and its ends are    *)
(* crossings of the level or ends of the graph; for any number of steps of *)
(* the coarse scan, any points and any levels, where the graph is beyond   *)
(* the level at the end that the rule of the coarse scan needs.            *)
THEOREM IntervalsCoverTheirPoints == Spec => []IntervalsCover
  <1>1. FCTypeOK /\ FCPlotInv /\ ProfileInv /\ ProfilePlotInv => IntervalsCover
    BY FCCoversFollows, ProfileCoversFollows DEF IntervalsCover
  <1> QED BY <1>1, FCAlways, ProfilePlotAlways, PTL
=============================================================================
