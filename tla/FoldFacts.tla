----------------------------- MODULE FoldFacts ------------------------------
(***************************************************************************)
(* Facts about FoldLeft of the community modules and about recursive       *)
(* functions for any operator op, and induction over the natural numbers.  *)
(***************************************************************************)
EXTENDS Integers, SequencesExt, SequenceTheorems, WellFoundedInduction, TLAPS

CONSTANT op(_, _, _)

(* The parameter p is whatever else the operator depends on.               *)
Fold(p, base, s) == FoldLeft(LAMBDA before, x : op(p, before, x), base, s)

(* Every set of natural numbers has a least one.                           *)
LEMMA NatLeast ==
  ASSUME NEW T, T \subseteq Nat, T # {}
  PROVE  \E n \in T : \A k \in T : n <= k
  <1> DEFINE R == {ss \in Nat \X Nat : ss[1] < ss[2]}
  <1>1. IsWellFoundedOn(R, Nat)
    BY NatLessThanWellFounded DEF OpToRel
  <1> HIDE DEF R
  <1>2. PICK n \in T : \A k \in T : <<k, n>> \notin R
    BY <1>1, WFMin
  <1>3. \A k \in T : n <= k
    <2> TAKE k \in T
    <2>1. k \in Nat /\ n \in Nat /\ <<k, n>> \notin R
      BY <1>2
    <2>2. ~(k < n)
      BY <2>1 DEF R
    <2> QED BY <2>1, <2>2
  <1> QED BY <1>3

(* Induction, with the property as a set.                                  *)
LEMMA NatSetInduction ==
  ASSUME NEW T, 0 \in T, \A n \in Nat : n \in T => n + 1 \in T
  PROVE  \A n \in Nat : n \in T
  <1> DEFINE U == Nat \ T
  <1> SUFFICES ASSUME U # {} PROVE FALSE
    OBVIOUS
  <1>1. PICK n \in U : \A k \in U : n <= k
    BY NatLeast
  <1>2. n - 1 \in Nat /\ n - 1 \notin U
    BY <1>1
  <1> QED BY <1>2

(* The function that MapThenFoldSet iterates over the sets of positions.   *)
Folder(p, base, g, s, n) ==
  g = [S \in SUBSET (1..n) |->
         IF S = {} THEN base ELSE op(p, g[S \ {Max(S)}], s[Max(S)])]

LEMMA MaxLast ==
  ASSUME NEW n \in Nat, NEW S \in SUBSET (1..n + 1), n + 1 \in S
  PROVE  Max(S) = n + 1
  <1>1. \A y \in S : n + 1 >= y
    OBVIOUS
  <1>2. \A x \in S : (\A y \in S : x >= y) => x = n + 1
    OBVIOUS
  <1> QED BY <1>1, <1>2 DEF Max

LEMMA FolderExists ==
  ASSUME NEW p, NEW base, NEW s
  PROVE  \A n \in Nat : \E g : Folder(p, base, g, s, n)
  <1> DEFINE T == {n \in Nat : \E g : Folder(p, base, g, s, n)}
  <1>1. 0 \in T
    <2>1. Folder(p, base, [S \in SUBSET (1..0) |-> base], s, 0)
      <3>1. 1..0 = {}
        OBVIOUS
      <3> QED BY <3>1 DEF Folder
    <2> QED BY <2>1
  <1>2. ASSUME NEW n \in Nat, n \in T
        PROVE  n + 1 \in T
    <2>1. PICK g : Folder(p, base, g, s, n)
      BY <1>2
    <2> DEFINE h == [S \in SUBSET (1..n + 1) |->
                       IF n + 1 \in S THEN op(p, g[S \ {n + 1}], s[n + 1]) ELSE g[S]]
    <2>2. ASSUME NEW S \in SUBSET (1..n + 1)
          PROVE  h[S] = IF S = {} THEN base ELSE op(p, h[S \ {Max(S)}], s[Max(S)])
      <3>1. CASE n + 1 \in S
        <4>1. Max(S) = n + 1
          BY <3>1, MaxLast
        <4>2. S \ {n + 1} \in SUBSET (1..n + 1) /\ n + 1 \notin S \ {n + 1}
          OBVIOUS
        <4>3. h[S \ {n + 1}] = g[S \ {n + 1}]
          BY <4>2
        <4> QED BY <3>1, <4>1, <4>3
      <3>2. CASE n + 1 \notin S
        <4>1. S \in SUBSET (1..n) /\ S \ {Max(S)} \in SUBSET (1..n)
          <5>1. \A x \in S : x \in 1..n
            BY <3>2
          <5> QED BY <5>1
        <4>2. h[S] = g[S] /\ h[S \ {Max(S)}] = g[S \ {Max(S)}]
          <5>1. S \ {Max(S)} \in SUBSET (1..n + 1) /\ n + 1 \notin S \ {Max(S)}
            BY <3>2
          <5> QED BY <3>2, <5>1
        <4>3. g[S] = IF S = {} THEN base ELSE op(p, g[S \ {Max(S)}], s[Max(S)])
          BY <2>1, <4>1 DEF Folder
        <4> QED BY <4>2, <4>3
      <3> QED BY <3>1, <3>2
    <2> HIDE DEF h
    <2>3. h = [S \in SUBSET (1..n + 1) |-> h[S]]
      BY DEF h
    <2>4. Folder(p, base, h, s, n + 1)
      BY <2>2, <2>3 DEF Folder
    <2> QED BY <2>4
  <1> HIDE DEF T
  <1>3. \A n \in Nat : n \in T
    BY <1>1, <1>2, NatSetInduction
  <1> QED BY <1>3 DEF T

(* One step of it for every position.                                      *)
Steps(p, base, g, s, n) ==
  \A k \in 0..n : g[1..k] = IF k = 0 THEN base ELSE op(p, g[1..k - 1], s[k])

LEMMA FolderStep ==
  ASSUME NEW p, NEW base, NEW s, NEW n \in Nat, NEW g, Folder(p, base, g, s, n)
  PROVE  Steps(p, base, g, s, n)
  <1> SUFFICES ASSUME NEW k \in 0..n
               PROVE  g[1..k] = IF k = 0 THEN base ELSE op(p, g[1..k - 1], s[k])
    BY DEF Steps
  <1>1. 1..k \in SUBSET (1..n)
    OBVIOUS
  <1>2. g[1..k] = IF 1..k = {} THEN base
                  ELSE op(p, g[(1..k) \ {Max(1..k)}], s[Max(1..k)])
    BY <1>1 DEF Folder
  <1>3. CASE k = 0
    <2>1. 1..k = {}
      BY <1>3
    <2> QED BY <1>2, <1>3, <2>1
  <1>4. CASE k # 0
    <2>1. k - 1 \in Nat /\ 1..(k - 1) + 1 = 1..k /\ k \in 1..k
      BY <1>4
    <2>2. Max(1..k) = k
      <3> DEFINE j == k - 1
      <3>1. j \in Nat /\ j + 1 = k /\ 1..k \in SUBSET (1..j + 1) /\ j + 1 \in 1..k
        BY <2>1
      <3> HIDE DEF j
      <3>2. Max(1..k) = j + 1
        BY <3>1, MaxLast
      <3> QED BY <3>1, <3>2
    <2>3. (1..k) \ {k} = 1..k - 1
      OBVIOUS
    <2> QED BY <1>2, <1>4, <2>1, <2>2, <2>3
  <1> QED BY <1>3, <1>4

(* Sequences that agree up to a position have the same values up to it.    *)
LEMMA FolderAgrees ==
  ASSUME NEW p, NEW base, NEW s, NEW t, NEW n \in Nat, NEW m \in Nat, n <= m,
         NEW g, Folder(p, base, g, s, n), NEW h, Folder(p, base, h, t, m),
         \A i \in 1..n : s[i] = t[i]
  PROVE  g[1..n] = h[1..n]
  <1> DEFINE T == {k \in Nat : k <= n => g[1..k] = h[1..k]}
  <1>0. /\ \A k \in 0..n : g[1..k] = IF k = 0 THEN base ELSE op(p, g[1..k - 1], s[k])
        /\ \A k \in 0..m : h[1..k] = IF k = 0 THEN base ELSE op(p, h[1..k - 1], t[k])
    <2>1. Steps(p, base, g, s, n) /\ Steps(p, base, h, t, m)
      BY FolderStep
    <2> QED BY <2>1 DEF Steps
  <1>1. 0 \in T
    <2>1. 0 \in 0..n /\ 0 \in 0..m
      OBVIOUS
    <2>2. g[1..0] = base /\ h[1..0] = base
      BY <1>0, <2>1
    <2> QED BY <2>2
  <1>2. ASSUME NEW k \in Nat, k \in T
        PROVE  k + 1 \in T
    <2> SUFFICES ASSUME k + 1 <= n PROVE g[1..k + 1] = h[1..k + 1]
      OBVIOUS
    <2>1. k + 1 \in 0..n /\ k + 1 \in 0..m /\ k + 1 # 0 /\ (k + 1) - 1 = k
          /\ k <= n
      OBVIOUS
    <2>2. g[1..k + 1] = op(p, g[1..k], s[k + 1])
      BY <1>0, <2>1
    <2>3. h[1..k + 1] = op(p, h[1..k], t[k + 1])
      BY <1>0, <2>1
    <2>4. s[k + 1] = t[k + 1] /\ g[1..k] = h[1..k]
      BY <1>2, <2>1
    <2> QED BY <2>2, <2>3, <2>4
  <1> HIDE DEF T
  <1>3. n \in T
    BY <1>1, <1>2, NatSetInduction
  <1> QED BY <1>3 DEF T

LEMMA FoldIsFolder ==
  ASSUME NEW p, NEW base, NEW s, NEW n \in Nat, DOMAIN s = 1..n
  PROVE  \E g : Folder(p, base, g, s, n) /\ Fold(p, base, s) = g[1..n]
  <1> DEFINE g == CHOOSE f : Folder(p, base, f, s, n)
  <1>1. Folder(p, base, g, s, n)
    BY FolderExists
  <1>2. Fold(p, base, s) = g[1..n]
    BY DEF Fold, FoldLeft, MapThenFoldSet, Folder
  <1> QED BY <1>1, <1>2

(* What FoldLeft does: it starts with the base and adds the last element   *)
(* to the fold of those before.                                            *)
LEMMA FoldEmpty ==
  ASSUME NEW p, NEW base
  PROVE  Fold(p, base, <<>>) = base
  <1>1. DOMAIN <<>> = 1..0
    OBVIOUS
  <1>2. PICK g : Folder(p, base, g, <<>>, 0) /\ Fold(p, base, <<>>) = g[1..0]
    BY <1>1, FoldIsFolder
  <1>3. \A k \in 0..0 :
          g[1..k] = IF k = 0 THEN base ELSE op(p, g[1..k - 1], <<>>[k])
    <2>1. Steps(p, base, g, <<>>, 0)
      BY <1>2, FolderStep
    <2> QED BY <2>1 DEF Steps
  <1> QED BY <1>2, <1>3

LEMMA FoldAppend ==
  ASSUME NEW p, NEW base, NEW A, NEW s \in Seq(A), NEW x
  PROVE  Fold(p, base, Append(s, x)) = op(p, Fold(p, base, s), x)
  <1> DEFINE n == Len(s)
             t == Append(s, x)
  <1>1. /\ n \in Nat /\ DOMAIN s = 1..n /\ DOMAIN t = 1..n + 1
        /\ t[n + 1] = x /\ \A i \in 1..n : s[i] = t[i]
    OBVIOUS
  <1> HIDE DEF n, t
  <1>2. PICK g : Folder(p, base, g, s, n) /\ Fold(p, base, s) = g[1..n]
    BY <1>1, FoldIsFolder
  <1>3. n + 1 \in Nat /\ n <= n + 1 /\ n + 1 \in 0..n + 1 /\ n + 1 # 0
        /\ (n + 1) - 1 = n
    BY <1>1
  <1>4. PICK h : Folder(p, base, h, t, n + 1) /\ Fold(p, base, t) = h[1..n + 1]
    BY <1>1, <1>3, FoldIsFolder
  <1>5. h[1..n + 1] = op(p, h[1..n], t[n + 1])
    <2>1. \A k \in 0..n + 1 :
            h[1..k] = IF k = 0 THEN base ELSE op(p, h[1..k - 1], t[k])
      <3>1. Steps(p, base, h, t, n + 1)
        BY <1>3, <1>4, FolderStep
      <3> QED BY <3>1 DEF Steps
    <2> QED BY <1>3, <2>1
  <1>6. g[1..n] = h[1..n]
    BY <1>1, <1>2, <1>3, <1>4, FolderAgrees
  <1> QED BY <1>1, <1>2, <1>4, <1>5, <1>6 DEF t

(* Induction over sequences, with the property as a set.                   *)
LEMMA SeqSetInduction ==
  ASSUME NEW A, NEW T, <<>> \in T,
         \A s \in Seq(A), x \in A : s \in T => Append(s, x) \in T
  PROVE  Seq(A) \subseteq T
  <1> DEFINE U == {n \in Nat : \A s \in Seq(A) : Len(s) = n => s \in T}
  <1>1. 0 \in U
    OBVIOUS
  <1>2. ASSUME NEW n \in Nat, n \in U
        PROVE  n + 1 \in U
    <2>1. ASSUME NEW s \in Seq(A), Len(s) = n + 1
          PROVE  s \in T
      <3>1. PICK t \in Seq(A), x \in A : s = Append(t, x)
        BY <2>1, SequenceEmptyOrAppend, EmptySeq
      <3>2. Len(t) = n
        BY <2>1, <3>1
      <3> QED BY <1>2, <3>1, <3>2
    <2> QED BY <2>1
  <1> HIDE DEF U
  <1>3. \A n \in Nat : n \in U
    BY <1>1, <1>2, NatSetInduction
  <1> QED BY <1>3 DEF U

(* What holds of the base and is kept by the operator holds of every fold. *)
LEMMA FoldType ==
  ASSUME NEW p, NEW base, NEW A, NEW T, base \in T,
         \A before \in T, x \in A : op(p, before, x) \in T
  PROVE  \A s \in Seq(A) : Fold(p, base, s) \in T
  <1> DEFINE U == {s \in Seq(A) : Fold(p, base, s) \in T}
  <1>1. <<>> \in U
    BY FoldEmpty, EmptySeq
  <1>2. \A s \in Seq(A), x \in A : s \in U => Append(s, x) \in U
    <2>1. \A s \in Seq(A), x \in A : Fold(p, base, Append(s, x)) = op(p, Fold(p, base, s), x)
      BY FoldAppend
    <2>2. \A s \in Seq(A), x \in A : Append(s, x) \in Seq(A)
      OBVIOUS
    <2> QED BY <2>1, <2>2
  <1> HIDE DEF U
  <1>3. Seq(A) \subseteq U
    BY <1>1, <1>2, SeqSetInduction
  <1> QED BY <1>3 DEF U

(* A function defined by recursion on a measure.  The equation holds below *)
(* n.                                                                      *)
HoldsBelow(p, D, m, g, n) == \A x \in D : m[x] < n => g[x] = op(p, g, x)

(* The recursion uses the function where the measure is smaller only.      *)
GoesDown(p, D, m) ==
  \A x \in D : \A g, h :
    (\A y \in D : m[y] < m[x] => g[y] = h[y]) => op(p, g, x) = op(p, h, x)

LEMMA HoldsBelowExists ==
  ASSUME NEW p, NEW D, NEW m \in [D -> Nat], GoesDown(p, D, m)
  PROVE  \A n \in Nat : \E g : HoldsBelow(p, D, m, g, n)
  <1> DEFINE T == {n \in Nat : \E g : HoldsBelow(p, D, m, g, n)}
  <1>1. 0 \in T
    BY DEF HoldsBelow
  <1>2. ASSUME NEW n \in Nat, n \in T
        PROVE  n + 1 \in T
    <2>1. PICK g : HoldsBelow(p, D, m, g, n)
      BY <1>2
    <2> DEFINE h == [x \in D |-> op(p, g, x)]
    <2>2. ASSUME NEW x \in D, m[x] < n + 1
          PROVE  h[x] = op(p, h, x)
      <3>1. \A y \in D : m[y] < m[x] => h[y] = g[y]
        BY <2>1, <2>2 DEF HoldsBelow
      <3>2. op(p, h, x) = op(p, g, x)
        <4> HIDE DEF h
        <4> QED BY <3>1 DEF GoesDown
      <3> QED BY <3>2
    <2> HIDE DEF h
    <2>3. HoldsBelow(p, D, m, h, n + 1)
      BY <2>2 DEF HoldsBelow
    <2> QED BY <2>3
  <1> HIDE DEF T
  <1>3. \A n \in Nat : n \in T
    BY <1>1, <1>2, NatSetInduction
  <1> QED BY <1>3 DEF T

LEMMA HoldsBelowUnique ==
  ASSUME NEW p, NEW D, NEW m \in [D -> Nat], GoesDown(p, D, m),
         NEW n \in Nat, NEW k \in Nat, n <= k,
         NEW g, HoldsBelow(p, D, m, g, n), NEW h, HoldsBelow(p, D, m, h, k)
  PROVE  \A x \in D : m[x] < n => g[x] = h[x]
  <1> DEFINE T == {j \in Nat : j <= n => \A x \in D : m[x] < j => g[x] = h[x]}
  <1>1. 0 \in T
    OBVIOUS
  <1>2. ASSUME NEW j \in Nat, j \in T
        PROVE  j + 1 \in T
    <2> SUFFICES ASSUME j + 1 <= n, NEW x \in D, m[x] < j + 1
                 PROVE  g[x] = h[x]
      OBVIOUS
    <2>1. g[x] = op(p, g, x) /\ h[x] = op(p, h, x)
      BY DEF HoldsBelow
    <2>2. \A y \in D : m[y] < m[x] => g[y] = h[y]
      BY <1>2
    <2>3. op(p, g, x) = op(p, h, x)
      BY <2>2 DEF GoesDown
    <2> QED BY <2>1, <2>3
  <1> HIDE DEF T
  <1>3. n \in T
    BY <1>1, <1>2, NatSetInduction
  <1> QED BY <1>3 DEF T

LEMMA RecursionByMeasure ==
  ASSUME NEW p, NEW D, NEW m \in [D -> Nat], GoesDown(p, D, m),
         NEW f, f = CHOOSE g : g = [x \in D |-> op(p, g, x)]
  PROVE  f = [x \in D |-> op(p, f, x)]
  <1> DEFINE below(n) == CHOOSE g : HoldsBelow(p, D, m, g, n)
             h == [x \in D |-> below(m[x] + 1)[x]]
  <1>1. \A n \in Nat : HoldsBelow(p, D, m, below(n), n)
    BY HoldsBelowExists
  <1>2. ASSUME NEW x \in D
        PROVE  h[x] = op(p, h, x)
    <2> DEFINE g == below(m[x] + 1)
    <2>1. m[x] + 1 \in Nat /\ HoldsBelow(p, D, m, g, m[x] + 1)
      BY <1>1
    <2>2. g[x] = op(p, g, x) /\ h[x] = g[x]
      BY <2>1 DEF HoldsBelow
    <2>3. \A y \in D : m[y] < m[x] => h[y] = g[y]
      <3> SUFFICES ASSUME NEW y \in D, m[y] < m[x] PROVE h[y] = g[y]
        OBVIOUS
      <3>1. m[y] + 1 \in Nat /\ m[y] + 1 <= m[x] + 1 /\ m[y] < m[y] + 1
        OBVIOUS
      <3>2. HoldsBelow(p, D, m, below(m[y] + 1), m[y] + 1)
        BY <1>1, <3>1
      <3>3. h[y] = below(m[y] + 1)[y]
        OBVIOUS
      <3> HIDE DEF below, h, g
      <3>4. below(m[y] + 1)[y] = g[y]
        BY <2>1, <3>1, <3>2, HoldsBelowUnique
      <3> QED BY <3>3, <3>4
    <2> HIDE DEF h, g
    <2>4. op(p, h, x) = op(p, g, x)
      BY <2>3 DEF GoesDown
    <2> QED BY <2>2, <2>4
  <1>3. h = [x \in D |-> h[x]]
    OBVIOUS
  <1> HIDE DEF h
  <1>4. h = [x \in D |-> op(p, h, x)]
    BY <1>2, <1>3
  <1> QED BY <1>4
=============================================================================
