--------------------------- MODULE PlotStackProofs --------------------------
(***************************************************************************)
(* Proofs about PlotStack, for any configurations, plots, scales and data  *)
(* and any order of calls: every plot is kept in its own file and in the   *)
(* stack, and a title leads the plots of what it names.                    *)
(*                                                                         *)
(* The argument: a call prints its pages as a fold over them               *)
(* (PrintPagesFacts), each to the end of a stack that is open, a plot to   *)
(* its own file before.  A stack that belongs to one configuration is open *)
(* for ROOT just when its configuration takes it to be (StackOK), so that  *)
(* a call starts an empty file or goes on at the end of what it has had    *)
(* (PrintedStep).  The plots among pages are a fold too, which is split    *)
(* where two calls meet (PlotsOfJoin), and so is the order of titles and   *)
(* plots (TitledJoin).                                                     *)
(*                                                                         *)
(* A later plot does not overwrite the file of an earlier one of its call: *)
(* the scales asked for are chosen from a list of different ones           *)
(* (ChosenFacts, ScalesFacts), the kinds differ (SheetsFacts), and so do   *)
(* the names of the parts of a simultaneous plot if those of the types do  *)
(* (PartsOfFacts).                                                         *)
(***************************************************************************)
EXTENDS PlotStack, SequenceTheorems, TLAPS

-----------------------------------------------------------------------------
(* Pages, and sequences of them.  No prover knows that a literal is a      *)
(* string, so those that occur are added.                                  *)
Text == STRING \cup {"category", "summed", "all"}

Scale == {"linear", "log"} \X {"linear", "log"}
Of == (Int \X Text) \cup (Int \X Text \X Text)

Page ==
  [kind: {"empty", "toys"}]
  \cup [kind: {"title"}, name: Seq(Text), of: Of]
  \cup [kind: {"simple", "pull"}, name: Seq(Text), scale: Scale, of: Of]

PrintOn(f, e, page) ==
  PrintPage(IF IsPlot(page) THEN PrintPage(e, FileOf(page), page) ELSE e, f, page)
Prints == INSTANCE FoldFacts WITH op <- PrintOn

KeepPlot(p, before, page) == IF IsPlot(page) THEN Append(before, page) ELSE before
Keeps == INSTANCE FoldFacts WITH op <- KeepPlot

Choose(among, before, x) == IF x \in among THEN Append(before, x) ELSE before
Picks == INSTANCE FoldFacts WITH op <- Choose

Join(p, before, s) == before \o s
Joins == INSTANCE FoldFacts WITH op <- Join

LEMMA PrintPagesIsFold ==
  ASSUME NEW d, NEW f, NEW pages
  PROVE  PrintPages(d, f, pages) = Prints!Fold(f, d, pages)
  BY DEF PrintPages, Prints!Fold, PrintOn, FoldLeft, Prints!FoldLeft,
         MapThenFoldSet, Prints!MapThenFoldSet, Max, Prints!Max

LEMMA PlotsOfIsFold ==
  ASSUME NEW pages
  PROVE  PlotsOf(pages) = Keeps!Fold(0, <<>>, pages)
  BY DEF PlotsOf, Keeps!Fold, KeepPlot, FoldLeft, Keeps!FoldLeft,
         MapThenFoldSet, Keeps!MapThenFoldSet, Max, Keeps!Max

LEMMA ChosenIsFold ==
  ASSUME NEW s, NEW among
  PROVE  Chosen(s, among) = Picks!Fold(among, <<>>, s)
  BY DEF Chosen, Picks!Fold, Choose, FoldLeft, Picks!FoldLeft,
         MapThenFoldSet, Picks!MapThenFoldSet, Max, Picks!Max

LEMMA ConcatIsFold ==
  ASSUME NEW seqs
  PROVE  Concat(seqs) = Joins!Fold(0, <<>>, seqs)
  BY DEF Concat, Joins!Fold, Join, FoldLeft, Joins!FoldLeft,
         MapThenFoldSet, Joins!MapThenFoldSet, Max, Joins!Max

(* One element more, at the end.                                           *)
LEMMA AppendFacts ==
  ASSUME NEW A, NEW s \in Seq(A), NEW x \in A
  PROVE  /\ Append(s, x) \in Seq(A) /\ Len(Append(s, x)) = Len(s) + 1 /\ Len(s) \in Nat
         /\ DOMAIN s = 1..Len(s) /\ DOMAIN Append(s, x) = 1..Len(s) + 1
         /\ Append(s, x)[Len(s) + 1] = x
         /\ \A i \in 1..Len(s) : Append(s, x)[i] = s[i]
OBVIOUS

(* Two sequences in one.                                                   *)
LEMMA JoinFacts ==
  ASSUME NEW A, NEW s \in Seq(A), NEW t \in Seq(A)
  PROVE  /\ s \o t \in Seq(A) /\ Len(s \o t) = Len(s) + Len(t)
         /\ Len(s) \in Nat /\ Len(t) \in Nat
         /\ \A i \in 1..Len(s) : (s \o t)[i] = s[i]
         /\ \A i \in 1..Len(t) : (s \o t)[Len(s) + i] = t[i]
         /\ \A i \in 1..Len(s \o t) : i \notin 1..Len(s) =>
              i - Len(s) \in 1..Len(t) /\ (s \o t)[i] = t[i - Len(s)]
         /\ s \o <<>> = s /\ <<>> \o s = s
OBVIOUS

LEMMA JoinAppend ==
  ASSUME NEW A, NEW s \in Seq(A), NEW t \in Seq(A), NEW x \in A
  PROVE  s \o Append(t, x) = Append(s \o t, x)
OBVIOUS

(* The plots among pages.                                                  *)
LEMMA PlotsOfFacts ==
  ASSUME NEW s \in Seq(Page)
  PROVE  /\ PlotsOf(s) \in Seq(Page)
         /\ \A i \in 1..Len(PlotsOf(s)) :
              IsPlot(PlotsOf(s)[i]) /\ \E j \in 1..Len(s) : PlotsOf(s)[i] = s[j]
         /\ (\A j \in 1..Len(s) : IsPlot(s[j])) => PlotsOf(s) = s
         /\ (\A j \in 1..Len(s) : ~IsPlot(s[j])) => PlotsOf(s) = <<>>
  <1> DEFINE Good(t, u) ==
               /\ u \in Seq(Page)
               /\ \A i \in 1..Len(u) : IsPlot(u[i]) /\ \E j \in 1..Len(t) : u[i] = t[j]
               /\ (\A j \in 1..Len(t) : IsPlot(t[j])) => u = t
               /\ (\A j \in 1..Len(t) : ~IsPlot(t[j])) => u = <<>>
             F(t) == Keeps!Fold(0, <<>>, t)
             T == {t \in Seq(Page) : Good(t, F(t))}
  <1>1. <<>> \in T
    <2>1. F(<<>>) = <<>>
      BY Keeps!FoldEmpty
    <2> HIDE DEF F
    <2>2. <<>> \in Seq(Page) /\ 1..Len(<<>>) = {}
      OBVIOUS
    <2> QED BY <2>1, <2>2
  <1>2. ASSUME NEW t \in T, NEW x \in Page
        PROVE  Append(t, x) \in T
    <2>1. F(Append(t, x)) = KeepPlot(0, F(t), x)
      BY Keeps!FoldAppend
    <2> DEFINE u == F(t)
               t1 == Append(t, x)
    <2>2. t \in Seq(Page) /\ Good(t, u)
      OBVIOUS
    <2> HIDE DEF F, u
    <2> HIDE DEF Good
    <2>3. /\ t1 \in Seq(Page) /\ Len(t1) = Len(t) + 1 /\ Len(t) \in Nat
          /\ t1[Len(t) + 1] = x /\ \A i \in 1..Len(t) : t1[i] = t[i]
      BY <2>2, AppendFacts
    <2> HIDE DEF t1
    <2>4. CASE IsPlot(x)
      <3> DEFINE u1 == Append(u, x)
      <3>1. F(t1) = u1
        BY <2>1, <2>4 DEF KeepPlot, u, t1
      <3>2. /\ u1 \in Seq(Page) /\ Len(u1) = Len(u) + 1 /\ Len(u) \in Nat
            /\ u1[Len(u) + 1] = x /\ \A i \in 1..Len(u) : u1[i] = u[i]
        BY <2>2, AppendFacts DEF Good
      <3> HIDE DEF u1
      <3>3. ASSUME NEW i \in 1..Len(u1)
            PROVE  IsPlot(u1[i]) /\ \E j \in 1..Len(t1) : u1[i] = t1[j]
        <4>1. CASE i = Len(u) + 1
          <5>1. Len(t) + 1 \in 1..Len(t1)
            BY <2>3
          <5> QED BY <2>3, <2>4, <3>2, <4>1, <5>1
        <4>2. CASE i # Len(u) + 1
          <5>1. i \in 1..Len(u)
            BY <3>2, <4>2
          <5>2. PICK j \in 1..Len(t) : u[i] = t[j] /\ IsPlot(u[i])
            BY <2>2, <5>1 DEF Good
          <5>3. j \in 1..Len(t1)
            BY <2>3
          <5> QED BY <2>3, <3>2, <5>1, <5>2, <5>3
        <4> QED BY <4>1, <4>2
      <3>4. (\A j \in 1..Len(t1) : IsPlot(t1[j])) => u1 = t1
        <4> SUFFICES ASSUME \A j \in 1..Len(t1) : IsPlot(t1[j]) PROVE u1 = t1
          OBVIOUS
        <4>1. \A j \in 1..Len(t) : j \in 1..Len(t1)
          BY <2>3
        <4>2. u = t
          BY <2>2, <2>3, <4>1 DEF Good
        <4> QED BY <4>2 DEF u1, t1
      <3>5. Len(t1) \in 1..Len(t1) /\ t1[Len(t1)] = x
        BY <2>3
      <3>6. Good(t1, u1)
        BY <2>4, <3>2, <3>3, <3>4, <3>5 DEF Good
      <3> QED BY <2>3, <3>1, <3>6 DEF t1
    <2>5. CASE ~IsPlot(x)
      <3>1. F(t1) = u
        BY <2>1, <2>5 DEF KeepPlot, u, t1
      <3>2. \A j \in 1..Len(t) : j \in 1..Len(t1)
        BY <2>3
      <3>3. Len(t1) \in 1..Len(t1) /\ t1[Len(t1)] = x
        BY <2>3
      <3>4. \A i \in 1..Len(u) : IsPlot(u[i]) /\ \E j \in 1..Len(t1) : u[i] = t1[j]
        BY <2>2, <2>3, <3>2 DEF Good
      <3>5. (\A j \in 1..Len(t1) : ~IsPlot(t1[j])) => u = <<>>
        BY <2>2, <2>3, <3>2 DEF Good
      <3>6. Good(t1, u)
        BY <2>2, <2>5, <3>3, <3>4, <3>5 DEF Good
      <3> QED BY <2>3, <3>1, <3>6 DEF t1
    <2> QED BY <2>4, <2>5
  <1>3. Seq(Page) \subseteq T
    <2> HIDE DEF T
    <2> QED BY ONLY <1>1, <1>2, Keeps!SeqSetInduction
  <1>4. Good(s, F(s))
    BY <1>3
  <1> HIDE DEF F
  <1>5. PlotsOf(s) = F(s)
    BY PlotsOfIsFold DEF F
  <1> QED BY <1>4, <1>5

LEMMA PlotsOfJoin ==
  ASSUME NEW s \in Seq(Page), NEW t \in Seq(Page)
  PROVE  PlotsOf(s \o t) = PlotsOf(s) \o PlotsOf(t)
  <1> DEFINE F(u) == Keeps!Fold(0, <<>>, u)
             T == {u \in Seq(Page) : F(s \o u) = F(s) \o F(u)}
  <1>0. \A u \in Seq(Page) : F(u) \in Seq(Page)
    BY PlotsOfFacts, PlotsOfIsFold
  <1>1. <<>> \in T
    <2>1. F(<<>>) = <<>>
      BY Keeps!FoldEmpty
    <2>2. F(s) \in Seq(Page)
      BY <1>0
    <2> HIDE DEF F
    <2>3. s \o <<>> = s /\ F(s) \o <<>> = F(s) /\ <<>> \in Seq(Page)
      BY <2>2
    <2> QED BY <2>1, <2>3
  <1>2. ASSUME NEW u \in T, NEW x \in Page
        PROVE  Append(u, x) \in T
    <2>1. u \in Seq(Page) /\ F(s \o u) = F(s) \o F(u) /\ s \o u \in Seq(Page)
          /\ Append(u, x) \in Seq(Page)
      OBVIOUS
    <2>2. s \o Append(u, x) = Append(s \o u, x)
      BY <2>1, JoinAppend
    <2>3. F(Append(s \o u, x)) = KeepPlot(0, F(s \o u), x)
      <3> DEFINE v == s \o u
      <3>1. v \in Seq(Page)
        BY <2>1
      <3> HIDE DEF v
      <3>2. F(Append(v, x)) = KeepPlot(0, F(v), x)
        BY <3>1, Keeps!FoldAppend
      <3> QED BY <3>2 DEF v
    <2>3a. F(Append(u, x)) = KeepPlot(0, F(u), x)
      BY <2>1, Keeps!FoldAppend
    <2>4. F(s) \in Seq(Page) /\ F(u) \in Seq(Page)
      BY <1>0, <2>1
    <2> HIDE DEF F
    <2>5. F(s) \o Append(F(u), x) = Append(F(s) \o F(u), x)
      BY <2>4, JoinAppend
    <2>6. F(s \o Append(u, x)) = F(s) \o F(Append(u, x))
      BY <2>1, <2>2, <2>3, <2>3a, <2>5 DEF KeepPlot
    <2> QED BY <2>1, <2>6
  <1>3. Seq(Page) \subseteq T
    <2> HIDE DEF T
    <2> QED BY ONLY <1>1, <1>2, Keeps!SeqSetInduction
  <1>4. F(s \o t) = F(s) \o F(t)
    BY <1>3
  <1> HIDE DEF F
  <1> QED BY <1>4, PlotsOfIsFold DEF F

(* What is chosen from a sequence is in it, and twice only if it is there  *)
(* twice.                                                                  *)
Differ(s) == \A i, j \in 1..Len(s) : s[i] = s[j] => i = j

LEMMA ChosenFacts ==
  ASSUME NEW A, NEW s \in Seq(A), NEW among
  PROVE  /\ Chosen(s, among) \in Seq(A)
         /\ \A i \in 1..Len(Chosen(s, among)) :
              \E j \in 1..Len(s) : Chosen(s, among)[i] = s[j]
         /\ Differ(s) => Differ(Chosen(s, among))
         /\ (\E j \in 1..Len(s) : s[j] \in among) => Len(Chosen(s, among)) > 0
  <1> DEFINE Good(t, u) ==
               /\ u \in Seq(A)
               /\ \A i \in 1..Len(u) : \E j \in 1..Len(t) : u[i] = t[j]
               /\ Differ(t) => Differ(u)
               /\ (\E j \in 1..Len(t) : t[j] \in among) => Len(u) > 0
             F(t) == Picks!Fold(among, <<>>, t)
             T == {t \in Seq(A) : Good(t, F(t))}
  <1>1. <<>> \in T
    <2>1. F(<<>>) = <<>>
      BY Picks!FoldEmpty
    <2> HIDE DEF F
    <2>2. <<>> \in Seq(A) /\ 1..Len(<<>>) = {}
      OBVIOUS
    <2> QED BY <2>1, <2>2
  <1>2. ASSUME NEW t \in T, NEW x \in A
        PROVE  Append(t, x) \in T
    <2>1. F(Append(t, x)) = Choose(among, F(t), x)
      BY Picks!FoldAppend
    <2> DEFINE u == F(t)
               t1 == Append(t, x)
    <2>2. t \in Seq(A) /\ Good(t, u)
      OBVIOUS
    <2> HIDE DEF F, u, Good
    <2>3. /\ t1 \in Seq(A) /\ Len(t1) = Len(t) + 1 /\ Len(t) \in Nat
          /\ t1[Len(t) + 1] = x /\ \A i \in 1..Len(t) : t1[i] = t[i]
      BY <2>2, AppendFacts
    <2> HIDE DEF t1
    <2>4. Differ(t1) => Differ(t) /\ \A j \in 1..Len(t) : t[j] # x
      <3> SUFFICES ASSUME Differ(t1) PROVE Differ(t) /\ \A j \in 1..Len(t) : t[j] # x
        OBVIOUS
      <3>1. \A j \in 1..Len(t) : j \in 1..Len(t1) /\ j # Len(t) + 1
        BY <2>3
      <3>2. Len(t) + 1 \in 1..Len(t1)
        BY <2>3
      <3> QED BY <2>3, <3>1, <3>2 DEF Differ
    <2>5. CASE x \in among
      <3> DEFINE u1 == Append(u, x)
      <3>1. F(t1) = u1
        BY <2>1, <2>5 DEF Choose, u, t1
      <3>2. /\ u1 \in Seq(A) /\ Len(u1) = Len(u) + 1 /\ Len(u) \in Nat
            /\ u1[Len(u) + 1] = x /\ \A i \in 1..Len(u) : u1[i] = u[i]
        BY <2>2, AppendFacts DEF Good
      <3> HIDE DEF u1
      <3>3. \A i \in 1..Len(u1) : \E j \in 1..Len(t1) : u1[i] = t1[j]
        <4> TAKE i \in 1..Len(u1)
        <4>1. CASE i = Len(u) + 1
          <5>1. Len(t) + 1 \in 1..Len(t1)
            BY <2>3
          <5> QED BY <2>3, <3>2, <4>1, <5>1
        <4>2. CASE i # Len(u) + 1
          <5>1. i \in 1..Len(u)
            BY <3>2, <4>2
          <5>2. PICK j \in 1..Len(t) : u[i] = t[j]
            BY <2>2, <5>1 DEF Good
          <5>3. j \in 1..Len(t1)
            BY <2>3
          <5> QED BY <2>3, <3>2, <5>1, <5>2, <5>3
        <4> QED BY <4>1, <4>2
      <3>4. Differ(t1) => Differ(u1)
        <4> SUFFICES ASSUME Differ(t1), NEW i \in 1..Len(u1), NEW j \in 1..Len(u1),
                            u1[i] = u1[j]
                     PROVE  i = j
          BY DEF Differ
        <4>1. Differ(u) /\ \A k \in 1..Len(u) : u[k] # x
          BY <2>2, <2>4 DEF Good
        <4>2. \A k \in 1..Len(u1) : k \in 1..Len(u) \/ k = Len(u) + 1
          BY <3>2
        <4>3. i \in 1..Len(u) <=> j \in 1..Len(u)
          BY <3>2, <4>1, <4>2
        <4> QED BY <3>2, <4>1, <4>2, <4>3 DEF Differ
      <3>5. Good(t1, u1)
        <4>1. Len(u1) > 0
          BY <3>2
        <4> QED BY <3>2, <3>3, <3>4, <4>1 DEF Good
      <3> QED BY <2>3, <3>1, <3>5 DEF t1
    <2>6. CASE x \notin among
      <3>1. F(t1) = u
        BY <2>1, <2>6 DEF Choose, u, t1
      <3>2. \A j \in 1..Len(t) : j \in 1..Len(t1)
        BY <2>3
      <3>3. (\E j \in 1..Len(t1) : t1[j] \in among) => \E j \in 1..Len(t) : t[j] \in among
        BY <2>3, <2>6
      <3>4. Good(t1, u)
        BY <2>2, <2>3, <2>4, <3>2, <3>3 DEF Good
      <3> QED BY <2>3, <3>1, <3>4 DEF t1
    <2> QED BY <2>5, <2>6
  <1>3. Seq(A) \subseteq T
    <2> HIDE DEF T
    <2> QED BY ONLY <1>1, <1>2, Picks!SeqSetInduction
  <1>4. Good(s, F(s))
    BY <1>3
  <1> HIDE DEF F
  <1>5. Chosen(s, among) = F(s)
    BY ChosenIsFold DEF F
  <1> QED BY <1>4, <1>5

-----------------------------------------------------------------------------
(* No two plots have the same file; titles lead their plots.               *)
Unique(s) ==
  \A i, j \in 1..Len(s) : IsPlot(s[i]) /\ IsPlot(s[j]) /\ FileOf(s[i]) = FileOf(s[j]) => i = j

Apart(s, t) ==
  \A i \in 1..Len(s), j \in 1..Len(t) :
    IsPlot(s[i]) /\ IsPlot(t[j]) => FileOf(s[i]) # FileOf(t[j])

LEMMA UniqueJoin ==
  ASSUME NEW s \in Seq(Page), NEW t \in Seq(Page), Unique(s), Unique(t), Apart(s, t)
  PROVE  Unique(s \o t)
  <1> DEFINE u == s \o t
             n == Len(s)
  <1>1. /\ n \in Nat /\ \A i \in 1..n : u[i] = s[i]
        /\ \A i \in 1..Len(u) : i \notin 1..n =>
             i - n \in 1..Len(t) /\ u[i] = t[i - n]
    BY JoinFacts
  <1> HIDE DEF u
  <1> SUFFICES ASSUME NEW i \in 1..Len(u), NEW j \in 1..Len(u),
                      IsPlot(u[i]), IsPlot(u[j]), FileOf(u[i]) = FileOf(u[j])
               PROVE  i = j
    BY DEF Unique, u
  <1>2. CASE i \in 1..n /\ j \in 1..n
    BY <1>1, <1>2 DEF Unique
  <1>3. CASE i \notin 1..n /\ j \notin 1..n
    <2>1. i - n = j - n
      BY <1>1, <1>3 DEF Unique
    <2> QED BY <1>1, <2>1
  <1>4. CASE i \in 1..n /\ j \notin 1..n
    BY <1>1, <1>4 DEF Apart
  <1>5. CASE i \notin 1..n /\ j \in 1..n
    BY <1>1, <1>5 DEF Apart
  <1> QED BY <1>2, <1>3, <1>4, <1>5

LEMMA PairIsSeq ==
  ASSUME NEW A, NEW x \in A, NEW y \in A
  PROVE  <<x>> \in Seq(A) /\ <<x, y>> \in Seq(A)
OBVIOUS

LEMMA SeqMonotone ==
  ASSUME NEW A, NEW B, A \subseteq B
  PROVE  Seq(A) \subseteq Seq(B)
OBVIOUS

LEMMA NamesAreText ==
  ASSUME NEW p \in DOMAIN Plots
  PROVE  /\ Plots[p].name \in Text
         /\ IsSimultaneous(p) =>
              /\ Plots[p].types \in Seq(Text)
              /\ Plots[p].inputs \in Seq([name: Text, types: Seq(Text)])
  <1>1. STRING \subseteq Text
    BY DEF Text
  <1> HIDE DEF Text
  <1>2. Seq(STRING) \subseteq Seq(Text)
    BY <1>1, SeqMonotone
  <1>3. [name: STRING, types: Seq(STRING)] \subseteq [name: Text, types: Seq(Text)]
    BY <1>1, <1>2
  <1>4. Seq([name: STRING, types: Seq(STRING)]) \subseteq Seq([name: Text, types: Seq(Text)])
    BY ONLY <1>3, SeqMonotone
  <1>5. /\ Plots[p].name \in STRING
        /\ IsSimultaneous(p) =>
             /\ Plots[p].types \in Seq(STRING)
             /\ Plots[p].inputs \in Seq([name: STRING, types: Seq(STRING)])
    BY PlotStackAssumption
  <1> QED BY <1>1, <1>2, <1>4, <1>5

LEMMA ScalesFacts ==
  ASSUME NEW sc \in Scalings
  PROVE  /\ Scales(sc) \in Seq(Scale)
         /\ Len(Scales(sc)) > 0
         /\ Differ(Scales(sc))
  <1> DEFINE among == Axes(sc[1]) \X Axes(sc[2])
  <1>1. sc[1] \in {"linear", "log", "both"} /\ sc[2] \in {"linear", "log", "both"}
    BY PlotStackAssumption
  <1>2. /\ AllScales \in Seq(Scale) /\ Len(AllScales) = 4
        /\ AllScales[1] = <<"linear", "linear">> /\ AllScales[2] = <<"log", "linear">>
        /\ AllScales[3] = <<"linear", "log">> /\ AllScales[4] = <<"log", "log">>
    BY DEF AllScales, Scale
  <1>3. Differ(AllScales)
    <2> SUFFICES ASSUME NEW i \in 1..4, NEW j \in 1..4, AllScales[i] = AllScales[j]
                 PROVE  i = j
      BY <1>2 DEF Differ
    <2>1. i \in {1, 2, 3, 4} /\ j \in {1, 2, 3, 4}
      OBVIOUS
    <2> QED BY <1>2, <2>1
  <1>4. \E j \in 1..Len(AllScales) : AllScales[j] \in among
    <2>1. "linear" \in Axes(sc[1]) \/ "log" \in Axes(sc[1])
      BY <1>1 DEF Axes
    <2>2. "linear" \in Axes(sc[2]) \/ "log" \in Axes(sc[2])
      BY <1>1 DEF Axes
    <2>3. 1 \in 1..4 /\ 2 \in 1..4 /\ 3 \in 1..4 /\ 4 \in 1..4
      OBVIOUS
    <2>4. \A x \in Axes(sc[1]), y \in Axes(sc[2]) : <<x, y>> \in among
      OBVIOUS
    <2> HIDE DEF among
    <2>5. CASE "linear" \in Axes(sc[1]) /\ "linear" \in Axes(sc[2])
      <3>1. AllScales[1] \in among
        BY <1>2, <2>4, <2>5
      <3> QED BY <1>2, <2>3, <3>1
    <2>6. CASE "log" \in Axes(sc[1]) /\ "linear" \in Axes(sc[2])
      <3>1. AllScales[2] \in among
        BY <1>2, <2>4, <2>6
      <3> QED BY <1>2, <2>3, <3>1
    <2>7. CASE "linear" \in Axes(sc[1]) /\ "log" \in Axes(sc[2])
      <3>1. AllScales[3] \in among
        BY <1>2, <2>4, <2>7
      <3> QED BY <1>2, <2>3, <3>1
    <2>8. CASE "log" \in Axes(sc[1]) /\ "log" \in Axes(sc[2])
      <3>1. AllScales[4] \in among
        BY <1>2, <2>4, <2>8
      <3> QED BY <1>2, <2>3, <3>1
    <2> QED BY <2>1, <2>2, <2>5, <2>6, <2>7, <2>8
  <1> HIDE DEF among
  <1>5. Scales(sc) = Chosen(AllScales, among)
    BY DEF Scales, among
  <1> QED BY <1>2, <1>3, <1>4, <1>5, ChosenFacts

(* The sheets of a plot: all are plots, of one name and of the same data.  *)
SheetsOf(s, name, of) ==
  \A i \in 1..Len(s) : IsPlot(s[i]) /\ s[i].name = name /\ s[i].of = of

LEMMA SheetsFacts ==
  ASSUME NEW name \in Seq(Text), NEW of \in Of, NEW pdf \in BOOLEAN, NEW sc \in Scalings
  PROVE  LET s == Sheets(name, of, pdf, sc)
         IN  s \in Seq(Page) /\ Len(s) > 0 /\ SheetsOf(s, name, of) /\ Unique(s)
  <1> DEFINE scales == Scales(sc)
             n == Len(scales)
             sheet(kind, i) == [kind |-> kind, name |-> name, scale |-> scales[i], of |-> of]
             Kind(kind) == [i \in DOMAIN scales |-> sheet(kind, i)]
             s == Sheets(name, of, pdf, sc)
  <1>1. /\ scales \in Seq(Scale) /\ n \in Nat /\ n > 0 /\ Differ(scales)
        /\ DOMAIN scales = 1..n
    BY ScalesFacts
  <1>2. s = IF pdf THEN Kind("simple") \o Kind("pull") ELSE Kind("simple")
    BY DEF Sheets
  <1>3. \A i \in 1..n : scales[i] \in Scale
    BY <1>1, ElementOfSeq
  <1>4. \A i, j \in 1..n : scales[i] = scales[j] => i = j
    BY <1>1 DEF Differ
  <1> HIDE DEF scales, n, s
  <1>5. ASSUME NEW kind \in {"simple", "pull"}
        PROVE  /\ Kind(kind) \in Seq(Page) /\ Len(Kind(kind)) = n
               /\ \A i \in 1..n : Kind(kind)[i] = sheet(kind, i)
               /\ SheetsOf(Kind(kind), name, of) /\ Unique(Kind(kind))
    <2> DEFINE t == Kind(kind)
    <2>1. \A i \in 1..n : t[i] = sheet(kind, i) /\ sheet(kind, i) \in Page
      BY <1>1, <1>3 DEF Page
    <2>2. \A i \in 1..n : /\ t[i].kind = kind /\ t[i].name = name
                          /\ t[i].scale = scales[i] /\ t[i].of = of
      BY <1>1
    <2>2a. t = [i \in 1..n |-> t[i]]
      BY <1>1
    <2> HIDE DEF t
    <2>3. \A i \in 1..n : IsPlot(t[i]) /\ t[i].name = name /\ t[i].of = of
      BY <2>2 DEF IsPlot
    <2>4. \A i \in 1..n : FileOf(t[i])[3] = scales[i]
      BY <2>2 DEF FileOf
    <2>5. t \in Seq(Page) /\ Len(t) = n
      <3> HIDE DEF sheet
      <3>1. t \in [1..n -> Page]
        BY <2>1, <2>2a
      <3> QED BY <1>1, <3>1, IsASeq, LenProperties
    <2>6. Unique(t)
      <3> SUFFICES ASSUME NEW i \in 1..n, NEW j \in 1..n, FileOf(t[i]) = FileOf(t[j])
                   PROVE  i = j
        BY <2>5 DEF Unique
      <3> QED BY <1>4, <2>4
    <2> QED BY <2>1, <2>3, <2>5, <2>6 DEF t, SheetsOf
  <1>6. CASE ~pdf
    BY <1>1, <1>2, <1>5, <1>6 DEF s
  <1>7. CASE pdf
    <2> DEFINE a == Kind("simple")
               b == Kind("pull")
    <2>1. /\ a \in Seq(Page) /\ Len(a) = n /\ SheetsOf(a, name, of) /\ Unique(a)
          /\ \A i \in 1..n : a[i] = sheet("simple", i)
      BY <1>5
    <2>2. /\ b \in Seq(Page) /\ Len(b) = n /\ SheetsOf(b, name, of) /\ Unique(b)
          /\ \A i \in 1..n : b[i] = sheet("pull", i)
      BY <1>5
    <2>3. s = a \o b
      BY <1>2, <1>7
    <2> HIDE DEF a, b, Kind
    <2>4. Apart(a, b)
      <3> SUFFICES ASSUME NEW i \in 1..n, NEW j \in 1..n PROVE FileOf(a[i]) # FileOf(b[j])
        BY <2>1, <2>2 DEF Apart
      <3>1. FileOf(a[i])[2] = "simple" /\ FileOf(b[j])[2] = "pull"
        BY <2>1, <2>2 DEF FileOf
      <3> QED BY <3>1
    <2>5. Unique(s)
      BY <2>1, <2>2, <2>3, <2>4, UniqueJoin
    <2>6. /\ s \in Seq(Page) /\ Len(s) = n + n
          /\ \A i \in 1..n : s[i] = a[i]
          /\ \A i \in 1..Len(s) : i \notin 1..n => i - n \in 1..n /\ s[i] = b[i - n]
      <3>0. a \in Seq(Page) /\ b \in Seq(Page)
        BY <2>1, <2>2
      <3>1. /\ a \o b \in Seq(Page) /\ Len(a \o b) = Len(a) + Len(b)
            /\ \A i \in 1..Len(a) : (a \o b)[i] = a[i]
            /\ \A i \in 1..Len(a \o b) : i \notin 1..Len(a) =>
                 i - Len(a) \in 1..Len(b) /\ (a \o b)[i] = b[i - Len(a)]
        BY ONLY <3>0, JoinFacts
      <3> QED BY <2>1, <2>2, <2>3, <3>1
    <2>7. Len(s) > 0 /\ SheetsOf(s, name, of)
      <3>1. Len(s) > 0
        BY <1>1, <2>6
      <3>2. SheetsOf(s, name, of)
        <4>1. ASSUME NEW i \in 1..Len(s)
              PROVE  IsPlot(s[i]) /\ s[i].name = name /\ s[i].of = of
          <5>1. CASE i \in 1..n
            BY <2>1, <2>6, <5>1 DEF SheetsOf
          <5>2. CASE i \notin 1..n
            BY <2>2, <2>6, <5>2 DEF SheetsOf
          <5> QED BY <5>1, <5>2
        <4> QED BY <4>1 DEF SheetsOf
      <3> QED BY <3>1, <3>2
    <2> QED BY <2>5, <2>6, <2>7 DEF s
  <1> QED BY <1>6, <1>7

(* What a title announces is a sequence of plots.                          *)
LEMMA TitleTypes ==
  ASSUME NEW s \in Seq(Page), NEW i \in 1..Len(s), IsPartTitle(s[i]), NEW sc \in Scalings
  PROVE  Len(Sheets(s[i].name, s[i].of, TRUE, sc)) \in Nat
  <1>1. s[i] \in Page
    BY ElementOfSeq
  <1>2. s[i].name \in Seq(Text) /\ s[i].of \in Of
    BY <1>1 DEF Page, IsPartTitle
  <1> QED BY <1>2, SheetsFacts, LenProperties

LEMMA TitledJoin ==
  ASSUME NEW s \in Seq(Page), NEW t \in Seq(Page), TitledParts(s), TitledParts(t)
  PROVE  TitledParts(s \o t)
  <1> DEFINE u == s \o t
             n == Len(s)
             m == Len(t)
             sheets(page, sc) == Sheets(page.name, page.of, TRUE, sc)
  <1>1. /\ n \in Nat /\ m \in Nat /\ Len(u) = n + m
        /\ \A i \in 1..n : u[i] = s[i]
        /\ \A i \in 1..m : u[n + i] = t[i]
        /\ \A i \in 1..Len(u) : i \notin 1..n => i - n \in 1..m /\ u[i] = t[i - n]
    BY JoinFacts
  <1>2. /\ \A i \in 1..n : IsPartTitle(s[i]) => BeforeItsPlots(s, i)
        /\ \A i \in 1..n : IsPartPlot(s[i]) => BehindItsTitle(s, i)
        /\ \A i \in 1..m : IsPartTitle(t[i]) => BeforeItsPlots(t, i)
        /\ \A i \in 1..m : IsPartPlot(t[i]) => BehindItsTitle(t, i)
    BY DEF TitledParts
  <1>3. \A sc \in Scalings :
          /\ \A i \in 1..n : IsPartTitle(s[i]) => Len(sheets(s[i], sc)) \in Nat
          /\ \A i \in 1..m : IsPartTitle(t[i]) => Len(sheets(t[i], sc)) \in Nat
    BY TitleTypes
  (* The first page of t is behind no title.                               *)
  <1>4. m > 0 => ~IsPartPlot(t[1])
    <2> SUFFICES ASSUME m > 0, IsPartPlot(t[1]) PROVE FALSE
      OBVIOUS
    <2>1. 1 \in 1..m
      BY <1>1
    <2>2. BehindItsTitle(t, 1)
      BY <1>2, <2>1
    <2> QED BY <2>2 DEF BehindItsTitle
  <1> HIDE DEF u, n, m
  <1>5. ASSUME NEW i \in 1..Len(u), IsPartTitle(u[i])
        PROVE  BeforeItsPlots(u, i)
    <2>1. CASE i \in 1..n
      <3>1. u[i] = s[i] /\ IsPartTitle(s[i])
        BY <1>1, <1>5, <2>1
      <3>2. PICK sc \in Scalings :
              LET last == i + Len(sheets(s[i], sc))
              IN  /\ last <= n
                  /\ \A k \in 1..Len(sheets(s[i], sc)) : s[i + k] = sheets(s[i], sc)[k]
                  /\ last < n => ~IsPartPlot(s[last + 1])
        BY <1>2, <2>1, <3>1 DEF BeforeItsPlots, n
      <3> DEFINE those == sheets(s[i], sc)
                 z == Len(those)
      <3>3. z \in Nat
        BY <1>3, <2>1, <3>1
      <3>4. those = sheets(u[i], sc)
        BY <3>1
      <3>5. /\ i + z <= n
            /\ \A k \in 1..z : s[i + k] = those[k]
            /\ i + z < n => ~IsPartPlot(s[i + z + 1])
        BY <3>2
      <3> HIDE DEF those, z
      <3>6. i + z <= Len(u)
        BY <1>1, <2>1, <3>3, <3>5
      <3>7. \A k \in 1..z : u[i + k] = those[k]
        <4> TAKE k \in 1..z
        <4>1. i + k \in 1..n
          BY <1>1, <2>1, <3>3, <3>5
        <4> QED BY <1>1, <3>5, <4>1
      <3>8. ASSUME i + z < Len(u) PROVE ~IsPartPlot(u[i + z + 1])
        <4>1. CASE i + z < n
          <5>1. i + z + 1 \in 1..n
            BY <1>1, <2>1, <3>3, <4>1
          <5> QED BY <1>1, <3>5, <4>1, <5>1
        <4>2. CASE i + z = n
          <5>1. 1 \in 1..m /\ i + z + 1 = n + 1 /\ m > 0
            BY <1>1, <3>8, <4>2
          <5> QED BY <1>1, <1>4, <5>1
        <4> QED BY <1>1, <2>1, <3>3, <3>5, <4>1, <4>2
      <3> QED BY <3>4, <3>6, <3>7, <3>8 DEF BeforeItsPlots, z
    <2>2. CASE i \notin 1..n
      <3> DEFINE h == i - n
      <3>1. h \in 1..m /\ u[i] = t[h] /\ i = n + h
        BY <1>1, <2>2
      <3> HIDE DEF h
      <3>2. IsPartTitle(t[h])
        BY <1>5, <3>1
      <3>3. PICK sc \in Scalings :
              LET last == h + Len(sheets(t[h], sc))
              IN  /\ last <= m
                  /\ \A k \in 1..Len(sheets(t[h], sc)) : t[h + k] = sheets(t[h], sc)[k]
                  /\ last < m => ~IsPartPlot(t[last + 1])
        BY <1>2, <3>1, <3>2 DEF BeforeItsPlots, m
      <3> DEFINE those == sheets(t[h], sc)
                 z == Len(those)
      <3>4. z \in Nat
        BY <1>3, <3>1, <3>2
      <3>5. those = sheets(u[i], sc)
        BY <3>1
      <3>6. /\ h + z <= m
            /\ \A k \in 1..z : t[h + k] = those[k]
            /\ h + z < m => ~IsPartPlot(t[h + z + 1])
        BY <3>3
      <3> HIDE DEF those, z
      <3>7. i + z <= Len(u)
        BY <1>1, <3>1, <3>4, <3>6
      <3>8. \A k \in 1..z : u[i + k] = those[k]
        <4> TAKE k \in 1..z
        <4>1. h + k \in 1..m /\ i + k = n + (h + k)
          BY <1>1, <3>1, <3>4, <3>6
        <4> QED BY <1>1, <3>6, <4>1
      <3>9. ASSUME i + z < Len(u) PROVE ~IsPartPlot(u[i + z + 1])
        <4>1. h + z < m /\ h + z + 1 \in 1..m /\ i + z + 1 = n + (h + z + 1)
          BY <1>1, <3>1, <3>4, <3>9
        <4> QED BY <1>1, <3>6, <4>1
      <3> QED BY <3>5, <3>7, <3>8, <3>9 DEF BeforeItsPlots, z
    <2> QED BY <2>1, <2>2
  <1>6. ASSUME NEW j \in 1..Len(u), IsPartPlot(u[j])
        PROVE  BehindItsTitle(u, j)
    <2>1. CASE j \in 1..n
      <3>1. IsPartPlot(s[j])
        BY <1>1, <1>6, <2>1
      <3>2. PICK i \in 1..j - 1 :
              /\ IsPartTitle(s[i])
              /\ \A k \in i + 1..j : IsPlot(s[k]) /\ s[k].of = s[i].of
        BY <1>2, <2>1, <3>1 DEF BehindItsTitle
      <3>3. i \in 1..n /\ \A k \in i + 1..j : k \in 1..n
        BY <1>1, <2>1
      <3> QED BY <1>1, <3>2, <3>3 DEF BehindItsTitle
    <2>2. CASE j \notin 1..n
      <3> DEFINE h == j - n
      <3>1. h \in 1..m /\ u[j] = t[h] /\ j = n + h
        BY <1>1, <2>2
      <3> HIDE DEF h
      <3>2. PICK i \in 1..h - 1 :
              /\ IsPartTitle(t[i])
              /\ \A k \in i + 1..h : IsPlot(t[k]) /\ t[k].of = t[i].of
        BY <1>2, <1>6, <3>1 DEF BehindItsTitle
      <3>3. i \in 1..m /\ n + i \in 1..j - 1
        BY <1>1, <3>1
      <3>4. ASSUME NEW k \in (n + i) + 1..j
            PROVE  IsPlot(u[k]) /\ u[k].of = u[n + i].of
        <4>1. k - n \in i + 1..h /\ k - n \in 1..m /\ k = n + (k - n)
          BY <1>1, <3>1, <3>3
        <4> QED BY <1>1, <3>2, <3>3, <4>1
      <3> QED BY <1>1, <3>2, <3>3, <3>4 DEF BehindItsTitle
    <2> QED BY <2>1, <2>2
  <1> QED BY <1>5, <1>6 DEF TitledParts, u

(* Sequences of pages in one.                                              *)
LEMMA ConcatFacts ==
  ASSUME NEW ss \in Seq(Seq(Page))
  PROVE  /\ Concat(ss) \in Seq(Page)
         /\ \A k \in 1..Len(Concat(ss)) :
              \E i \in 1..Len(ss) : \E j \in 1..Len(ss[i]) : Concat(ss)[k] = ss[i][j]
         /\ (\A i \in 1..Len(ss) : TitledParts(ss[i])) => TitledParts(Concat(ss))
         /\ (/\ \A i \in 1..Len(ss) : Unique(ss[i])
             /\ \A i, j \in 1..Len(ss) : i < j => Apart(ss[i], ss[j])) =>
            Unique(Concat(ss))
  <1> DEFINE Good(t, u) ==
               /\ u \in Seq(Page)
               /\ \A k \in 1..Len(u) :
                    \E i \in 1..Len(t) : \E j \in 1..Len(t[i]) : u[k] = t[i][j]
               /\ (\A i \in 1..Len(t) : TitledParts(t[i])) => TitledParts(u)
               /\ (/\ \A i \in 1..Len(t) : Unique(t[i])
                   /\ \A i, j \in 1..Len(t) : i < j => Apart(t[i], t[j])) =>
                  Unique(u)
             F(t) == Joins!Fold(0, <<>>, t)
             T == {t \in Seq(Seq(Page)) : Good(t, F(t))}
  <1>1. <<>> \in T
    <2>1. F(<<>>) = <<>>
      BY Joins!FoldEmpty
    <2> HIDE DEF F
    <2>2. <<>> \in Seq(Seq(Page)) /\ <<>> \in Seq(Page) /\ 1..Len(<<>>) = {}
      OBVIOUS
    <2>3. TitledParts(<<>>) /\ Unique(<<>>)
      BY <2>2 DEF TitledParts, Unique
    <2> QED BY <2>1, <2>2, <2>3
  <1>2. ASSUME NEW t \in T, NEW x \in Seq(Page)
        PROVE  Append(t, x) \in T
    <2>1. F(Append(t, x)) = Join(0, F(t), x)
      BY Joins!FoldAppend
    <2> DEFINE u == F(t)
               t1 == Append(t, x)
               u1 == u \o x
    <2>2. t \in Seq(Seq(Page)) /\ Good(t, u)
      OBVIOUS
    <2> HIDE DEF F, u, Good
    <2>3. /\ t1 \in Seq(Seq(Page)) /\ Len(t1) = Len(t) + 1 /\ Len(t) \in Nat
          /\ t1[Len(t) + 1] = x /\ \A i \in 1..Len(t) : t1[i] = t[i]
      BY <2>2, AppendFacts
    <2>4. F(t1) = u1
      BY <2>1 DEF Join, u
    <2> HIDE DEF t1
    <2>5. /\ u1 \in Seq(Page) /\ \A i \in 1..Len(u) : u1[i] = u[i]
          /\ \A i \in 1..Len(u1) : i \notin 1..Len(u) =>
               i - Len(u) \in 1..Len(x) /\ u1[i] = x[i - Len(u)]
          /\ u \in Seq(Page)
      BY <2>2, JoinFacts DEF Good
    <2>6. /\ \A i \in 1..Len(t) : i \in 1..Len(t1) /\ i < Len(t) + 1
          /\ Len(t) + 1 \in 1..Len(t1)
      BY <2>3
    <2>7. (\A i \in 1..Len(t1) : TitledParts(t1[i])) => TitledParts(u1)
      <3> SUFFICES ASSUME \A i \in 1..Len(t1) : TitledParts(t1[i]) PROVE TitledParts(u1)
        OBVIOUS
      <3>1. TitledParts(x) /\ \A i \in 1..Len(t) : TitledParts(t[i])
        BY <2>3, <2>6
      <3>2. TitledParts(u)
        BY <2>2, <3>1 DEF Good
      <3> QED BY <2>5, <3>1, <3>2, TitledJoin
    <2>8. (/\ \A i \in 1..Len(t1) : Unique(t1[i])
           /\ \A i, j \in 1..Len(t1) : i < j => Apart(t1[i], t1[j])) => Unique(u1)
      <3> SUFFICES ASSUME \A i \in 1..Len(t1) : Unique(t1[i]),
                          \A i, j \in 1..Len(t1) : i < j => Apart(t1[i], t1[j])
                   PROVE  Unique(u1)
        OBVIOUS
      <3>1. Unique(x) /\ \A i \in 1..Len(t) : Unique(t[i]) /\ Apart(t[i], x)
        BY <2>3, <2>6
      <3>2. \A i, j \in 1..Len(t) : i < j => Apart(t[i], t[j])
        BY <2>3, <2>6
      <3>3. Unique(u)
        BY <2>2, <3>1, <3>2 DEF Good
      <3>4. Apart(u, x)
        <4> SUFFICES ASSUME NEW k \in 1..Len(u), NEW l \in 1..Len(x),
                            IsPlot(u[k]), IsPlot(x[l])
                     PROVE  FileOf(u[k]) # FileOf(x[l])
          BY DEF Apart
        <4>1. PICK i \in 1..Len(t) : \E j \in 1..Len(t[i]) : u[k] = t[i][j]
          BY <2>2 DEF Good
        <4> QED BY <3>1, <4>1 DEF Apart
      <3> QED BY <2>5, <3>1, <3>3, <3>4, UniqueJoin
    <2> HIDE DEF u1
    <2>9. \A k \in 1..Len(u1) :
            \E i \in 1..Len(t1) : \E j \in 1..Len(t1[i]) : u1[k] = t1[i][j]
      <3> TAKE k \in 1..Len(u1)
      <3>1. CASE k \in 1..Len(u)
        <4>1. PICK i \in 1..Len(t) : \E j \in 1..Len(t[i]) : u[k] = t[i][j]
          BY <2>2, <3>1 DEF Good
        <4> QED BY <2>3, <2>5, <2>6, <3>1, <4>1
      <3>2. CASE k \notin 1..Len(u)
        BY <2>3, <2>5, <2>6, <3>2
      <3> QED BY <3>1, <3>2
    <2>10. Good(t1, u1)
      BY <2>5, <2>7, <2>8, <2>9 DEF Good
    <2> QED BY <2>3, <2>4, <2>10 DEF t1
  <1>3. Seq(Seq(Page)) \subseteq T
    <2> HIDE DEF T
    <2> QED BY ONLY <1>1, <1>2, Joins!SeqSetInduction
  <1>4. Good(ss, F(ss))
    BY <1>3
  <1> HIDE DEF F
  <1>5. Concat(ss) = F(ss)
    BY ConcatIsFold DEF F
  <1> QED BY <1>4, <1>5

(* Plots of no part need no title.                                         *)
LEMMA PlotsLead ==
  ASSUME NEW s, \A i \in 1..Len(s) : IsPlot(s[i]) /\ Len(s[i].of) = 2
  PROVE  TitledParts(s)
  <1>1. 2 # 3
    OBVIOUS
  <1> QED BY <1>1 DEF TitledParts, IsPartTitle, IsPartPlot, IsPlot

(* A title and the plot it announces.                                      *)
LEMMA TitledFacts ==
  ASSUME NEW name \in Seq(Text), NEW of \in Of, NEW sc \in Scalings
  PROVE  LET s == <<Title(name, of)>> \o Sheets(name, of, TRUE, sc)
         IN  /\ s \in Seq(Page) /\ TitledParts(s) /\ Unique(s)
             /\ \A i \in 1..Len(s) : s[i].name = name
  <1> DEFINE a == <<Title(name, of)>>
             b == Sheets(name, of, TRUE, sc)
             s == a \o b
  <1>1. b \in Seq(Page) /\ Len(b) > 0 /\ SheetsOf(b, name, of) /\ Unique(b)
    BY SheetsFacts
  <1>2. /\ Title(name, of) \in Page /\ ~IsPlot(Title(name, of))
        /\ Title(name, of).name = name /\ Title(name, of).of = of
    BY DEF Title, Page, IsPlot
  <1>3. a \in Seq(Page) /\ Len(a) = 1 /\ a[1] = Title(name, of)
    BY <1>2
  <1> HIDE DEF a, b
  <1>4. /\ s \in Seq(Page) /\ Len(s) = 1 + Len(b) /\ s[1] = a[1] /\ Len(b) \in Nat
        /\ \A i \in 1..Len(b) : s[1 + i] = b[i]
        /\ \A i \in 1..Len(s) : i # 1 => i - 1 \in 1..Len(b) /\ s[i] = b[i - 1]
    <2>1. /\ a \o b \in Seq(Page) /\ Len(a \o b) = Len(a) + Len(b) /\ Len(b) \in Nat
          /\ \A i \in 1..Len(a) : (a \o b)[i] = a[i]
          /\ \A i \in 1..Len(b) : (a \o b)[Len(a) + i] = b[i]
          /\ \A i \in 1..Len(a \o b) : i \notin 1..Len(a) =>
               i - Len(a) \in 1..Len(b) /\ (a \o b)[i] = b[i - Len(a)]
      <3>1. a \in Seq(Page) /\ b \in Seq(Page)
        BY <1>1, <1>3
      <3> QED BY ONLY <3>1, JoinFacts
    <2>2. \A i : i \in 1..1 <=> i = 1
      OBVIOUS
    <2> QED BY <1>3, <2>1, <2>2
  <1>5. Unique(s)
    <2>1. Unique(a)
      BY <1>2, <1>3 DEF Unique
    <2>2. Apart(a, b)
      BY <1>2, <1>3 DEF Apart
    <2> QED BY <1>1, <1>3, <2>1, <2>2, UniqueJoin
  <1> HIDE DEF s
  <1>6. TitledParts(s)
    <2>1. s[1] = Title(name, of) /\ 1 \in 1..Len(s)
      BY <1>3, <1>4
    <2>2. \A i \in 1..Len(s) : i # 1 => IsPlot(s[i]) /\ s[i].of = of
      BY <1>1, <1>4 DEF SheetsOf
    <2>3. ASSUME NEW i \in 1..Len(s), IsPartTitle(s[i])
          PROVE  BeforeItsPlots(s, i)
      <3>1. i = 1
        BY <2>2, <2>3 DEF IsPartTitle, IsPlot
      <3>2. Sheets(s[i].name, s[i].of, TRUE, sc) = b
        <4>1. s[i].name = name /\ s[i].of = of
          BY <1>2, <2>1, <3>1
        <4> QED BY ONLY <4>1 DEF b
      <3>3. /\ i + Len(b) <= Len(s)
            /\ \A k \in 1..Len(b) : s[i + k] = b[k]
            /\ ~(i + Len(b) < Len(s))
        BY <1>4, <3>1
      <3> QED BY ONLY <3>2, <3>3, sc \in Scalings DEF BeforeItsPlots
    <2>4. ASSUME NEW i \in 1..Len(s), IsPartPlot(s[i])
          PROVE  BehindItsTitle(s, i)
      <3>1. i # 1
        BY <1>2, <2>1, <2>4 DEF IsPartPlot
      <3>2. Len(of) = 3
        BY <2>2, <2>4, <3>1 DEF IsPartPlot
      <3>3. IsPartTitle(s[1]) /\ s[1].of = of
        BY <1>2, <2>1, <3>2 DEF IsPartTitle, Title
      <3>4. 1 \in 1..i - 1 /\ \A k \in 1 + 1..i : k \in 1..Len(s) /\ k # 1
        BY <1>4, <3>1
      <3> QED BY <2>2, <3>3, <3>4 DEF BehindItsTitle
    <2> QED BY <2>3, <2>4 DEF TitledParts
  <1>7. \A i \in 1..Len(s) : s[i].name = name
    BY <1>1, <1>2, <1>3, <1>4 DEF SheetsOf
  <1> QED BY <1>4, <1>5, <1>6, <1>7 DEF s, a, b

(* The parts of a simultaneous plot.                                       *)
NamedBy(s, p, types) ==
  \A i \in 1..Len(s) : \E k \in 1..Len(types) : s[i].name = PartName(p, types[k])

LEMMA PartsFacts ==
  ASSUME NEW p \in DOMAIN Plots, NEW group \in Text, NEW types \in Seq(Text),
         NEW no \in Int, NEW sc \in Scalings
  PROVE  LET s == Parts(p, group, types, no, sc)
         IN  /\ s \in Seq(Page) /\ TitledParts(s) /\ NamedBy(s, p, types)
             /\ Differ(types) => Unique(s)
  <1> DEFINE n == Len(types)
             name(i) == PartName(p, types[i])
             of(i) == <<no, group, types[i]>>
             block(i) == <<Title(name(i), of(i))>> \o Sheets(name(i), of(i), TRUE, sc)
             ss == [i \in DOMAIN types |-> block(i)]
             s == Parts(p, group, types, no, sc)
  <1>1. n \in Nat /\ DOMAIN types = 1..n /\ \A i \in 1..n : types[i] \in Text
    BY ElementOfSeq
  <1>2. s = Concat(ss)
    BY DEF Parts
  <1>3. \A i \in 1..n : name(i) \in Seq(Text) /\ of(i) \in Of
    <2> TAKE i \in 1..n
    <2>1. Plots[p].name \in Text /\ types[i] \in Text
      BY <1>1, NamesAreText
    <2>2. of(i) \in Of
      BY <2>1 DEF Of
    <2>3. PartName(p, types[i]) \in Seq(Text)
      BY <2>1, PairIsSeq DEF PartName
    <2> QED BY <2>2, <2>3
  <1> HIDE DEF n, s
  <1>4. \A i \in 1..n : /\ block(i) \in Seq(Page) /\ TitledParts(block(i)) /\ Unique(block(i))
                        /\ \A k \in 1..Len(block(i)) : block(i)[k].name = name(i)
    <2> HIDE DEF name, of
    <2> QED BY <1>3, TitledFacts
  <1>5. /\ ss \in Seq(Seq(Page)) /\ Len(ss) = n
        /\ \A i \in 1..n : ss[i] = block(i)
    <2> HIDE DEF block
    <2>1. ss \in [1..n -> Seq(Page)]
      BY <1>1, <1>4
    <2>2. \A i \in 1..n : ss[i] = block(i)
      BY <1>1
    <2> HIDE DEF ss
    <2> QED BY <1>1, <2>1, <2>2, IsASeq, LenProperties
  <1> HIDE DEF block, ss
  <1>6. s \in Seq(Page) /\ TitledParts(s)
    BY <1>2, <1>4, <1>5, ConcatFacts
  <1>7. NamedBy(s, p, types)
    <2>1. \A k \in 1..Len(s) : \E i \in 1..n : \E j \in 1..Len(ss[i]) : s[k] = ss[i][j]
      BY <1>2, <1>5, ConcatFacts
    <2> SUFFICES ASSUME NEW k \in 1..Len(s)
                 PROVE  \E i \in 1..n : s[k].name = PartName(p, types[i])
      BY DEF NamedBy, n
    <2>2. PICK i \in 1..n : \E j \in 1..Len(ss[i]) : s[k] = ss[i][j]
      BY <2>1
    <2>3. PICK j \in 1..Len(ss[i]) : s[k] = ss[i][j]
      BY <2>2
    <2>4. ss[i] = block(i)
      BY <1>5
    <2>5. s[k].name = name(i)
      BY <1>4, <2>3, <2>4
    <2> QED BY <2>5
  <1>8. ASSUME Differ(types) PROVE Unique(s)
    <2>1. \A i, j \in 1..n : i < j => Apart(ss[i], ss[j])
      <3> SUFFICES ASSUME NEW i \in 1..n, NEW j \in 1..n, i < j,
                          NEW k \in 1..Len(ss[i]), NEW l \in 1..Len(ss[j]),
                          FileOf(ss[i][k]) = FileOf(ss[j][l])
                   PROVE  FALSE
        BY DEF Apart
      <3>1. FileOf(ss[i][k])[1] = PartName(p, types[i])
            /\ FileOf(ss[j][l])[1] = PartName(p, types[j])
        BY <1>4, <1>5 DEF FileOf
      <3>2. types[i] = types[j]
        BY <3>1 DEF PartName
      <3> QED BY <1>1, <1>8, <3>2 DEF Differ, n
    <2>2. \A i \in 1..n : Unique(ss[i])
      BY <1>4, <1>5
    <2> QED BY <1>2, <1>5, <2>1, <2>2, ConcatFacts
  <1> QED BY <1>6, <1>7, <1>8 DEF s

(* The files of the stacks; those of the plots are none of them.           *)
StackFiles == Stacks \X Appendices

DiskOK(d) ==
  /\ d.open \subseteq StackFiles
  /\ StackFiles \subseteq DOMAIN d.files
  /\ \A f \in StackFiles : d.files[f] \in Seq(Page)

LEMMA FilesApart ==
  ASSUME NEW page
  PROVE  FileOf(page) \notin StackFiles
  <1> SUFFICES ASSUME FileOf(page) \in StackFiles PROVE FALSE
    OBVIOUS
  <1>1. DOMAIN FileOf(page) = 1..2
    BY DEF StackFiles
  <1>2. DOMAIN FileOf(page) = 1..3
    BY DEF FileOf
  <1> QED BY ONLY <1>1, <1>2

LEMMA PrintPageFacts ==
  ASSUME NEW d, NEW f, NEW page
  PROVE  LET e == PrintPage(d, f, page)
         IN  /\ e.open = d.open
             /\ DOMAIN e.files = DOMAIN d.files \cup {f}
             /\ e.files[f] = IF f \in d.open THEN Append(d.files[f], page) ELSE <<page>>
             /\ \A g \in DOMAIN d.files : g # f => e.files[g] = d.files[g]
  BY DEF PrintPage

LEMMA PrintPageOK ==
  ASSUME NEW d, DiskOK(d), NEW f, NEW page \in Page
  PROVE  DiskOK(PrintPage(d, f, page))
  <1> DEFINE e == PrintPage(d, f, page)
  <1>1. /\ e.open = d.open
        /\ DOMAIN e.files = DOMAIN d.files \cup {f}
        /\ e.files[f] = IF f \in d.open THEN Append(d.files[f], page) ELSE <<page>>
        /\ \A g \in DOMAIN d.files : g # f => e.files[g] = d.files[g]
    BY PrintPageFacts
  <1> HIDE DEF e
  <1>2. <<page>> \in Seq(Page) /\ \A s \in Seq(Page) : Append(s, page) \in Seq(Page)
    OBVIOUS
  <1>3. ASSUME NEW g \in StackFiles
        PROVE  e.files[g] \in Seq(Page)
    <2>1. CASE g # f
      BY <1>1, <2>1 DEF DiskOK
    <2>2. CASE g = f
      BY <1>1, <1>2, <2>2 DEF DiskOK
    <2> QED BY <2>1, <2>2
  <1>4. DiskOK(e)
    BY <1>1, <1>3 DEF DiskOK
  <1> QED BY <1>4 DEF e

(* One page of a plot.                                                     *)
LEMMA PrintOnFacts ==
  ASSUME NEW d, DiskOK(d), NEW f \in StackFiles, NEW page \in Page
  PROVE  LET e == PrintOn(f, d, page)
         IN  /\ DiskOK(e) /\ e.open = d.open
             /\ DOMAIN d.files \subseteq DOMAIN e.files
             /\ f \in d.open => e.files[f] = Append(d.files[f], page)
             /\ IsPlot(page) => /\ FileOf(page) \in DOMAIN e.files
                                /\ e.files[FileOf(page)] = <<page>>
             /\ \A g \in DOMAIN d.files :
                  g # f /\ (IsPlot(page) => g # FileOf(page)) => e.files[g] = d.files[g]
  <1> DEFINE own == FileOf(page)
             d1 == IF IsPlot(page) THEN PrintPage(d, own, page) ELSE d
             e == PrintPage(d1, f, page)
  <1>1. own \notin StackFiles
    BY FilesApart
  <1> HIDE DEF own
  <1>2. own # f /\ own \notin d.open
    BY <1>1 DEF DiskOK
  <1>3. DiskOK(d1)
    BY PrintPageOK
  <1>4. /\ d1.open = d.open
        /\ DOMAIN d.files \subseteq DOMAIN d1.files
        /\ IsPlot(page) => own \in DOMAIN d1.files /\ d1.files[own] = <<page>>
        /\ \A g \in DOMAIN d.files : (IsPlot(page) => g # own) => d1.files[g] = d.files[g]
    <2>1. CASE ~IsPlot(page)
      BY <2>1
    <2>2. CASE IsPlot(page)
      <3>1. d1 = PrintPage(d, own, page)
        BY <2>2
      <3>2. LET a == PrintPage(d, own, page)
            IN  /\ a.open = d.open
                /\ DOMAIN a.files = DOMAIN d.files \cup {own}
                /\ a.files[own] = IF own \in d.open THEN Append(d.files[own], page) ELSE <<page>>
                /\ \A g \in DOMAIN d.files : g # own => a.files[g] = d.files[g]
        BY ONLY PrintPageFacts
      <3>3. d1.files[own] = <<page>>
        BY <1>2, <3>1, <3>2
      <3> HIDE DEF d1
      <3> QED BY <2>2, <3>1, <3>2, <3>3
    <2> QED BY <2>1, <2>2
  <1> HIDE DEF d1
  <1>5. DiskOK(e)
    BY <1>3, PrintPageOK
  <1>6. /\ e.open = d1.open
        /\ DOMAIN e.files = DOMAIN d1.files \cup {f}
        /\ e.files[f] = IF f \in d1.open THEN Append(d1.files[f], page) ELSE <<page>>
        /\ \A g \in DOMAIN d1.files : g # f => e.files[g] = d1.files[g]
    BY PrintPageFacts
  <1> HIDE DEF e
  <1>7. f \in DOMAIN d.files
    BY DEF DiskOK
  <1>8. /\ DiskOK(e) /\ e.open = d.open
        /\ DOMAIN d.files \subseteq DOMAIN e.files
        /\ f \in d.open => e.files[f] = Append(d.files[f], page)
        /\ IsPlot(page) => own \in DOMAIN e.files /\ e.files[own] = <<page>>
        /\ \A g \in DOMAIN d.files :
             g # f /\ (IsPlot(page) => g # own) => e.files[g] = d.files[g]
    BY <1>2, <1>4, <1>5, <1>6, <1>7
  <1>9. e = PrintOn(f, d, page)
    BY DEF PrintOn, e, d1, own
  <1> QED BY <1>8, <1>9 DEF own

(* The pages of a plot: they go to the end of a stack that is open, the    *)
(* plots among them to their own files, and no other stack is touched.     *)
LEMMA PrintPagesFacts ==
  ASSUME NEW d, DiskOK(d), NEW f \in StackFiles, NEW pages \in Seq(Page)
  PROVE  LET e == PrintPages(d, f, pages)
         IN  /\ DiskOK(e) /\ e.open = d.open
             /\ f \in d.open => e.files[f] = d.files[f] \o pages
             /\ \A g \in StackFiles : g # f => e.files[g] = d.files[g]
             /\ \A i \in 1..Len(pages) : IsPlot(pages[i]) => FileOf(pages[i]) \in DOMAIN e.files
             /\ Unique(pages) =>
                  \A i \in 1..Len(pages) :
                    IsPlot(pages[i]) => e.files[FileOf(pages[i])] = <<pages[i]>>
  <1> DEFINE Good(t, e) ==
               /\ DiskOK(e) /\ e.open = d.open
               /\ f \in d.open => e.files[f] = d.files[f] \o t
               /\ \A g \in StackFiles : g # f => e.files[g] = d.files[g]
               /\ \A i \in 1..Len(t) : IsPlot(t[i]) => FileOf(t[i]) \in DOMAIN e.files
               /\ Unique(t) =>
                    \A i \in 1..Len(t) : IsPlot(t[i]) => e.files[FileOf(t[i])] = <<t[i]>>
             F(t) == Prints!Fold(f, d, t)
             T == {t \in Seq(Page) : Good(t, F(t))}
  <1>1. <<>> \in T
    <2>1. F(<<>>) = d
      BY Prints!FoldEmpty
    <2> HIDE DEF F
    <2>2. <<>> \in Seq(Page) /\ 1..Len(<<>>) = {}
      OBVIOUS
    <2>3. \A s \in Seq(Page) : s \o <<>> = s
      OBVIOUS
    <2>4. d.files[f] \o <<>> = d.files[f]
      BY <2>3 DEF DiskOK
    <2>5. Good(<<>>, d)
      BY <2>2, <2>4
    <2> QED BY <2>1, <2>2, <2>5
  <1>2. ASSUME NEW t \in T, NEW x \in Page
        PROVE  Append(t, x) \in T
    <2> DEFINE e == F(t)
               t1 == Append(t, x)
               e1 == PrintOn(f, e, x)
    <2>1. F(t1) = e1
      BY Prints!FoldAppend
    <2>2. t \in Seq(Page) /\ Good(t, e)
      OBVIOUS
    <2> HIDE DEF F, e, Good
    <2>3. DiskOK(e) /\ e.open = d.open
      BY <2>2 DEF Good
    <2>4. /\ DiskOK(e1) /\ e1.open = e.open
          /\ DOMAIN e.files \subseteq DOMAIN e1.files
          /\ f \in e.open => e1.files[f] = Append(e.files[f], x)
          /\ IsPlot(x) => FileOf(x) \in DOMAIN e1.files /\ e1.files[FileOf(x)] = <<x>>
          /\ \A g \in DOMAIN e.files :
               g # f /\ (IsPlot(x) => g # FileOf(x)) => e1.files[g] = e.files[g]
      BY <2>3, PrintOnFacts
    <2> HIDE DEF e1
    <2>5. /\ t1 \in Seq(Page) /\ Len(t1) = Len(t) + 1 /\ Len(t) \in Nat
          /\ t1[Len(t) + 1] = x /\ \A i \in 1..Len(t) : t1[i] = t[i]
      BY <2>2, AppendFacts
    <2>6. f \in d.open => e1.files[f] = d.files[f] \o t1
      <3> SUFFICES ASSUME f \in d.open PROVE e1.files[f] = d.files[f] \o t1
        OBVIOUS
      <3>1. e1.files[f] = Append(d.files[f] \o t, x)
        BY <2>2, <2>3, <2>4 DEF Good
      <3> HIDE DEF Good
      <3>2. d.files[f] \in Seq(Page)
        BY DEF DiskOK
      <3>3. t \in Seq(Page)
        BY <2>2
      <3>4. d.files[f] \o Append(t, x) = Append(d.files[f] \o t, x)
        <4> DEFINE r == d.files[f]
        <4>1. r \in Seq(Page)
          BY <3>2
        <4> HIDE DEF r
        <4>2. r \o Append(t, x) = Append(r \o t, x)
          BY ONLY <3>3, <4>1, x \in Page, JoinAppend
        <4> QED BY <4>2 DEF r
      <3> QED BY <3>1, <3>4 DEF t1
    <2> HIDE DEF t1
    <2>7. \A i \in 1..Len(t1) : (i \in 1..Len(t) /\ t1[i] = t[i]) \/ t1[i] = x
      <3> SUFFICES ASSUME NEW i \in 1..Len(t1), i # Len(t) + 1
                   PROVE  i \in 1..Len(t)
        BY <2>5
      <3> QED BY <2>5
    <2>8. \A g \in StackFiles : g # f => e1.files[g] = d.files[g]
      <3> SUFFICES ASSUME NEW g \in StackFiles, g # f PROVE e1.files[g] = d.files[g]
        OBVIOUS
      <3>1. g # FileOf(x)
        BY FilesApart
      <3>2. g \in DOMAIN e.files
        BY <2>3 DEF DiskOK
      <3> QED BY <2>2, <2>4, <3>1, <3>2 DEF Good
    <2>9. \A i \in 1..Len(t1) : IsPlot(t1[i]) => FileOf(t1[i]) \in DOMAIN e1.files
      <3> SUFFICES ASSUME NEW i \in 1..Len(t1), IsPlot(t1[i])
                   PROVE  FileOf(t1[i]) \in DOMAIN e1.files
        OBVIOUS
      <3>1. CASE t1[i] = x
        BY <2>4, <3>1
      <3>2. CASE i \in 1..Len(t) /\ t1[i] = t[i]
        BY <2>2, <2>4, <3>2 DEF Good
      <3> QED BY <2>7, <3>1, <3>2
    <2>10. ASSUME Unique(t1), NEW i \in 1..Len(t1), IsPlot(t1[i])
           PROVE  e1.files[FileOf(t1[i])] = <<t1[i]>>
      <3>1. CASE t1[i] = x
        BY <2>4, <2>10, <3>1
      <3>2. CASE i \in 1..Len(t) /\ t1[i] = t[i]
        <4>1. \A k \in 1..Len(t) : k \in 1..Len(t1)
          BY <2>5
        <4>2. Unique(t)
          <5> SUFFICES ASSUME NEW k \in 1..Len(t), NEW l \in 1..Len(t),
                              IsPlot(t[k]), IsPlot(t[l]), FileOf(t[k]) = FileOf(t[l])
                       PROVE  k = l
            BY DEF Unique
          <5> QED BY <2>5, <2>10, <4>1 DEF Unique
        <4>3. IsPlot(x) => FileOf(t[i]) # FileOf(x)
          <5>1. Len(t) + 1 \in 1..Len(t1) /\ i # Len(t) + 1
            BY <2>5, <3>2
          <5> QED BY <2>5, <2>10, <3>2, <5>1 DEF Unique
        <4>4. FileOf(t[i]) # f
          BY FilesApart
        <4>5. FileOf(t[i]) \in DOMAIN e.files /\ e.files[FileOf(t[i])] = <<t[i]>>
          BY <2>2, <2>10, <3>2, <4>2 DEF Good
        <4> QED BY <2>4, <3>2, <4>3, <4>4, <4>5
      <3> QED BY <2>7, <3>1, <3>2
    <2>11. Good(t1, e1)
      BY <2>3, <2>4, <2>6, <2>8, <2>9, <2>10 DEF Good
    <2> QED BY <2>1, <2>5, <2>11 DEF t1
  <1>3. Seq(Page) \subseteq T
    <2> HIDE DEF T
    <2> QED BY ONLY <1>1, <1>2, Prints!SeqSetInduction
  <1>4. Good(pages, F(pages))
    BY <1>3
  <1> HIDE DEF F
  <1>5. PrintPages(d, f, pages) = F(pages)
    BY PrintPagesIsFold DEF F
  <1> QED BY <1>4, <1>5

(* Nothing but f is changed from d to e.                                   *)
OnlyFile(d, e, f) ==
  \A g \in StackFiles \ {f} : e.files[g] = d.files[g] /\ (g \in e.open <=> g \in d.open)

SameFiles(d, e, f) ==
  /\ DOMAIN d.files \subseteq DOMAIN e.files
  /\ \A g \in DOMAIN d.files \ {f} : e.files[g] = d.files[g]

LEMMA EmptyPageInPage == EmptyPage \in Page
  BY DEF EmptyPage, Page

LEMMA OpenFileFacts ==
  ASSUME NEW d, DiskOK(d), NEW f \in StackFiles
  PROVE  LET e == OpenFile(d, f)
         IN  /\ DiskOK(e) /\ OnlyFile(d, e, f) /\ SameFiles(d, e, f) /\ f \in e.open
             /\ f \notin d.open => e.files[f] = <<>>
  <1>1. CASE f \in d.open
    <2> DEFINE e == PrintPage(d, f, EmptyPage)
    <2>1. DiskOK(e)
      BY EmptyPageInPage, PrintPageOK
    <2>2. /\ e.open = d.open
          /\ DOMAIN d.files \subseteq DOMAIN e.files
          /\ \A g \in DOMAIN d.files : g # f => e.files[g] = d.files[g]
      BY DEF PrintPage
    <2> HIDE DEF e
    <2>3. OnlyFile(d, e, f) /\ SameFiles(d, e, f)
      BY <2>2 DEF OnlyFile, SameFiles, DiskOK
    <2>4. OpenFile(d, f) = e
      BY <1>1 DEF OpenFile, e
    <2> QED BY <1>1, <2>1, <2>2, <2>3, <2>4
  <1>2. CASE f \notin d.open
    <2> DEFINE e == [files |-> [d.files EXCEPT ![f] = <<>>], open |-> d.open \cup {f}]
    <2>1. /\ e.open = d.open \cup {f}
          /\ DOMAIN e.files = DOMAIN d.files
          /\ \A g \in DOMAIN d.files : e.files[g] = IF g = f THEN <<>> ELSE d.files[g]
      OBVIOUS
    <2>2. OpenFile(d, f) = e
      BY <1>2 DEF OpenFile
    <2> HIDE DEF e
    <2>3. <<>> \in Seq(Page)
      OBVIOUS
    <2>4. DiskOK(e)
      BY <2>1, <2>3 DEF DiskOK
    <2>5. OnlyFile(d, e, f) /\ SameFiles(d, e, f)
      BY <2>1 DEF OnlyFile, SameFiles, DiskOK
    <2> QED BY <2>1, <2>2, <2>4, <2>5 DEF DiskOK
  <1> QED BY <1>1, <1>2

LEMMA CloseFileFacts ==
  ASSUME NEW d, DiskOK(d), NEW f \in StackFiles
  PROVE  LET e == CloseFile(d, f)
         IN  /\ DiskOK(e) /\ OnlyFile(d, e, f) /\ SameFiles(d, e, f) /\ f \notin e.open
             /\ f \in d.open => e.files = d.files
  <1>1. CASE f \in d.open
    <2> DEFINE e == [files |-> d.files, open |-> d.open \ {f}]
    <2>1. e.open = d.open \ {f} /\ e.files = d.files
      OBVIOUS
    <2>2. CloseFile(d, f) = e
      BY <1>1 DEF CloseFile
    <2> HIDE DEF e
    <2> QED BY <2>1, <2>2 DEF DiskOK, OnlyFile, SameFiles
  <1>2. CASE f \notin d.open
    <2> DEFINE e == PrintPage(d, f, EmptyPage)
    <2>1. DiskOK(e)
      BY EmptyPageInPage, PrintPageOK
    <2>2. /\ e.open = d.open
          /\ DOMAIN d.files \subseteq DOMAIN e.files
          /\ \A g \in DOMAIN d.files : g # f => e.files[g] = d.files[g]
      BY DEF PrintPage
    <2> HIDE DEF e
    <2>3. OnlyFile(d, e, f) /\ SameFiles(d, e, f)
      BY <2>2 DEF OnlyFile, SameFiles, DiskOK
    <2>4. CloseFile(d, f) = e
      BY <1>2 DEF CloseFile, e
    <2> QED BY <1>2, <2>1, <2>2, <2>3, <2>4
  <1> QED BY <1>1, <1>2

(* A title or nothing before the stack is opened, and the pages after it.  *)
(* What was written before the opening stays only if the stack was open.   *)
Called(d, e, c, title, pages) ==
  LET f == Stack(c)
  IN  /\ DiskOK(e) /\ OnlyFile(d, e, f)
      /\ ~config[c].open /\ f \notin d.open => f \in e.open /\ e.files[f] = pages
      /\ config[c].open /\ f \in d.open =>
           f \in e.open /\ e.files[f] = (d.files[f] \o title) \o pages
      /\ \A i \in 1..Len(pages) : IsPlot(pages[i]) => FileOf(pages[i]) \in DOMAIN e.files
      /\ Unique(pages) =>
           \A i \in 1..Len(pages) :
             IsPlot(pages[i]) => e.files[FileOf(pages[i])] = <<pages[i]>>

LEMMA CallFacts ==
  ASSUME NEW d, DiskOK(d), NEW c \in Configs, Stack(c) \in StackFiles,
         NEW title \in Seq(Page), NEW pages \in Seq(Page)
  PROVE  Called(d, PrintPages(OnDemandOpenPlotStack(PrintPages(d, Stack(c), title), c),
                              Stack(c), pages),
                c, title, pages)
  <1> DEFINE f == Stack(c)
             a == PrintPages(d, f, title)
             b == OnDemandOpenPlotStack(a, c)
             e == PrintPages(b, f, pages)
  <1>0. f \in StackFiles
    OBVIOUS
  <1> HIDE DEF f
  <1>1. /\ DiskOK(a) /\ a.open = d.open
        /\ f \in d.open => a.files[f] = d.files[f] \o title
        /\ \A g \in StackFiles : g # f => a.files[g] = d.files[g]
    BY <1>0, PrintPagesFacts
  <1> HIDE DEF a
  <1>2. /\ DiskOK(b) /\ OnlyFile(a, b, f)
        /\ ~config[c].open => f \in b.open /\ (f \notin a.open => b.files[f] = <<>>)
        /\ config[c].open => b = a
    <2>1. CASE config[c].open
      <3>1. b = a
        BY <2>1 DEF OnDemandOpenPlotStack
      <3> HIDE DEF b
      <3> QED BY <1>1, <2>1, <3>1 DEF OnlyFile
    <2>2. CASE ~config[c].open
      <3>1. b = OpenFile(a, f)
        BY <2>2 DEF OnDemandOpenPlotStack, f
      <3> HIDE DEF b
      <3>2. LET o == OpenFile(a, f)
            IN  /\ DiskOK(o) /\ OnlyFile(a, o, f) /\ f \in o.open
                /\ f \notin a.open => o.files[f] = <<>>
        BY <1>0, <1>1, OpenFileFacts
      <3> QED BY <2>2, <3>1, <3>2
    <2> QED BY <2>1, <2>2
  <1> HIDE DEF b
  <1>3. /\ DiskOK(e) /\ e.open = b.open
        /\ f \in b.open => e.files[f] = b.files[f] \o pages
        /\ \A g \in StackFiles : g # f => e.files[g] = b.files[g]
        /\ \A i \in 1..Len(pages) : IsPlot(pages[i]) => FileOf(pages[i]) \in DOMAIN e.files
        /\ Unique(pages) =>
             \A i \in 1..Len(pages) :
               IsPlot(pages[i]) => e.files[FileOf(pages[i])] = <<pages[i]>>
    BY <1>0, <1>2, PrintPagesFacts
  <1> HIDE DEF e
  <1>4. OnlyFile(d, e, f)
    BY <1>1, <1>2, <1>3 DEF OnlyFile
  <1>5. ASSUME ~config[c].open, f \notin d.open
        PROVE  f \in e.open /\ e.files[f] = pages
    <2>1. f \in b.open /\ b.files[f] = <<>>
      BY <1>1, <1>2, <1>5
    <2>2. <<>> \o pages = pages
      OBVIOUS
    <2> QED BY <1>3, <2>1, <2>2
  <1>6. ASSUME config[c].open, f \in d.open
        PROVE  f \in e.open /\ e.files[f] = (d.files[f] \o title) \o pages
    BY <1>1, <1>2, <1>3, <1>6
  <1>7. Called(d, e, c, title, pages)
    BY <1>3, <1>4, <1>5, <1>6 DEF Called, f
  <1> QED BY <1>7 DEF e, b, a, f

(* The pages of a simultaneous plot before its sum.                        *)
Within(a, b) == \A i \in 1..Len(a) : \E j \in 1..Len(b) : a[i] = b[j]
Disjoint(a, b) == \A i \in 1..Len(a), j \in 1..Len(b) : a[i] # b[j]
Free(a) == \A i \in 1..Len(a) : a[i] # "summed"

PartsOf(p, sc, allCategories, allSlices, withData, no) ==
  LET slices == Slices(p, allSlices, withData)
  IN  Parts(p, "category", Categories(p, allCategories, withData), no, sc)
      \o Concat([i \in DOMAIN slices |->
                   Parts(p, Plots[p].inputs[i].name, slices[i], no, sc)])

LEMMA DifferentNamesFacts ==
  ASSUME NEW p \in DOMAIN Plots, IsSimultaneous(p), DifferentNames(p)
  PROVE  LET types == Plots[p].types
             inputs == Plots[p].inputs
         IN  /\ Differ(types) /\ Free(types)
             /\ \A i \in 1..Len(inputs) :
                  /\ Differ(inputs[i].types) /\ Free(inputs[i].types)
                  /\ Disjoint(types, inputs[i].types)
             /\ \A i, j \in 1..Len(inputs) :
                  i # j => Disjoint(inputs[i].types, inputs[j].types)
  <1> DEFINE types == Plots[p].types
             inputs == Plots[p].inputs
             n == Len(inputs)
             a == <<types>>
             b == [i \in DOMAIN inputs |-> inputs[i].types]
             all == a \o b
  <1>1. /\ types \in Seq(Text) /\ inputs \in Seq([name: Text, types: Seq(Text)])
    BY NamesAreText
  <1>2. /\ n \in Nat /\ DOMAIN inputs = 1..n
        /\ \A i \in 1..n : inputs[i] \in [name: Text, types: Seq(Text)]
    <2> HIDE DEF inputs
    <2>1. n \in Nat /\ DOMAIN inputs = 1..n
      BY <1>1, LenProperties
    <2> QED BY <1>1, <2>1, ElementOfSeq
  <1>3. \A i \in 1..n : inputs[i].types \in Seq(Text)
    BY <1>2
  <1>4. \A i, j \in DOMAIN all : \A k \in DOMAIN all[i], l \in DOMAIN all[j] :
          all[i][k] # "summed" /\ (all[i][k] = all[j][l] => i = j /\ k = l)
    BY DEF DifferentNames
  <1> HIDE DEF types, inputs, n
  <1>5. a \in Seq(Seq(Text)) /\ Len(a) = 1 /\ a[1] = types
    BY <1>1
  <1>6. b \in Seq(Seq(Text)) /\ Len(b) = n /\ \A i \in 1..n : b[i] = inputs[i].types
    <2>1. b \in [1..n -> Seq(Text)] /\ \A i \in 1..n : b[i] = inputs[i].types
      BY <1>2, <1>3
    <2> HIDE DEF b
    <2> QED BY <1>2, <2>1, IsASeq, LenProperties
  <1> HIDE DEF a, b
  <1>7. /\ a \o b \in Seq(Seq(Text)) /\ Len(a \o b) = Len(a) + Len(b)
        /\ \A i \in 1..Len(a) : (a \o b)[i] = a[i]
        /\ \A i \in 1..Len(b) : (a \o b)[Len(a) + i] = b[i]
    <2>1. a \in Seq(Seq(Text)) /\ b \in Seq(Seq(Text))
      BY <1>5, <1>6
    <2> QED BY ONLY <2>1, JoinFacts
  <1>8. DOMAIN all = 1..1 + n
    <2>1. DOMAIN (a \o b) = 1..Len(a \o b)
      BY <1>7, LenProperties
    <2> QED BY <1>5, <1>6, <1>7, <2>1
  <1> HIDE DEF all
  <1>9. /\ 1 \in DOMAIN all /\ all[1] = types
        /\ \A i \in 1..n : 1 + i \in DOMAIN all /\ 1 + i # 1 /\ all[1 + i] = inputs[i].types
        /\ \A i, j \in 1..n : 1 + i = 1 + j => i = j
    <2>1. all[1] = types
      BY <1>5, <1>7 DEF all
    <2>2. \A i \in 1..n : all[1 + i] = inputs[i].types
      BY <1>5, <1>6, <1>7 DEF all
    <2> QED BY <1>2, <1>8, <2>1, <2>2
  <1>10. DOMAIN types = 1..Len(types) /\ \A i \in 1..n : DOMAIN inputs[i].types = 1..Len(inputs[i].types)
    BY <1>1, <1>3, LenProperties
  <1>11. Differ(types) /\ Free(types)
    BY <1>4, <1>9, <1>10 DEF Differ, Free
  <1>12. \A i \in 1..n : /\ Differ(inputs[i].types) /\ Free(inputs[i].types)
                         /\ Disjoint(types, inputs[i].types)
    <2> TAKE i \in 1..n
    <2>1. 1 + i \in DOMAIN all /\ 1 + i # 1 /\ all[1 + i] = inputs[i].types
      BY <1>9
    <2>2. Differ(inputs[i].types) /\ Free(inputs[i].types)
      BY <1>4, <1>10, <2>1 DEF Differ, Free
    <2>3. Disjoint(types, inputs[i].types)
      BY <1>4, <1>9, <1>10, <2>1 DEF Disjoint
    <2> QED BY <2>2, <2>3
  <1>13. \A i, j \in 1..n : i # j => Disjoint(inputs[i].types, inputs[j].types)
    <2> SUFFICES ASSUME NEW i \in 1..n, NEW j \in 1..n, i # j
                 PROVE  Disjoint(inputs[i].types, inputs[j].types)
      OBVIOUS
    <2>1. /\ 1 + i \in DOMAIN all /\ all[1 + i] = inputs[i].types
          /\ 1 + j \in DOMAIN all /\ all[1 + j] = inputs[j].types
          /\ 1 + i # 1 + j
      BY <1>9
    <2> QED BY <1>4, <1>10, <2>1 DEF Disjoint
  <1> QED BY <1>11, <1>12, <1>13 DEF types, inputs, n

LEMMA ChosenWithin ==
  ASSUME NEW A, NEW s \in Seq(A), NEW among
  PROVE  /\ Chosen(s, among) \in Seq(A) /\ Within(Chosen(s, among), s)
         /\ Differ(s) => Differ(Chosen(s, among))
  BY ChosenFacts DEF Within

LEMMA WithinFacts ==
  ASSUME NEW a, NEW b, NEW s, Within(a, s)
  PROVE  /\ Free(s) => Free(a)
         /\ \A t : Within(b, t) /\ Disjoint(s, t) => Disjoint(a, b)
  BY DEF Within, Free, Disjoint

LEMMA NamedApart ==
  ASSUME NEW p, NEW a, NEW b, Disjoint(a, b), NEW s, NamedBy(s, p, a), NEW t, NamedBy(t, p, b)
  PROVE  Apart(s, t)
  <1> SUFFICES ASSUME NEW i \in 1..Len(s), NEW j \in 1..Len(t), FileOf(s[i]) = FileOf(t[j])
               PROVE  FALSE
    BY DEF Apart
  <1>1. PICK k \in 1..Len(a) : s[i].name = PartName(p, a[k])
    BY DEF NamedBy
  <1>2. PICK l \in 1..Len(b) : t[j].name = PartName(p, b[l])
    BY DEF NamedBy
  <1>3. s[i].name = t[j].name
    BY DEF FileOf
  <1>4. a[k] = b[l]
    BY <1>1, <1>2, <1>3 DEF PartName
  <1> QED BY <1>4 DEF Disjoint

(* Each of the pages has the name of a type of the category or of an input *)
LEMMA PartsOfFacts ==
  ASSUME NEW p \in DOMAIN Plots, IsSimultaneous(p), NEW sc \in Scalings,
         NEW allCategories, NEW allSlices, NEW withData, NEW no \in Int
  PROVE  LET parts == PartsOf(p, sc, allCategories, allSlices, withData, no)
         IN  /\ parts \in Seq(Page) /\ TitledParts(parts)
             /\ \A k \in 1..Len(parts) : parts[k].name \in Seq(Text)
             /\ DifferentNames(p) =>
                  /\ Unique(parts)
                  /\ \A k \in 1..Len(parts) : parts[k].name # PartName(p, "summed")
  <1> DEFINE types == Plots[p].types
             inputs == Plots[p].inputs
             n == Len(inputs)
             categories == Categories(p, allCategories, withData)
             slices == Slices(p, allSlices, withData)
             a == Parts(p, "category", categories, no, sc)
             block(i) == Parts(p, inputs[i].name, slices[i], no, sc)
             bs == [i \in DOMAIN slices |-> block(i)]
             b == Concat(bs)
             m == Len(slices)
  <1>1. /\ types \in Seq(Text) /\ n \in Nat /\ DOMAIN inputs = 1..n
        /\ \A i \in 1..n : inputs[i].name \in Text /\ inputs[i].types \in Seq(Text)
    <2>1. types \in Seq(Text) /\ inputs \in Seq([name: Text, types: Seq(Text)])
      BY NamesAreText
    <2> HIDE DEF inputs
    <2>2. n \in Nat /\ DOMAIN inputs = 1..n
      BY <2>1, LenProperties
    <2>3. \A i \in 1..n : inputs[i] \in [name: Text, types: Seq(Text)]
      BY <2>1, ElementOfSeq
    <2> QED BY <2>1, <2>2, <2>3
  <1>2. /\ categories \in Seq(Text) /\ Within(categories, types)
        /\ Differ(types) => Differ(categories)
    <2>1. CASE allCategories
      <3>1. categories = Chosen(types, Plots[p].withPdf \cap withData)
        BY <2>1 DEF Categories
      <3> HIDE DEF categories, types
      <3> QED BY <1>1, <3>1, ChosenWithin
    <2>2. CASE ~allCategories
      <3>1. categories = <<>>
        BY <2>2 DEF Categories
      <3> HIDE DEF categories, types
      <3>2. <<>> \in Seq(Text) /\ 1..Len(<<>>) = {}
        OBVIOUS
      <3> QED BY <3>1, <3>2 DEF Within, Differ
    <2> QED BY <2>1, <2>2
  <1>3. /\ m \in Nat /\ DOMAIN slices = 1..m /\ m <= n
        /\ \A i \in 1..m : /\ slices[i] \in Seq(Text)
                           /\ Within(slices[i], inputs[i].types)
                           /\ Differ(inputs[i].types) => Differ(slices[i])
    <2> HIDE DEF types, inputs, n
    <2>1. CASE allSlices /\ Plots[p].withPdf # {}
      <3> DEFINE t == [i \in DOMAIN inputs |-> Chosen(inputs[i].types, withData)]
      <3>1. slices = t
        BY <2>1 DEF Slices, inputs
      <3>2. DOMAIN t = 1..n /\ \A i \in 1..n : t[i] = Chosen(inputs[i].types, withData)
        BY <1>1
      <3> HIDE DEF slices, t
      <3>3. \A i \in 1..n : t[i] \in Seq(Text)
        BY <1>1, <3>2, ChosenWithin
      <3>4. Len(t) = n
        <4>1. t \in [1..n -> Seq(Text)]
          <5>1. t = [i \in 1..n |-> t[i]]
            BY <1>1 DEF t
          <5> QED BY <3>3, <5>1
        <4> QED BY <1>1, <4>1, IsASeq, LenProperties
      <3>5. \A i \in 1..n : /\ slices[i] \in Seq(Text)
                            /\ Within(slices[i], inputs[i].types)
                            /\ Differ(inputs[i].types) => Differ(slices[i])
        BY <1>1, <3>1, <3>2, ChosenWithin
      <3> QED BY <1>1, <3>1, <3>2, <3>4, <3>5
    <2>2. CASE ~(allSlices /\ Plots[p].withPdf # {})
      <3>1. slices = <<>>
        BY <2>2 DEF Slices
      <3> HIDE DEF slices
      <3>2. Len(<<>>) = 0 /\ DOMAIN <<>> = 1..0
        OBVIOUS
      <3> QED BY <1>1, <3>1, <3>2
    <2> QED BY <2>1, <2>2
  <1>4. PartsOf(p, sc, allCategories, allSlices, withData, no) = a \o b
    BY DEF PartsOf
  <1>5. \A t \in Text : PartName(p, t) \in Seq(Text)
    BY NamesAreText, PairIsSeq DEF PartName
  <1>6. "category" \in Text
    BY DEF Text
  <1> HIDE DEF types, inputs, n, categories, slices, m
  <1>7. /\ a \in Seq(Page) /\ TitledParts(a) /\ NamedBy(a, p, categories)
        /\ Differ(categories) => Unique(a)
    BY <1>2, <1>6, PartsFacts
  <1>8. \A i \in 1..m : /\ block(i) \in Seq(Page) /\ TitledParts(block(i))
                        /\ NamedBy(block(i), p, slices[i])
                        /\ Differ(slices[i]) => Unique(block(i))
    <2> TAKE i \in 1..m
    <2>1. inputs[i].name \in Text /\ slices[i] \in Seq(Text)
      BY <1>1, <1>3
    <2> QED BY <2>1, PartsFacts
  <1> HIDE DEF a, block
  <1>9. bs \in Seq(Seq(Page)) /\ Len(bs) = m /\ \A i \in 1..m : bs[i] = block(i)
    <2>1. bs \in [1..m -> Seq(Page)] /\ \A i \in 1..m : bs[i] = block(i)
      BY <1>3, <1>8
    <2> HIDE DEF bs
    <2> QED BY <1>3, <2>1, IsASeq, LenProperties
  <1> HIDE DEF bs
  <1>10. /\ b \in Seq(Page) /\ TitledParts(b)
         /\ \A k \in 1..Len(b) :
              \E i \in 1..m : \E j \in 1..Len(block(i)) : b[k] = block(i)[j]
    <2>1. /\ b \in Seq(Page)
          /\ \A k \in 1..Len(b) :
               \E i \in 1..Len(bs) : \E j \in 1..Len(bs[i]) : b[k] = bs[i][j]
          /\ (\A i \in 1..Len(bs) : TitledParts(bs[i])) => TitledParts(b)
      BY <1>9, ConcatFacts
    <2> HIDE DEF b
    <2>2. TitledParts(b)
      BY <1>8, <1>9, <2>1
    <2>3. ASSUME NEW k \in 1..Len(b)
          PROVE  \E i \in 1..m : \E j \in 1..Len(block(i)) : b[k] = block(i)[j]
      <3>1. PICK i \in 1..m : \E j \in 1..Len(bs[i]) : b[k] = bs[i][j]
        BY <1>9, <2>1
      <3> QED BY <1>9, <3>1
    <2> QED BY <2>1, <2>2, <2>3
  <1>11. /\ (/\ \A i \in 1..m : Unique(block(i))
             /\ \A i, j \in 1..m : i < j => Apart(block(i), block(j))) => Unique(b)
    <2> SUFFICES ASSUME \A i \in 1..m : Unique(block(i)),
                        \A i, j \in 1..m : i < j => Apart(block(i), block(j))
                 PROVE  Unique(b)
      OBVIOUS
    <2>1. \A i \in 1..m : Unique(bs[i])
      BY <1>9
    <2>2. \A i, j \in 1..m : i < j => Apart(bs[i], bs[j])
      BY <1>9
    <2> QED BY <1>9, <2>1, <2>2, ConcatFacts
  <1> HIDE DEF b
  <1>12. /\ a \o b \in Seq(Page)
         /\ \A k \in 1..Len(a \o b) :
              \/ \E i \in 1..Len(a) : (a \o b)[k] = a[i]
              \/ \E i \in 1..Len(b) : (a \o b)[k] = b[i]
    <2>1. /\ a \o b \in Seq(Page)
          /\ \A i \in 1..Len(a) : (a \o b)[i] = a[i]
          /\ \A i \in 1..Len(a \o b) : i \notin 1..Len(a) =>
               i - Len(a) \in 1..Len(b) /\ (a \o b)[i] = b[i - Len(a)]
      <3>1. a \in Seq(Page) /\ b \in Seq(Page)
        BY <1>7, <1>10
      <3> QED BY ONLY <3>1, JoinFacts
    <2> QED BY <2>1
  <1>13. TitledParts(a \o b)
    BY <1>7, <1>10, TitledJoin
  <1>14. ASSUME NEW k \in 1..Len(a \o b)
         PROVE  \/ \E l \in 1..Len(categories) : (a \o b)[k].name = PartName(p, categories[l])
                \/ \E i \in 1..m : \E l \in 1..Len(slices[i]) :
                     (a \o b)[k].name = PartName(p, slices[i][l])
    <2>1. CASE \E i \in 1..Len(a) : (a \o b)[k] = a[i]
      BY <1>7, <2>1 DEF NamedBy
    <2>2. CASE \E i \in 1..Len(b) : (a \o b)[k] = b[i]
      <3>1. PICK i \in 1..m : \E j \in 1..Len(block(i)) : (a \o b)[k] = block(i)[j]
        BY <1>10, <2>2
      <3> QED BY <1>8, <3>1 DEF NamedBy
    <2> QED BY <1>12, <2>1, <2>2
  <1>15. ASSUME NEW k \in 1..Len(a \o b)
         PROVE  (a \o b)[k].name \in Seq(Text)
    <2>1. \A l \in 1..Len(categories) : categories[l] \in Text
      BY <1>2, ElementOfSeq
    <2>2. \A i \in 1..m : \A l \in 1..Len(slices[i]) : slices[i][l] \in Text
      BY <1>3, ElementOfSeq
    <2> QED BY <1>5, <1>6, <1>14, <2>1, <2>2
  <1>16. ASSUME DifferentNames(p)
         PROVE  /\ Unique(a \o b)
                /\ \A k \in 1..Len(a \o b) : (a \o b)[k].name # PartName(p, "summed")
    <2>1. /\ Differ(types) /\ Free(types)
          /\ \A i \in 1..n :
               /\ Differ(inputs[i].types) /\ Free(inputs[i].types)
               /\ Disjoint(types, inputs[i].types)
          /\ \A i, j \in 1..n : i # j => Disjoint(inputs[i].types, inputs[j].types)
      BY <1>16, DifferentNamesFacts DEF types, inputs, n
    <2>2. \A i \in 1..m : i \in 1..n
      BY <1>1, <1>3
    <2>3. Unique(a) /\ \A i \in 1..m : Unique(block(i))
      BY <1>2, <1>3, <1>7, <1>8, <2>1, <2>2
    <2>4. \A i \in 1..m : Apart(a, block(i))
      <3> TAKE i \in 1..m
      <3>1. Disjoint(categories, slices[i])
        BY <1>2, <1>3, <2>1, <2>2, WithinFacts
      <3> QED BY <1>7, <1>8, <3>1, NamedApart
    <2>5. \A i, j \in 1..m : i < j => Apart(block(i), block(j))
      <3> SUFFICES ASSUME NEW i \in 1..m, NEW j \in 1..m, i < j
                   PROVE  Apart(block(i), block(j))
        OBVIOUS
      <3>1. Disjoint(inputs[i].types, inputs[j].types)
        BY <2>1, <2>2
      <3>2. Disjoint(slices[i], slices[j])
        BY <1>3, <3>1, WithinFacts
      <3> QED BY <1>8, <3>2, NamedApart
    <2>6. Unique(b)
      BY <1>11, <2>3, <2>5
    <2>7. Apart(a, b)
      <3> SUFFICES ASSUME NEW k \in 1..Len(a), NEW l \in 1..Len(b), IsPlot(a[k]), IsPlot(b[l])
                   PROVE  FileOf(a[k]) # FileOf(b[l])
        BY DEF Apart
      <3>1. PICK i \in 1..m : \E j \in 1..Len(block(i)) : b[l] = block(i)[j]
        BY <1>10
      <3> QED BY <2>4, <3>1 DEF Apart
    <2>8. Unique(a \o b)
      BY <1>7, <1>10, <2>3, <2>6, <2>7, UniqueJoin
    <2>9. ASSUME NEW t, t # "summed" PROVE PartName(p, t) # PartName(p, "summed")
      BY <2>9 DEF PartName
    <2>10. Free(categories) /\ \A i \in 1..m : Free(slices[i])
      BY <1>2, <1>3, <2>1, <2>2, WithinFacts
    <2>11. /\ \A l \in 1..Len(categories) : categories[l] # "summed"
           /\ \A i \in 1..m : \A l \in 1..Len(slices[i]) : slices[i][l] # "summed"
      BY <2>10 DEF Free
    <2> QED BY <1>14, <2>8, <2>9, <2>11
  <1> QED BY <1>4, <1>12, <1>13, <1>15, <1>16

-----------------------------------------------------------------------------
(* The inductive invariant: what a stack that belongs to one configuration *)
(* has, and that its configuration and ROOT agree on whether it is open.   *)
AllDiffer == \A p \in DOMAIN Plots : IsSimultaneous(p) => DifferentNames(p)

HistoryOK ==
  /\ history \in [made: [Configs -> Seq(Page)], from: [Configs -> Nat],
                  owner: [StackFiles -> Configs \cup {Nobody}],
                  last: SUBSET Page, calls: Nat, toys: Nat]
  /\ \A c \in Configs : history.from[c] <= Len(history.made[c])

StackOK(c) ==
  history.owner[Stack(c)] = c =>
    /\ config[c].open <=> Stack(c) \in disk.open
    /\ PlotsOf(disk.files[Stack(c)])
         = SubSeq(history.made[c], history.from[c] + 1, Len(history.made[c]))
    /\ TitledParts(disk.files[Stack(c)])

LastOK ==
  \A page \in history.last :
    /\ FileOf(page) \in DOMAIN disk.files
    /\ AllDiffer => disk.files[FileOf(page)] = <<page>>

PlotStackInv ==
  /\ config \in [Configs -> [open: BOOLEAN, appendix: Appendices]]
  /\ DiskOK(disk)
  /\ HistoryOK
  /\ \A c \in Configs : StackOK(c)
  /\ LastOK

LEMMA InvImplies ==
  ASSUME PlotStackInv
  PROVE  PlotsAreKept /\ TitlesLeadTheirPlots
  <1>1. TypeOK
    BY DEF PlotStackInv, TypeOK, DiskOK, HistoryOK, StackFiles
  <1>2. StackHasThePlots
    BY DEF PlotStackInv, StackOK, StackHasThePlots
  <1>3. EveryPlotHasItsFile
    BY DEF PlotStackInv, LastOK, AllDiffer, EveryPlotHasItsFile
  <1>4. TitlesLeadTheirPlots
    BY DEF PlotStackInv, StackOK, TitlesLeadTheirPlots
  <1> QED BY <1>1, <1>2, <1>3, <1>4 DEF PlotsAreKept

LEMMA StackInFiles ==
  ASSUME PlotStackInv, NEW c \in Configs
  PROVE  Stack(c) \in StackFiles
  BY DEF PlotStackInv, Stack, StackFiles, Stacks

LEMMA SubSeqJoin ==
  ASSUME NEW A, NEW m \in Seq(A), NEW t \in Seq(A), NEW k \in Nat, k <= Len(m)
  PROVE  SubSeq(m \o t, k + 1, Len(m \o t)) = SubSeq(m, k + 1, Len(m)) \o t
  <1> DEFINE u == m \o t
             a == SubSeq(u, k + 1, Len(u))
             b == SubSeq(m, k + 1, Len(m))
             v == b \o t
  <1>1. /\ u \in Seq(A) /\ Len(u) = Len(m) + Len(t) /\ Len(m) \in Nat /\ Len(t) \in Nat
        /\ \A i \in 1..Len(m) : u[i] = m[i]
        /\ \A i \in 1..Len(u) : i \notin 1..Len(m) =>
             i - Len(m) \in 1..Len(t) /\ u[i] = t[i - Len(m)]
    BY JoinFacts
  <1> HIDE DEF u
  <1>2. /\ a \in Seq(A) /\ Len(a) = Len(u) - k
        /\ \A i \in 1..Len(u) - k : a[i] = u[k + i]
    <2>1. \A i \in k + 1..Len(u) : u[i] \in A
      BY <1>1, ElementOfSeq
    <2>2. /\ a \in Seq(A)
          /\ Len(a) = IF k + 1 <= Len(u) THEN Len(u) - (k + 1) + 1 ELSE 0
          /\ \A i \in 1..Len(u) - (k + 1) + 1 : a[i] = u[k + 1 + i - 1]
      BY <1>1, <2>1, SubSeqProperties
    <2> HIDE DEF a
    <2> QED BY <1>1, <2>2
  <1>3. /\ b \in Seq(A) /\ Len(b) = Len(m) - k
        /\ \A i \in 1..Len(m) - k : b[i] = m[k + i]
    <2>1. \A i \in k + 1..Len(m) : m[i] \in A
      BY <1>1, ElementOfSeq
    <2>2. /\ b \in Seq(A)
          /\ Len(b) = IF k + 1 <= Len(m) THEN Len(m) - (k + 1) + 1 ELSE 0
          /\ \A i \in 1..Len(m) - (k + 1) + 1 : b[i] = m[k + 1 + i - 1]
      BY <1>1, <2>1, SubSeqProperties
    <2> HIDE DEF b
    <2> QED BY <1>1, <2>2
  <1> HIDE DEF a, b
  <1>4. /\ v \in Seq(A) /\ Len(v) = Len(b) + Len(t)
        /\ \A i \in 1..Len(b) : v[i] = b[i]
        /\ \A i \in 1..Len(v) : i \notin 1..Len(b) =>
             i - Len(b) \in 1..Len(t) /\ v[i] = t[i - Len(b)]
    <2>1. b \in Seq(A) /\ t \in Seq(A)
      BY <1>3
    <2> QED BY ONLY <2>1, JoinFacts
  <1> HIDE DEF v
  <1>5. Len(a) = Len(v)
    BY <1>1, <1>2, <1>3, <1>4
  <1>6. ASSUME NEW i \in 1..Len(a)
        PROVE  a[i] = v[i]
    <2>1. a[i] = u[k + i] /\ k + i \in 1..Len(u)
      BY <1>1, <1>2
    <2>2. CASE i \in 1..Len(b)
      <3>1. k + i \in 1..Len(m)
        BY <1>1, <1>3, <2>2
      <3> QED BY <1>1, <1>3, <1>4, <2>1, <2>2, <3>1
    <2>3. CASE i \notin 1..Len(b)
      <3>1. k + i \notin 1..Len(m)
        BY <1>1, <1>3, <2>3
      <3>2. (k + i) - Len(m) = i - Len(b)
        BY <1>1, <1>3
      <3>3. a[i] = t[(k + i) - Len(m)]
        BY <1>1, <2>1, <3>1
      <3>4. v[i] = t[i - Len(b)]
        BY <1>4, <1>5, <2>3
      <3> QED BY <3>2, <3>3, <3>4
    <2> QED BY <2>2, <2>3
  <1>7. a = v
    BY <1>2, <1>4, <1>5, <1>6, SeqEqual
  <1> QED BY <1>7 DEF a, b, u, v

(* What a call leaves, given what it prints.                               *)
LEMMA PrintedStep ==
  ASSUME PlotStackInv, NEW c \in Configs, NEW d, NEW plots \in Seq(Page),
         Printed(c, d, plots), DiskOK(d), OnlyFile(disk, d, Stack(c)),
         \A i \in 1..Len(plots) :
           /\ FileOf(plots[i]) \in DOMAIN d.files
           /\ AllDiffer => d.files[FileOf(plots[i])] = <<plots[i]>>,
         ~config[c].open /\ Stack(c) \notin disk.open =>
           /\ Stack(c) \in d.open
           /\ PlotsOf(d.files[Stack(c)]) = plots /\ TitledParts(d.files[Stack(c)]),
         config[c].open /\ Stack(c) \in disk.open =>
           /\ Stack(c) \in d.open
           /\ PlotsOf(d.files[Stack(c)]) = PlotsOf(disk.files[Stack(c)]) \o plots
           /\ TitledParts(disk.files[Stack(c)]) => TitledParts(d.files[Stack(c)])
  PROVE  PlotStackInv'
  <1> DEFINE f == Stack(c)
             fresh == ~config[c].open /\ f \notin disk.open
             made == history.made[c]
             from == history.from[c]
  <1>1. /\ disk' = d
        /\ config' = [config EXCEPT ![c].open = TRUE]
        /\ history' = [history EXCEPT
             !.made[c] = @ \o plots,
             !.from[c] = IF fresh THEN Len(made) ELSE @,
             !.owner[f] = IF fresh \/ @ = c THEN c ELSE Nobody,
             !.last = {plots[i] : i \in DOMAIN plots},
             !.calls = @ + 1]
    BY DEF Printed
  <1>2. f \in StackFiles /\ Nobody \notin Configs
    BY StackInFiles, PlotStackAssumption
  <1>3. /\ config \in [Configs -> [open: BOOLEAN, appendix: Appendices]]
        /\ DiskOK(disk) /\ HistoryOK /\ StackOK(c)
        /\ \A x \in Configs : StackOK(x)
    BY DEF PlotStackInv
  <1>4. made \in Seq(Page) /\ from \in Nat /\ from <= Len(made) /\ Len(made) \in Nat
    BY <1>3, LenProperties DEF HistoryOK
  <1>5. /\ made \o plots \in Seq(Page) /\ Len(made \o plots) = Len(made) + Len(plots)
        /\ Len(plots) \in Nat /\ DOMAIN plots = 1..Len(plots)
        /\ \A i \in DOMAIN plots : plots[i] \in Page
    <2> HIDE DEF made
    <2>1. /\ made \o plots \in Seq(Page) /\ Len(made \o plots) = Len(made) + Len(plots)
          /\ Len(plots) \in Nat
      BY <1>4, JoinFacts
    <2>2. DOMAIN plots = 1..Len(plots)
      BY LenProperties
    <2> QED BY <2>1, <2>2, ElementOfSeq
  <1>6. /\ history'.made = [history.made EXCEPT ![c] = made \o plots]
        /\ history'.from = [history.from EXCEPT ![c] = IF fresh THEN Len(made) ELSE from]
        /\ history'.owner = [history.owner EXCEPT
                               ![f] = IF fresh \/ history.owner[f] = c THEN c ELSE Nobody]
        /\ history'.last = {plots[i] : i \in DOMAIN plots}
        /\ history'.calls = history.calls + 1
        /\ history'.toys = history.toys
        /\ DOMAIN history' = DOMAIN history
    <2> HIDE DEF f, fresh
    <2> QED BY <1>1, <1>3 DEF HistoryOK
  <1>7. \A x \in Configs : /\ config'[x].appendix = config[x].appendix
                           /\ config'[x].open = IF x = c THEN TRUE ELSE config[x].open
    BY <1>1, <1>3
  <1>8. config' \in [Configs -> [open: BOOLEAN, appendix: Appendices]]
    BY <1>1, <1>3
  <1>9. \A x \in Configs : Stack(x)' = Stack(x)
    BY <1>7 DEF Stack
  <1> HIDE DEF f, fresh, made, from
  <1>10. HistoryOK'
    <2>1. history' \in [made: [Configs -> Seq(Page)], from: [Configs -> Nat],
                        owner: [StackFiles -> Configs \cup {Nobody}],
                        last: SUBSET Page, calls: Nat, toys: Nat]
      <3>1. history'.made \in [Configs -> Seq(Page)]
        BY <1>3, <1>5, <1>6 DEF HistoryOK
      <3>2. history'.from \in [Configs -> Nat]
        BY <1>3, <1>4, <1>6 DEF HistoryOK
      <3>3. history'.owner \in [StackFiles -> Configs \cup {Nobody}]
        BY <1>2, <1>3, <1>6 DEF HistoryOK
      <3>4. history'.last \in SUBSET Page /\ history'.calls \in Nat /\ history'.toys \in Nat
        BY <1>3, <1>5, <1>6 DEF HistoryOK
      <3>5. history' = [made |-> history'.made, from |-> history'.from, owner |-> history'.owner,
                        last |-> history'.last, calls |-> history'.calls, toys |-> history'.toys]
        BY <1>1, <1>3 DEF HistoryOK
      <3> QED BY <3>1, <3>2, <3>3, <3>4, <3>5
    <2>2. \A x \in Configs : history'.from[x] <= Len(history'.made[x])
      <3> TAKE x \in Configs
      <3>1. CASE x = c
        BY <1>3, <1>4, <1>5, <1>6, <3>1 DEF HistoryOK
      <3>2. CASE x # c
        BY <1>3, <1>6, <3>2 DEF HistoryOK
      <3> QED BY <3>1, <3>2
    <2> QED BY <2>1, <2>2 DEF HistoryOK
  <1>11. StackOK(c)'
    <2> SUFFICES ASSUME history'.owner[f] = c
                 PROVE  /\ config'[c].open <=> f \in disk'.open
                        /\ PlotsOf(disk'.files[f])
                             = SubSeq(history'.made[c], history'.from[c] + 1, Len(history'.made[c]))
                        /\ TitledParts(disk'.files[f])
      BY <1>9 DEF StackOK, f
    <2>1. fresh \/ history.owner[f] = c
      BY <1>2, <1>3, <1>6 DEF HistoryOK
    <2>2. history'.made[c] = made \o plots
      BY <1>3, <1>6 DEF HistoryOK
    <2>3. history'.from[c] = IF fresh THEN Len(made) ELSE from
      BY <1>3, <1>6 DEF HistoryOK
    <2>4. CASE fresh
      <3>1. f \in d.open /\ PlotsOf(d.files[f]) = plots /\ TitledParts(d.files[f])
        BY <2>4 DEF fresh, f
      <3>2. SubSeq(made \o plots, Len(made) + 1, Len(made \o plots)) = plots
        <4>1. SubSeq(made \o plots, Len(made) + 1, Len(made \o plots))
                = SubSeq(made, Len(made) + 1, Len(made)) \o plots
          BY <1>4, SubSeqJoin
        <4>2. SubSeq(made, Len(made) + 1, Len(made)) = <<>>
          BY <1>4, SubSeqEmpty
        <4>3. <<>> \o plots = plots
          OBVIOUS
        <4> QED BY <4>1, <4>2, <4>3
      <3> QED BY <1>1, <1>7, <2>2, <2>3, <2>4, <3>1, <3>2
    <2>5. CASE ~fresh
      <3>1. /\ config[c].open <=> f \in disk.open
            /\ PlotsOf(disk.files[f]) = SubSeq(made, from + 1, Len(made))
            /\ TitledParts(disk.files[f])
        BY <1>3, <2>1, <2>5 DEF StackOK, f, made, from
      <3>2. config[c].open /\ f \in disk.open
        BY <2>5, <3>1 DEF fresh
      <3>3. f \in d.open /\ PlotsOf(d.files[f]) = PlotsOf(disk.files[f]) \o plots /\ TitledParts(d.files[f])
        BY <3>1, <3>2 DEF f
      <3>4. SubSeq(made \o plots, from + 1, Len(made \o plots))
              = SubSeq(made, from + 1, Len(made)) \o plots
        BY <1>4, SubSeqJoin
      <3> QED BY <1>1, <1>7, <2>2, <2>3, <2>5, <3>1, <3>3, <3>4
    <2> QED BY <2>4, <2>5
  <1>12. ASSUME NEW x \in Configs, x # c
         PROVE  StackOK(x)'
    <2> DEFINE g == Stack(x)
    <2>1. g \in StackFiles
      BY StackInFiles
    <2>2. SUFFICES ASSUME history'.owner[g] = x
                   PROVE  /\ config'[x].open <=> g \in disk'.open
                          /\ PlotsOf(disk'.files[g])
                               = SubSeq(history'.made[x], history'.from[x] + 1, Len(history'.made[x]))
                          /\ TitledParts(disk'.files[g])
      BY <1>9 DEF StackOK
    <2> HIDE DEF g
    <2>3. g # f
      BY <1>2, <1>3, <1>6, <1>12, <2>2 DEF HistoryOK
    <2>4. history.owner[g] = x
      BY <1>3, <1>6, <2>1, <2>2, <2>3 DEF HistoryOK
    <2>5. d.files[g] = disk.files[g] /\ (g \in d.open <=> g \in disk.open)
      BY <2>1, <2>3 DEF OnlyFile, f
    <2>6. history'.made[x] = history.made[x] /\ history'.from[x] = history.from[x]
      BY <1>3, <1>6, <1>12 DEF HistoryOK
    <2>7. StackOK(x)
      BY <1>3
    <2> QED BY <1>1, <1>7, <1>12, <2>4, <2>5, <2>6, <2>7 DEF StackOK, g
  <1>13. LastOK'
    BY <1>1, <1>5, <1>6 DEF LastOK
  <1>14. DiskOK(disk)'
    BY <1>1
  <1> QED BY <1>8, <1>10, <1>11, <1>12, <1>13, <1>14 DEF PlotStackInv

LEMMA NoPages ==
  ASSUME NEW d, DiskOK(d), NEW f \in StackFiles
  PROVE  PrintPages(d, f, <<>>) = d
  BY PrintPagesIsFold, Prints!FoldEmpty

(* A call that prints a title or nothing, takes the stack to be open from  *)
(* there on, and prints its pages.                                         *)
LEMMA CallStep ==
  ASSUME PlotStackInv, NEW c \in Configs,
         NEW title \in Seq(Page), TitledParts(title), \A i \in 1..Len(title) : ~IsPlot(title[i]),
         NEW pages \in Seq(Page), TitledParts(pages), AllDiffer => Unique(pages),
         Printed(c, PrintPages(OnDemandOpenPlotStack(PrintPages(disk, Stack(c), title), c),
                               Stack(c), pages),
                 PlotsOf(pages))
  PROVE  PlotStackInv'
  <1> DEFINE f == Stack(c)
             d == PrintPages(OnDemandOpenPlotStack(PrintPages(disk, f, title), c), f, pages)
             plots == PlotsOf(pages)
             old == disk.files[f]
  <1>1. Printed(c, d, plots)
    OBVIOUS
  <1>2. DiskOK(disk) /\ f \in StackFiles
    BY StackInFiles DEF PlotStackInv
  <1>3. /\ DiskOK(d) /\ OnlyFile(disk, d, f)
        /\ ~config[c].open /\ f \notin disk.open => f \in d.open /\ d.files[f] = pages
        /\ config[c].open /\ f \in disk.open =>
             f \in d.open /\ d.files[f] = (old \o title) \o pages
        /\ \A i \in 1..Len(pages) : IsPlot(pages[i]) => FileOf(pages[i]) \in DOMAIN d.files
        /\ Unique(pages) =>
             \A i \in 1..Len(pages) :
               IsPlot(pages[i]) => d.files[FileOf(pages[i])] = <<pages[i]>>
    <2>1. Called(disk, d, c, title, pages)
      BY <1>2, CallFacts
    <2> HIDE DEF d
    <2> QED BY <2>1 DEF Called
  <1> HIDE DEF d
  <1>4. old \in Seq(Page)
    BY <1>2 DEF DiskOK
  <1>5. /\ plots \in Seq(Page) /\ PlotsOf(title) = <<>>
        /\ \A i \in 1..Len(plots) :
             IsPlot(plots[i]) /\ \E j \in 1..Len(pages) : plots[i] = pages[j]
    BY PlotsOfFacts
  <1> HIDE DEF plots, old
  <1>6. ASSUME config[c].open, f \in disk.open
        PROVE  /\ f \in d.open
               /\ PlotsOf(d.files[f]) = PlotsOf(old) \o plots
               /\ TitledParts(old) => TitledParts(d.files[f])
    <2> DEFINE longer == old \o title
    <2>1. longer \in Seq(Page)
      BY <1>4, JoinFacts
    <2>2. PlotsOf(longer) = PlotsOf(old)
      <3> DEFINE was == PlotsOf(old)
      <3>1. was \in Seq(Page)
        BY <1>4, PlotsOfFacts
      <3>2. PlotsOf(longer) = was \o <<>>
        BY <1>4, <1>5, PlotsOfJoin
      <3> HIDE DEF was, longer
      <3>3. was \o <<>> = was
        BY <3>1
      <3> QED BY <3>2, <3>3 DEF was
    <2>3. TitledParts(old) => TitledParts(longer)
      BY <1>4, TitledJoin
    <2>4. d.files[f] = longer \o pages /\ f \in d.open
      BY <1>3, <1>6
    <2> HIDE DEF longer
    <2>5. PlotsOf(longer \o pages) = PlotsOf(longer) \o plots
      BY <2>1, PlotsOfJoin DEF plots
    <2>6. TitledParts(longer) => TitledParts(longer \o pages)
      BY <2>1, TitledJoin
    <2> QED BY <2>2, <2>3, <2>4, <2>5, <2>6
  <1>7. ASSUME ~config[c].open, f \notin disk.open
        PROVE  f \in d.open /\ PlotsOf(d.files[f]) = plots /\ TitledParts(d.files[f])
    BY <1>3, <1>7 DEF plots
  <1>8. \A i \in 1..Len(plots) :
          /\ FileOf(plots[i]) \in DOMAIN d.files
          /\ AllDiffer => d.files[FileOf(plots[i])] = <<plots[i]>>
    BY <1>3, <1>5
  <1> QED BY <1>1, <1>3, <1>5, <1>6, <1>7, <1>8, PrintedStep DEF old

(* A call without a title before the stack is opened.                      *)
LEMMA PlainCallStep ==
  ASSUME PlotStackInv, NEW c \in Configs,
         NEW pages \in Seq(Page), TitledParts(pages), AllDiffer => Unique(pages),
         Printed(c, PrintPages(OnDemandOpenPlotStack(disk, c), Stack(c), pages), PlotsOf(pages))
  PROVE  PlotStackInv'
  <1>1. PrintPages(disk, Stack(c), <<>>) = disk
    BY NoPages, StackInFiles DEF PlotStackInv
  <1>2. <<>> \in Seq(Page) /\ 1..Len(<<>>) = {}
    OBVIOUS
  <1>3. TitledParts(<<>>) /\ \A i \in 1..Len(<<>>) : ~IsPlot(<<>>[i])
    BY <1>2 DEF TitledParts
  <1>4. Printed(c, PrintPages(OnDemandOpenPlotStack(PrintPages(disk, Stack(c), <<>>), c),
                              Stack(c), pages),
                PlotsOf(pages))
    BY <1>1
  <1> QED BY <1>2, <1>3, <1>4, CallStep

LEMMA PlotHandlerStep ==
  ASSUME PlotStackInv, NEW p \in DOMAIN Plots, NEW sc \in Scalings, PlotHandler(p, sc)
  PROVE  PlotStackInv'
  <1> DEFINE c == Plots[p].config
             name == <<Plots[p].name>>
             of == <<history.calls, "all">>
             pages == Sheets(name, of, Plots[p].pdf, sc)
  <1>1. c \in Configs /\ Plots[p].pdf \in BOOLEAN /\ ~IsSimultaneous(p)
    BY PlotStackAssumption DEF PlotHandler
  <1>2. Printed(c, PrintPages(OnDemandOpenPlotStack(disk, c), Stack(c), pages), pages)
    BY DEF PlotHandler
  <1>3. history.calls \in Int /\ "all" \in Text
    BY DEF PlotStackInv, HistoryOK, Text
  <1>4. of \in Of
    BY <1>3 DEF Of
  <1>4a. Len(of) = 2
    OBVIOUS
  <1>5. name \in Seq(Text)
    BY NamesAreText, PairIsSeq
  <1> HIDE DEF name, of, c
  <1>6. pages \in Seq(Page) /\ SheetsOf(pages, name, of) /\ Unique(pages)
    BY <1>1, <1>4, <1>5, SheetsFacts
  <1> HIDE DEF pages
  <1>7. \A i \in 1..Len(pages) : IsPlot(pages[i]) /\ Len(pages[i].of) = 2
    BY <1>4a, <1>6 DEF SheetsOf
  <1>8. PlotsOf(pages) = pages /\ TitledParts(pages)
    BY <1>6, <1>7, PlotsOfFacts, PlotsLead
  <1> QED BY <1>1, <1>2, <1>6, <1>8, PlainCallStep

(* The sum of a simultaneous plot with its title.                          *)
LEMMA PlotSimultaneousStep ==
  ASSUME PlotStackInv, NEW p \in DOMAIN Plots, NEW sc \in Scalings,
         NEW allCategories \in BOOLEAN, NEW allSlices \in BOOLEAN, NEW withData,
         PlotSimultaneousHandler(p, sc, allCategories, allSlices, withData)
  PROVE  PlotStackInv'
  <1> DEFINE c == Plots[p].config
             no == history.calls
             f == Stack(c)
             categories == Categories(p, allCategories, withData)
             parts == PartsOf(p, sc, allCategories, allSlices, withData, no)
             name == <<Plots[p].name, "summed">>
             of == <<no, "all">>
             sum == IF Len(categories) = 1 THEN <<>> ELSE Sheets(name, of, TRUE, sc)
             before == IF parts = <<>> THEN <<>> ELSE Last(parts).name
             title == IF sum = <<>> THEN <<>> ELSE <<Title(before, of)>>
             plots == PlotsOf(parts) \o sum
             whole == (parts \o title) \o sum
             d1 == PrintPages(OnDemandOpenPlotStack(disk, c), f, whole)
             d2 == PrintPages(OnDemandOpenPlotStack(PrintPages(disk, f, title), c), f, sum)
  <1>1. IsSimultaneous(p) /\ c \in Configs
    BY PlotStackAssumption DEF PlotSimultaneousHandler
  <1>2. Printed(c, IF parts # <<>> THEN d1 ELSE d2, plots)
    BY DEF PlotSimultaneousHandler, PartsOf
  <1>3. DiskOK(disk) /\ f \in StackFiles /\ no \in Int
    BY <1>1, StackInFiles DEF PlotStackInv, HistoryOK
  <1>4. name \in Seq(Text) /\ of \in Of
    <2>1. "all" \in Text /\ "summed" \in Text
      BY DEF Text
    <2>2. of \in Of
      BY <1>3, <2>1 DEF Of
    <2>3. name \in Seq(Text)
      BY <2>1, NamesAreText, PairIsSeq
    <2> QED BY <2>2, <2>3
  <1>4a. name = PartName(p, "summed") /\ Len(of) = 2
    BY DEF PartName
  <1> HIDE DEF name, of, f
  <1>5. /\ parts \in Seq(Page) /\ TitledParts(parts)
        /\ \A k \in 1..Len(parts) : parts[k].name \in Seq(Text)
        /\ AllDiffer => Unique(parts) /\ \A k \in 1..Len(parts) : parts[k].name # name
    BY <1>1, <1>3, <1>4a, PartsOfFacts DEF AllDiffer
  <1> HIDE DEF parts, categories
  <1>6. sum \in Seq(Page) /\ SheetsOf(sum, name, of) /\ Unique(sum)
    <2>1. CASE Len(categories) = 1
      <3>1. sum = <<>>
        BY <2>1
      <3> HIDE DEF sum
      <3>2. <<>> \in Seq(Page) /\ 1..Len(<<>>) = {}
        OBVIOUS
      <3> QED BY <3>1, <3>2 DEF SheetsOf, Unique
    <2>2. CASE Len(categories) # 1
      <3>1. sum = Sheets(name, of, TRUE, sc)
        BY <2>2
      <3> HIDE DEF sum
      <3> QED BY <1>4, <3>1, SheetsFacts
    <2> QED BY <2>1, <2>2
  <1> HIDE DEF sum
  <1>7. before \in Seq(Text)
    <2>1. CASE parts = <<>>
      BY <2>1
    <2>2. CASE parts # <<>>
      <3>1. Len(parts) \in 1..Len(parts)
        BY <1>5, <2>2, EmptySeq, LenProperties
      <3>2. Last(parts) = parts[Len(parts)]
        BY DEF Last
      <3> QED BY <1>5, <2>2, <3>1, <3>2
    <2> QED BY <2>1, <2>2
  <1> HIDE DEF before
  <1>8. /\ title \in Seq(Page) /\ TitledParts(title)
        /\ \A i \in 1..Len(title) : ~IsPlot(title[i])
    <2>1. CASE sum = <<>>
      <3>1. title = <<>>
        BY <2>1
      <3> HIDE DEF title
      <3>2. <<>> \in Seq(Page) /\ 1..Len(<<>>) = {}
        OBVIOUS
      <3> QED BY <3>1, <3>2 DEF TitledParts
    <2>2. CASE sum # <<>>
      <3>1. title = <<Title(before, of)>>
        BY <2>2
      <3> HIDE DEF title
      <3>2. Title(before, of) \in Page
        BY <1>4, <1>7 DEF Title, Page
      <3>3. ~IsPlot(Title(before, of)) /\ Title(before, of).of = of
        BY DEF Title, IsPlot
      <3>4. title \in Seq(Page) /\ Len(title) = 1 /\ title[1] = Title(before, of)
        BY <3>1, <3>2
      <3>5. \A i \in 1..Len(title) : i = 1
        BY <3>4
      <3>6. \A i \in 1..Len(title) : ~IsPlot(title[i]) /\ Len(title[i].of) = 2
        BY <1>4a, <3>3, <3>4, <3>5
      <3>7. TitledParts(title)
        <4> SUFFICES ASSUME NEW i \in 1..Len(title), Len(title[i].of) = 3 PROVE FALSE
          BY DEF TitledParts, IsPartTitle, IsPartPlot
        <4>1. Len(title[i].of) = 2
          BY <3>6
        <4>2. 2 # 3
          OBVIOUS
        <4> QED BY <4>1, <4>2, Zenon
      <3> QED BY <3>4, <3>6, <3>7
    <2> QED BY <2>1, <2>2
  <1> HIDE DEF title
  <1>9. /\ \A i \in 1..Len(sum) : IsPlot(sum[i])
        /\ PlotsOf(sum) = sum /\ TitledParts(sum) /\ PlotsOf(title) = <<>>
    <2>1. \A i \in 1..Len(sum) : IsPlot(sum[i]) /\ Len(sum[i].of) = 2
      BY <1>4a, <1>6 DEF SheetsOf
    <2> QED BY <1>6, <1>8, <2>1, PlotsOfFacts, PlotsLead
  <1>10. PlotsOf(parts) \in Seq(Page)
    BY <1>5, PlotsOfFacts
  <1>11. CASE parts = <<>>
    <2>1. Printed(c, d2, plots)
      BY <1>2, <1>11
    <2>2. plots = PlotsOf(sum)
      <3>1. PlotsOf(parts) = <<>>
        <4>1. \A j \in 1..Len(parts) : ~IsPlot(parts[j])
          BY <1>11
        <4> QED BY <1>5, <4>1, PlotsOfFacts
      <3>2. <<>> \o sum = sum
        BY <1>6
      <3> QED BY <1>9, <3>1, <3>2
    <2> HIDE DEF plots, c
    <2> QED BY <1>1, <1>6, <1>8, <1>9, <2>1, <2>2, CallStep DEF f
  <1>12. CASE parts # <<>>
    <2> DEFINE front == parts \o title
    <2>1. /\ front \in Seq(Page)
          /\ \A i \in 1..Len(front) :
               \/ \E k \in 1..Len(parts) : front[i] = parts[k]
               \/ \E k \in 1..Len(title) : front[i] = title[k]
      <3>1. parts \in Seq(Page) /\ title \in Seq(Page)
        BY <1>5, <1>8
      <3>2. /\ front \in Seq(Page)
            /\ \A i \in 1..Len(parts) : front[i] = parts[i]
            /\ \A i \in 1..Len(front) : i \notin 1..Len(parts) =>
                 i - Len(parts) \in 1..Len(title) /\ front[i] = title[i - Len(parts)]
        BY ONLY <3>1, JoinFacts
      <3> QED BY <3>2
    <2>2. TitledParts(front)
      BY <1>5, <1>8, TitledJoin
    <2>3. AllDiffer => Unique(front)
      <3> SUFFICES ASSUME AllDiffer PROVE Unique(front)
        OBVIOUS
      <3>1. Unique(title) /\ Apart(parts, title)
        BY <1>8 DEF Unique, Apart
      <3> QED BY <1>5, <1>8, <3>1, UniqueJoin
    <2>4. PlotsOf(front) = PlotsOf(parts)
      <3> DEFINE own == PlotsOf(parts)
      <3>1. PlotsOf(front) = own \o <<>>
        BY <1>5, <1>8, <1>9, PlotsOfJoin
      <3> HIDE DEF own, front
      <3>2. own \o <<>> = own
        BY <1>10 DEF own
      <3> QED BY <3>1, <3>2 DEF own
    <2> HIDE DEF front
    <2>5. whole = front \o sum
      BY DEF front
    <2>6. whole \in Seq(Page)
      BY <1>6, <2>1, <2>5, JoinFacts
    <2>7. TitledParts(whole)
      BY <1>6, <1>9, <2>1, <2>2, <2>5, TitledJoin
    <2>8. PlotsOf(whole) = plots
      BY <1>6, <1>9, <2>1, <2>4, <2>5, PlotsOfJoin
    <2>9. AllDiffer => Unique(whole)
      <3> SUFFICES ASSUME AllDiffer PROVE Unique(whole)
        OBVIOUS
      <3>1. Apart(front, sum)
        <4> SUFFICES ASSUME NEW i \in 1..Len(front), NEW j \in 1..Len(sum),
                            IsPlot(front[i]), FileOf(front[i]) = FileOf(sum[j])
                     PROVE  FALSE
          BY DEF Apart
        <4>1. PICK k \in 1..Len(parts) : front[i] = parts[k]
          BY <1>8, <2>1
        <4>2. front[i].name # name
          BY <1>5, <4>1
        <4>3. front[i].name = sum[j].name
          BY DEF FileOf
        <4> QED BY <1>6, <4>2, <4>3 DEF SheetsOf
      <3> QED BY <1>6, <2>1, <2>3, <2>5, <3>1, UniqueJoin
    <2>10. Printed(c, d1, plots)
      BY <1>2, <1>12
    <2> HIDE DEF whole, plots, c
    <2> QED BY <1>1, <2>6, <2>7, <2>8, <2>9, <2>10, PlainCallStep DEF f
  <1> QED BY <1>11, <1>12

(* A step that touches no file but f, makes no plots and gives f to nobody *)
(* else.                                                                   *)
LEMMA OtherStack ==
  ASSUME PlotStackInv, NEW f \in StackFiles, OnlyFile(disk, disk', f),
         config' \in [Configs -> [open: BOOLEAN, appendix: Appendices]],
         history'.made = history.made, history'.from = history.from,
         NEW x \in Configs, config'[x] = config[x], Stack(x) # f,
         history'.owner[Stack(x)] = x => history.owner[Stack(x)] = x
  PROVE  StackOK(x)'
  <1> DEFINE g == Stack(x)
  <1>1. g \in StackFiles /\ g # f
    BY StackInFiles
  <1>2. Stack(x)' = g
    BY DEF Stack
  <1>3. StackOK(x)
    BY DEF PlotStackInv
  <1> HIDE DEF g
  <1>4. disk'.files[g] = disk.files[g] /\ (g \in disk'.open <=> g \in disk.open)
    BY <1>1 DEF OnlyFile
  <1> QED BY <1>2, <1>3, <1>4 DEF StackOK, g

LEMMA SameLast ==
  ASSUME PlotStackInv, NEW f \in StackFiles, SameFiles(disk, disk', f),
         history'.last = history.last
  PROVE  LastOK'
  <1> SUFFICES ASSUME NEW page \in history.last
               PROVE  /\ FileOf(page) \in DOMAIN disk'.files
                      /\ AllDiffer => disk'.files[FileOf(page)] = <<page>>
    BY DEF LastOK
  <1>1. FileOf(page) # f
    BY FilesApart
  <1>2. /\ FileOf(page) \in DOMAIN disk.files
        /\ AllDiffer => disk.files[FileOf(page)] = <<page>>
    BY DEF PlotStackInv, LastOK
  <1> QED BY <1>1, <1>2 DEF SameFiles

LEMMA NewOwners ==
  ASSUME PlotStackInv, NEW owner \in [StackFiles -> Configs \cup {Nobody}],
         \/ history' = [history EXCEPT !.owner = owner]
         \/ history' = [history EXCEPT !.owner = owner, !.toys = @ + 1]
  PROVE  /\ HistoryOK'
         /\ history'.made = history.made /\ history'.from = history.from
         /\ history'.last = history.last /\ history'.owner = owner
  <1>1. HistoryOK
    BY DEF PlotStackInv
  <1>2. /\ history'.made = history.made /\ history'.from = history.from
        /\ history'.last = history.last /\ history'.owner = owner
        /\ history'.calls = history.calls /\ history'.toys \in Nat
        /\ history' = [made |-> history'.made, from |-> history'.from, owner |-> history'.owner,
                       last |-> history'.last, calls |-> history'.calls, toys |-> history'.toys]
    <2>1. history.toys \in Nat /\ history.toys + 1 \in Nat
      BY <1>1 DEF HistoryOK
    <2>2. DOMAIN history = {"made", "from", "owner", "last", "calls", "toys"}
      BY <1>1 DEF HistoryOK
    <2>3. CASE history' = [history EXCEPT !.owner = owner]
      BY <2>1, <2>2, <2>3
    <2>4. CASE history' = [history EXCEPT !.owner = owner, !.toys = @ + 1]
      BY <2>1, <2>2, <2>4
    <2> QED BY <2>3, <2>4
  <1>3. history' \in [made: [Configs -> Seq(Page)], from: [Configs -> Nat],
                      owner: [StackFiles -> Configs \cup {Nobody}],
                      last: SUBSET Page, calls: Nat, toys: Nat]
    BY <1>1, <1>2 DEF HistoryOK
  <1> QED BY <1>1, <1>2, <1>3 DEF HistoryOK

LEMMA ClosePlotStackStep ==
  ASSUME PlotStackInv, NEW c \in Configs, ClosePlotStack(c)
  PROVE  PlotStackInv'
  <1> DEFINE f == Stack(c)
             owner == [history.owner EXCEPT ![f] = IF @ = c THEN c ELSE Nobody]
  <1>1. f \in StackFiles /\ DiskOK(disk) /\ StackOK(c) /\ Nobody \notin Configs
    BY StackInFiles, PlotStackAssumption DEF PlotStackInv
  <1>2. /\ config[c].open /\ disk' = CloseFile(disk, f)
        /\ config' = [config EXCEPT ![c].open = FALSE]
        /\ config \in [Configs -> [open: BOOLEAN, appendix: Appendices]]
    BY DEF ClosePlotStack, PlotStackInv
  <1>3. /\ \A x \in Configs : config'[x].appendix = config[x].appendix
        /\ \A x \in Configs \ {c} : config'[x] = config[x]
        /\ config'[c].open = FALSE
        /\ config' \in [Configs -> [open: BOOLEAN, appendix: Appendices]]
    BY <1>2
  <1>4. /\ DiskOK(disk') /\ OnlyFile(disk, disk', f) /\ SameFiles(disk, disk', f)
        /\ f \notin disk'.open
        /\ f \in disk.open => disk'.files = disk.files
    BY <1>1, <1>2, CloseFileFacts
  <1>5. history.owner \in [StackFiles -> Configs \cup {Nobody}]
    BY DEF PlotStackInv, HistoryOK
  <1>6. Stack(c)' = f
    BY <1>3 DEF Stack
  <1>7. history' = [history EXCEPT !.owner = owner]
    BY DEF ClosePlotStack
  <1> HIDE DEF f
  <1>8. /\ owner \in [StackFiles -> Configs \cup {Nobody}]
        /\ \A g \in StackFiles \ {f} : owner[g] = history.owner[g]
        /\ owner[f] \in {c, Nobody}
        /\ owner[f] = c => history.owner[f] = c
    BY <1>1, <1>5
  <1> HIDE DEF owner
  <1>9. /\ HistoryOK' /\ history'.made = history.made /\ history'.from = history.from
        /\ history'.last = history.last /\ history'.owner = owner
    BY <1>7, <1>8, NewOwners
  <1>10. StackOK(c)'
    <2> SUFFICES ASSUME owner[f] = c
                 PROVE  /\ f \notin disk'.open
                        /\ PlotsOf(disk'.files[f])
                             = SubSeq(history.made[c], history.from[c] + 1, Len(history.made[c]))
                        /\ TitledParts(disk'.files[f])
      BY <1>3, <1>6, <1>9 DEF StackOK
    <2>1. history.owner[f] = c
      BY <1>8
    <2>2. f \in disk.open
      BY <1>1, <1>2, <2>1 DEF StackOK, f
    <2> QED BY <1>1, <1>4, <2>1, <2>2 DEF StackOK, f
  <1>11. ASSUME NEW x \in Configs, x # c
         PROVE  StackOK(x)'
    <2>1. CASE Stack(x) = f
      <3>1. Stack(x)' = f
        BY <1>3, <2>1 DEF Stack
      <3>2. history'.owner[f] # x
        BY <1>1, <1>8, <1>9, <1>11
      <3> QED BY <3>1, <3>2 DEF StackOK
    <2>2. CASE Stack(x) # f
      <3>1. history'.owner[Stack(x)] = history.owner[Stack(x)]
        BY <1>8, <1>9, <2>2, StackInFiles
      <3> QED BY <1>1, <1>3, <1>4, <1>9, <1>11, <2>2, <3>1, OtherStack
    <2> QED BY <2>1, <2>2
  <1>12. LastOK'
    BY <1>1, <1>4, <1>9, SameLast
  <1>13. DiskOK(disk)'
    BY <1>4
  <1> QED BY <1>3, <1>9, <1>10, <1>11, <1>12, <1>13 DEF PlotStackInv

LEMMA set_plot_appendixStep ==
  ASSUME PlotStackInv, NEW c \in Configs, NEW appendix \in Appendices,
         set_plot_appendix(c, appendix)
  PROVE  PlotStackInv'
  <1> DEFINE owner == [f \in DOMAIN history.owner |->
                         IF history.owner[f] = c THEN Nobody ELSE history.owner[f]]
  <1>1. /\ config' = [config EXCEPT ![c].appendix = appendix] /\ disk' = disk
        /\ config \in [Configs -> [open: BOOLEAN, appendix: Appendices]]
    BY DEF set_plot_appendix, PlotStackInv
  <1>2. /\ \A x \in Configs \ {c} : config'[x] = config[x]
        /\ config' \in [Configs -> [open: BOOLEAN, appendix: Appendices]]
    BY <1>1
  <1>3. history.owner \in [StackFiles -> Configs \cup {Nobody}] /\ Nobody \notin Configs
    BY PlotStackAssumption DEF PlotStackInv, HistoryOK
  <1>4. history' = [history EXCEPT !.owner = owner]
    BY DEF set_plot_appendix
  <1>5. /\ owner \in [StackFiles -> Configs \cup {Nobody}]
        /\ \A f \in StackFiles : owner[f] # c
        /\ \A f \in StackFiles, x \in Configs : owner[f] = x => history.owner[f] = x
    BY <1>3
  <1> HIDE DEF owner
  <1>6. /\ HistoryOK' /\ history'.made = history.made /\ history'.from = history.from
        /\ history'.last = history.last /\ history'.owner = owner
    BY <1>4, <1>5, NewOwners
  <1>7. ASSUME NEW x \in Configs
        PROVE  Stack(x)' \in StackFiles
    BY <1>2 DEF Stack, StackFiles, Stacks
  <1>8. StackOK(c)'
    BY <1>5, <1>6, <1>7 DEF StackOK
  <1>9. ASSUME NEW x \in Configs, x # c
        PROVE  StackOK(x)'
    <2>1. Stack(x)' = Stack(x)
      BY <1>2, <1>9 DEF Stack
    <2>2. history'.owner[Stack(x)] = x => history.owner[Stack(x)] = x
      BY <1>5, <1>6, StackInFiles
    <2>3. StackOK(x)
      BY DEF PlotStackInv
    <2> QED BY <1>1, <1>2, <1>6, <1>9, <2>1, <2>2, <2>3 DEF StackOK
  <1>10. LastOK' /\ DiskOK(disk)'
    BY <1>1, <1>6 DEF PlotStackInv, LastOK
  <1> QED BY <1>2, <1>6, <1>8, <1>9, <1>10 DEF PlotStackInv

LEMMA PlotEvaluatedParametersStep ==
  ASSUME PlotStackInv, PlotEvaluatedParameters
  PROVE  PlotStackInv'
  <1> DEFINE f == <<ToyDir, "">>
             page == [kind |-> "toys"]
             a == OpenFile(disk, f)
             b == PrintPage(a, f, page)
             owner == [history.owner EXCEPT ![f] = Nobody]
  <1>1. f \in StackFiles /\ DiskOK(disk) /\ Nobody \notin Configs /\ page \in Page
    BY PlotStackAssumption DEF PlotStackInv, StackFiles, Stacks, Page
  <1>2. disk' = CloseFile(b, f) /\ config' = config
    BY DEF PlotEvaluatedParameters
  <1>3. history' = [history EXCEPT !.owner = owner, !.toys = @ + 1]
    BY DEF PlotEvaluatedParameters
  <1> HIDE DEF f, page
  <1>4. DiskOK(a) /\ OnlyFile(disk, a, f) /\ SameFiles(disk, a, f)
    BY <1>1, OpenFileFacts
  <1> HIDE DEF a
  <1>5. DiskOK(b)
    BY <1>1, <1>4, PrintPageOK
  <1>6. OnlyFile(a, b, f) /\ SameFiles(a, b, f)
    <2>1. /\ b.open = a.open /\ DOMAIN a.files \subseteq DOMAIN b.files
          /\ \A g \in DOMAIN a.files : g # f => b.files[g] = a.files[g]
      BY DEF PrintPage
    <2> HIDE DEF b
    <2> QED BY <1>4, <2>1 DEF OnlyFile, SameFiles, DiskOK
  <1> HIDE DEF b
  <1>7. /\ DiskOK(disk') /\ OnlyFile(b, disk', f) /\ SameFiles(b, disk', f)
    BY <1>1, <1>2, <1>5, CloseFileFacts
  <1>8. OnlyFile(disk, disk', f) /\ SameFiles(disk, disk', f)
    BY <1>4, <1>6, <1>7 DEF OnlyFile, SameFiles
  <1>9. history.owner \in [StackFiles -> Configs \cup {Nobody}]
    BY DEF PlotStackInv, HistoryOK
  <1>10. /\ owner \in [StackFiles -> Configs \cup {Nobody}]
         /\ \A g \in StackFiles \ {f} : owner[g] = history.owner[g]
         /\ owner[f] = Nobody
    BY <1>1, <1>9
  <1> HIDE DEF owner
  <1>11. /\ HistoryOK' /\ history'.made = history.made /\ history'.from = history.from
         /\ history'.last = history.last /\ history'.owner = owner
    BY <1>3, <1>10, NewOwners
  <1>12. config' \in [Configs -> [open: BOOLEAN, appendix: Appendices]]
    BY <1>2 DEF PlotStackInv
  <1>13. ASSUME NEW x \in Configs
         PROVE  StackOK(x)'
    <2>1. CASE Stack(x) = f
      <3>1. Stack(x)' = f
        BY <1>2, <2>1 DEF Stack
      <3> QED BY <1>1, <1>10, <1>11, <3>1 DEF StackOK
    <2>2. CASE Stack(x) # f
      <3>1. history'.owner[Stack(x)] = history.owner[Stack(x)]
        BY <1>10, <1>11, <2>2, StackInFiles
      <3> QED BY <1>1, <1>2, <1>8, <1>11, <1>12, <2>2, <3>1, OtherStack
    <2> QED BY <2>1, <2>2
  <1>14. LastOK'
    BY <1>1, <1>8, <1>11, SameLast
  <1>15. DiskOK(disk)'
    BY <1>7
  <1> QED BY <1>11, <1>12, <1>13, <1>14, <1>15 DEF PlotStackInv

-----------------------------------------------------------------------------
LEMMA InitInv == Init => PlotStackInv
  <1> SUFFICES ASSUME Init PROVE PlotStackInv
    OBVIOUS
  <1>1. <<>> \in Seq(Page) /\ Len(<<>>) = 0 /\ 1..Len(<<>>) = {}
    OBVIOUS
  <1>2. /\ config = [c \in Configs |-> [open |-> FALSE, appendix |-> ""]]
        /\ disk = [files |-> [f \in StackFiles |-> <<>>], open |-> {}]
        /\ history = [made |-> [c \in Configs |-> <<>>], from |-> [c \in Configs |-> 0],
                      owner |-> [f \in StackFiles |-> Nobody],
                      last |-> {}, calls |-> 0, toys |-> 0]
    BY DEF Init, StackFiles
  <1>3. config \in [Configs -> [open: BOOLEAN, appendix: Appendices]]
    BY <1>2, PlotStackAssumption
  <1>4. DiskOK(disk)
    BY <1>1, <1>2 DEF DiskOK
  <1>5. HistoryOK
    <2>1. /\ history.made \in [Configs -> Seq(Page)] /\ history.from \in [Configs -> Nat]
          /\ history.owner \in [StackFiles -> Configs \cup {Nobody}]
          /\ history.last \in SUBSET Page /\ history.calls \in Nat /\ history.toys \in Nat
          /\ \A c \in Configs : history.from[c] = 0 /\ history.made[c] = <<>>
          /\ history = [made |-> history.made, from |-> history.from, owner |-> history.owner,
                        last |-> history.last, calls |-> history.calls, toys |-> history.toys]
      BY <1>1, <1>2
    <2>2. \A c \in Configs : history.from[c] <= Len(history.made[c])
      BY <1>1, <2>1
    <2> QED BY <2>1, <2>2 DEF HistoryOK
  <1>6. LastOK
    BY <1>2 DEF LastOK
  <1>7. ASSUME NEW c \in Configs
        PROVE  StackOK(c)
    <2>1. Stack(c) \in StackFiles
      BY <1>3 DEF Stack, StackFiles, Stacks
    <2> QED BY <1>2, <2>1, PlotStackAssumption DEF StackOK
  <1> QED BY <1>3, <1>4, <1>5, <1>6, <1>7 DEF PlotStackInv

LEMMA NextInv == PlotStackInv /\ [Next]_vars => PlotStackInv'
  <1> SUFFICES ASSUME PlotStackInv, [Next]_vars PROVE PlotStackInv'
    OBVIOUS
  <1>1. CASE \E p \in DOMAIN Plots, sc \in Scalings : PlotHandler(p, sc)
    BY <1>1, PlotHandlerStep
  <1>2. CASE \E p \in {q \in DOMAIN Plots : IsSimultaneous(q)}, sc \in Scalings,
               allCategories, allSlices \in BOOLEAN : \E empty \in EmptyTypes(p) :
          PlotSimultaneousHandler(p, sc, allCategories, allSlices, TypeNames(p) \ empty)
    BY <1>2, PlotSimultaneousStep
  <1>3. CASE \E c \in Configs : ClosePlotStack(c)
    BY <1>3, ClosePlotStackStep
  <1>4. CASE \E c \in Configs, appendix \in Appendices : set_plot_appendix(c, appendix)
    BY <1>4, set_plot_appendixStep
  <1>5. CASE PlotEvaluatedParameters
    BY <1>5, PlotEvaluatedParametersStep
  <1>6. CASE UNCHANGED vars
    BY <1>6 DEF vars, PlotStackInv, DiskOK, HistoryOK, StackOK, Stack, LastOK
  <1> QED BY <1>1, <1>2, <1>3, <1>4, <1>5, <1>6 DEF Next

(* Every plot of every call is kept in its own file and, as long as nobody *)
(* else writes there, in the stack, in the order of the calls              *)
(* (OnDemandOpenPlotStack, ClosePlotStack and what prints between them).   *)
THEOREM PlotsAreAlwaysKept == Spec => []PlotsAreKept
  BY InitInv, NextInv, InvImplies, PTL DEF Spec

(* In such a stack the plots of a category or a slice always stand behind  *)
(* their title, all of them and nothing else, for any categories, inputs,  *)
(* scales and data (PlotSimultaneous.cpp:193-208, 345-363).                *)
THEOREM TitlesAlwaysLead == Spec => []TitlesLeadTheirPlots
  BY InitInv, NextInv, InvImplies, PTL DEF Spec
=============================================================================
