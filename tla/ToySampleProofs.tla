-------------------------- MODULE ToySampleProofs ---------------------------
(***************************************************************************)
(* Proofs about ToyGeneration.  Of ToySample, for any constraints, sizes   *)
(* of samples and discrete variables: the state has its types; recorded    *)
(* parameters are the ones used; a shuffle has each order from one         *)
(* sequence of random numbers; and the sample has the events of the PDF    *)
(* and of the discrete variables whole and once.  Of ToyFactory, for trees *)
(* of a fixed size whose sums are of PDFs that round for themselves:       *)
(* sizes add up, and proto data suffice.                                   *)
(*                                                                         *)
(* The argument for the parameters: a value that is recorded was drawn by  *)
(* a constraint that is done, and if no other draws it nothing takes its   *)
(* place but a later one that reads it from the file (ParamsInv).          *)
(*                                                                         *)
(* For the shuffle: the order is the last of orders of 1, 2, ... elements, *)
(* each made from the one before by one choice (Shuffled).  The position   *)
(* of the greatest element tells the choice, and taking the element back   *)
(* gives the order before (PutAtUndone).                                   *)
(*                                                                         *)
(* For the sample: before it is merged or mixed the data are the events of *)
(* the samples so far, numbered one after the other, each in one row       *)
(* (AllEvents, EventsInv).  Mixing is a fold over the rows, in which the   *)
(* position with k others below it gets event k of the discrete sample     *)
(* (RowsMixed); the numbers of positions below are 0, 1, ... (Ranks).      *)
(*                                                                         *)
(* For the sizes: rounding with a carry never drifts, since the events of  *)
(* the sub PDFs so far and what was lost make up their shares, and what    *)
(* was lost is half an event at most (CarryFacts, SharesUsed).  An open    *)
(* call knows the size that the call above it will return, because in such *)
(* a tree it is the yield, rounded (Waiting).  Proto data are larger than  *)
(* the yield by more than the slices exceed their shares (Ample).          *)
(***************************************************************************)
EXTENDS ToyGeneration, FunctionTheorems, FiniteSetTheorems, SequenceTheorems, TLAPS

Add(p, sum, size) == sum + size

Facts == INSTANCE FoldFacts WITH op <- Add

LEMMA GenerationSamples ==
  /\ GenerationInit => Init
  /\ [GenerationNext]_allVars => [Next]_vars
<1>1. GenerationInit => Init
  BY DEF GenerationInit
<1>2. [GenerationNext]_allVars => [Next]_vars
  BY DEF GenerationNext, EventsNext, SizesNext, allVars
<1> QED BY <1>1, <1>2

-----------------------------------------------------------------------------
(* The parameters.                                                         *)

(* The values of a constraint that is the only one to draw a parameter and *)
(* whose parameter is not read again later.                                *)
Stays(p) == DrawnBy(p) = {recorded[p]} /\ ~ReadLater(p)

ParamsInv ==
  /\ request \in Requests
  /\ done \in Nat
  /\ status = "parameters" => recorded = <<>> /\ done = 0
  /\ \A p \in DOMAIN recorded :
       /\ p \in Params
       /\ recorded[p] \in DOMAIN request.constraints
       /\ p \in request.constraints[recorded[p]].draws
       /\ status = "constraints" => recorded[p] <= done
       /\ Stays(p) => params[p] = recorded[p]

LEMMA RequestTypes ==
  ASSUME NEW r \in Requests
  PROVE  /\ r.constraints \in Seq([draws: SUBSET Params, needs: SUBSET Params])
         /\ r.parts \in Seq(Nat) /\ r.columns \subseteq Vars
         /\ r.discrete \in Seq(Vars)
BY ToySampleAssumption DEF Request

LEMMA DrawKeepsParams ==
  ASSUME ParamsInv, DrawConstrainedParameters
  PROVE  ParamsInv'
<1> request' = request /\ request \in Requests /\ done \in Nat /\ status = "constraints"
  BY DEF DrawConstrainedParameters, ParamsInv
<1>1. CASE /\ WithPdf
           /\ done < Len(request.constraints)
           /\ LET k == done + 1
                  constraint == request.constraints[k]
              IN  /\ params' = [p \in Params |->
                                  IF p \in constraint.draws THEN k
                                  ELSE IF p \in ReadAgain(constraint) THEN FromFile
                                  ELSE params[p]]
                  /\ recorded' = SideBySide(recorded, [p \in constraint.draws |-> k])
                  /\ done' = k
           /\ UNCHANGED status
  <2> DEFINE k == done + 1
             constraint == request.constraints[k]
  <2>1. /\ k \in DOMAIN request.constraints /\ k \in Nat
        /\ constraint.draws \subseteq Params
    <3>1. done < Len(request.constraints)
      BY <1>1
    <3>2. request.constraints \in Seq([draws: SUBSET Params, needs: SUBSET Params])
      BY RequestTypes
    <3>3. k \in 1..Len(request.constraints) /\ DOMAIN request.constraints = 1..Len(request.constraints)
      BY <3>1, <3>2
    <3>4. constraint \in [draws: SUBSET Params, needs: SUBSET Params]
      BY <3>2, <3>3, ElementOfSeq
    <3> QED BY <3>3, <3>4
  <2>2. /\ DOMAIN recorded' = DOMAIN recorded \cup constraint.draws
        /\ \A p \in DOMAIN recorded' :
             recorded'[p] = IF p \in DOMAIN recorded THEN recorded[p] ELSE k
    BY <1>1 DEF SideBySide
  <2>3. \A p \in Params :
          params'[p] = IF p \in constraint.draws THEN k
                       ELSE IF p \in ReadAgain(constraint) THEN FromFile
                       ELSE params[p]
    BY <1>1
  <2>4. status' = "constraints" /\ done' = k
    BY <1>1
  <2>5. ASSUME NEW p \in DOMAIN recorded'
        PROVE  /\ p \in Params
               /\ recorded'[p] \in DOMAIN request.constraints
               /\ p \in request.constraints[recorded'[p]].draws
               /\ recorded'[p] <= k
               /\ (DrawnBy(p) = {recorded'[p]} /\ ~ReadLater(p)) => params'[p] = recorded'[p]
    <3>1. CASE p \notin DOMAIN recorded
      BY <2>1, <2>2, <2>3, <3>1
    <3>2. CASE p \in DOMAIN recorded
      <4> DEFINE j == recorded[p]
      <4>1. /\ p \in Params /\ j \in DOMAIN request.constraints
            /\ p \in request.constraints[j].draws /\ j <= done
            /\ Stays(p) => params[p] = j
            /\ recorded'[p] = j /\ j \in Nat
        BY <2>2, <3>2, RequestTypes DEF ParamsInv
      <4>2. ASSUME DrawnBy(p) = {j}, ~ReadLater(p)
            PROVE  params'[p] = j
        <5>1. p \notin constraint.draws
          <6>1. p \in constraint.draws => k \in DrawnBy(p)
            BY <2>1 DEF DrawnBy
          <6> QED BY <4>1, <4>2, <6>1
        <5>2. p \notin ReadAgain(constraint)
          <6>1. SUFFICES ASSUME p \in ReadAgain(constraint) PROVE FALSE
            OBVIOUS
          <6>2. request.file = "there" /\ p \in constraint.needs
            BY <6>1 DEF ReadAgain
          <6>3. j \in DrawnBy(p) /\ k > j
            BY <4>1, <4>2
          <6> QED BY <2>1, <4>2, <6>2, <6>3 DEF ReadLater
        <5>3. Stays(p)
          BY <4>2 DEF Stays
        <5> QED BY <2>3, <4>1, <5>1, <5>2, <5>3
      <4> QED BY <4>1, <4>2
    <3> QED BY <3>1, <3>2
  <2> QED BY <2>1, <2>4, <2>5 DEF ParamsInv, Stays, DrawnBy, ReadLater
<1>2. CASE /\ status' \in {"no_pdf", "continuous"}
           /\ done' \in Nat
           /\ UNCHANGED <<params, recorded>>
  BY <1>2 DEF ParamsInv, Stays, DrawnBy, ReadLater
<1> QED BY <1>1, <1>2 DEF DrawConstrainedParameters

LEMMA StepKeepsParams == ParamsInv /\ [Next]_vars => ParamsInv'
<1> SUFFICES ASSUME ParamsInv, [Next]_vars PROVE ParamsInv'
  OBVIOUS
<1>1. CASE /\ UNCHANGED <<request, params, recorded>>
           /\ done' \in Nat /\ status' # "parameters" /\ status' # "constraints"
  BY <1>1 DEF ParamsInv, Stays, DrawnBy, ReadLater
<1>2. CASE ReadParametersFromFile
  <2>1. recorded' = <<>> /\ done' = 0 /\ status' # "parameters" /\ request' = request
    BY <1>2 DEF ReadParametersFromFile, ParamsInv
  <2> QED BY <2>1 DEF ParamsInv
<1>3. CASE DrawConstrainedParameters
  BY <1>3, DrawKeepsParams
<1>4. CASE UNCHANGED vars
  BY <1>4 DEF vars, ParamsInv, Stays, DrawnBy, ReadLater
<1>5. CASE GenerateForPdf
  <2>1. done \in Nat /\ UNCHANGED <<request, params, recorded>>
    BY <1>5 DEF GenerateForPdf, parameterVars, ParamsInv
  <2>2. done' \in Nat /\ status' # "parameters" /\ status' # "constraints"
    BY <1>5, <2>1 DEF GenerateForPdf
  <2> QED BY <1>1, <2>1, <2>2
<1>6. CASE Shuffle \/ AppendDatasets \/ RefuseToAppend
  BY <1>1, <1>6 DEF Shuffle, AppendDatasets, RefuseToAppend, parameterVars, ParamsInv
<1>7. CASE PrepareDiscrete \/ GenerateDiscreteSample
  BY <1>1, <1>7 DEF PrepareDiscrete, GenerateDiscreteSample, parameterVars, ParamsInv
<1>8. CASE TakeDiscrete \/ MergeDatasets \/ StartMixing
  BY <1>1, <1>8 DEF TakeDiscrete, MergeDatasets, AfterMerge, StartMixing, EndOfDraws,
         parameterVars, ParamsInv
<1>9. CASE DrawPosition \/ MixMergeDatasets
  BY <1>1, <1>9 DEF DrawPosition, MixMergeDatasets, parameterVars, ParamsInv
<1> QED BY <1>2, <1>3, <1>4, <1>5, <1>6, <1>7, <1>8, <1>9 DEF Next

(* When events are generated, a drawn parameter has the value that         *)
(* set_constrained_parameters() tells of, unless two PDFs draw it or it is *)
(* read again from the file for one that comes later; for any parameters,  *)
(* constraints and file (ToyFactoryStd.cpp:353-444).                       *)
THEOREM ParametersAsRecorded == GenerationSpec => []ConstrainedAsRecorded
<1>1. Init => ParamsInv
  BY DEF Init, ParamsInv
<1>2. ParamsInv => ConstrainedAsRecorded
  <2> SUFFICES ASSUME ParamsInv, NEW p \in DOMAIN recorded,
                      Cardinality(DrawnBy(p)) = 1, ~ReadLater(p)
               PROVE  params[p] = recorded[p]
    BY DEF ConstrainedAsRecorded
  <2>1. recorded[p] \in DrawnBy(p)
    BY DEF ParamsInv, DrawnBy
  <2>2. IsFiniteSet(DrawnBy(p))
    <3>1. DOMAIN request.constraints = 1..Len(request.constraints)
      BY RequestTypes DEF ParamsInv
    <3>2. Len(request.constraints) \in Nat
      BY RequestTypes DEF ParamsInv
    <3>3. IsFiniteSet(1..Len(request.constraints))
      BY <3>2, FS_Interval
    <3> QED BY <3>1, <3>3, FS_Subset DEF DrawnBy
  <2>3. DrawnBy(p) = {recorded[p]}
    <3>1. PICK x : DrawnBy(p) = {x}
      BY <2>2, FS_Singleton
    <3> QED BY <2>1, <3>1
  <2> QED BY <2>3 DEF ParamsInv, Stays
<1> QED BY <1>1, <1>2, StepKeepsParams, GenerationSamples, PTL DEF GenerationSpec

-----------------------------------------------------------------------------
(* The shuffle.                                                            *)

(* A permutation of the rows, counted from 0.                              *)
IsOrder(order) ==
  /\ order \in Seq(Nat)
  /\ \A i \in 1..Len(order) : order[i] < Len(order)
  /\ \A i, k \in 1..Len(order) : order[i] = order[k] => i = k
  /\ \A x \in 0..Len(order) - 1 : \E i \in 1..Len(order) : order[i] = x

LEMMA PutAtIs ==
  ASSUME NEW order, IsOrder(order), NEW j \in 0..Len(order)
  PROVE  /\ PutAt(order, j) \in Seq(Nat)
         /\ Len(PutAt(order, j)) = Len(order) + 1
         /\ \A m \in 1..Len(order) :
              PutAt(order, j)[m] = IF m = j + 1 THEN Len(order) ELSE order[m]
         /\ PutAt(order, j)[Len(order) + 1] =
              IF j = Len(order) THEN Len(order) ELSE order[j + 1]
<1> DEFINE n == Len(order)
<1>1. order \in Seq(Nat) /\ n \in Nat /\ DOMAIN order = 1..n
  BY DEF IsOrder
<1>2. CASE j = n
  BY <1>1, <1>2 DEF PutAt
<1>3. CASE j # n
  <2> DEFINE e == [order EXCEPT ![j + 1] = n]
  <2>0. j + 1 \in 1..n
    <3>1. j \in 0..n /\ n \in Nat
      BY <1>1
    <3> HIDE DEF n
    <3> QED BY <1>3, <3>1
  <2>1. /\ e \in Seq(Nat) /\ Len(e) = n
        /\ \A m \in 1..n : e[m] = IF m = j + 1 THEN n ELSE order[m]
    <3>1. e \in Seq(Nat) /\ Len(e) = n
      BY <1>1, <2>0, ExceptSeq
    <3> QED BY <1>1, <2>0, <3>1
  <2>2. PutAt(order, j) = Append(e, order[j + 1])
    BY <1>3 DEF PutAt
  <2>3. order[j + 1] \in Nat
    BY <1>1, <2>0, ElementOfSeq
  <2> HIDE DEF e
  <2>4. /\ Append(e, order[j + 1]) \in Seq(Nat)
        /\ Len(Append(e, order[j + 1])) = n + 1
        /\ \A m \in 1..n : Append(e, order[j + 1])[m] = e[m]
        /\ Append(e, order[j + 1])[n + 1] = order[j + 1]
    <3> DEFINE x == order[j + 1]
    <3> HIDE DEF x, n
    <3>1. x \in Nat
      BY <2>3 DEF x
    <3>2. /\ Append(e, x) \in Seq(Nat)
          /\ Len(Append(e, x)) = n + 1
          /\ \A m \in 1..n : Append(e, x)[m] = e[m]
          /\ Append(e, x)[n + 1] = x
      BY <2>1, <3>1
    <3> QED BY <3>2 DEF x
  <2> QED BY <1>1, <1>3, <2>1, <2>2, <2>4
<1> QED BY <1>2, <1>3

LEMMA PutAtPermutes ==
  ASSUME NEW order, IsOrder(order), NEW j \in 0..Len(order)
  PROVE  IsOrder(PutAt(order, j))
<1> DEFINE n == Len(order)
           q == PutAt(order, j)
<1>1. /\ order \in Seq(Nat) /\ n \in Nat /\ DOMAIN order = 1..n
      /\ \A i \in 1..n : order[i] \in 0..n - 1
      /\ \A i, k \in 1..n : order[i] = order[k] => i = k
      /\ \A x \in 0..n - 1 : \E i \in 1..n : order[i] = x
  BY DEF IsOrder
<1>2. /\ q \in Seq(Nat) /\ Len(q) = n + 1
      /\ \A m \in 1..n : q[m] = IF m = j + 1 THEN n ELSE order[m]
      /\ q[n + 1] = IF j = n THEN n ELSE order[j + 1]
  BY PutAtIs
<1> HIDE DEF n, q
<1>3. j \in 0..n
  BY DEF n
<1>4. ASSUME NEW i \in 1..n + 1
      PROVE  q[i] \in 0..n
  <2>1. CASE i \in 1..n
    <3>1. order[i] \in 0..n - 1
      BY <1>1, <2>1
    <3>2. q[i] = n \/ q[i] = order[i]
      BY <1>2, <2>1
    <3> QED BY <1>1, <3>1, <3>2
  <2>2. CASE i = n + 1
    <3>1. CASE j = n
      BY <1>1, <1>2, <2>2, <3>1
    <3>2. CASE j # n
      <4>1. j + 1 \in 1..n
        BY <1>1, <1>3, <3>2
      <4>2. order[j + 1] \in 0..n - 1
        BY <1>1, <4>1
      <4> QED BY <1>1, <1>2, <2>2, <3>2, <4>2
    <3> QED BY <3>1, <3>2
  <2> QED BY <1>1, <2>1, <2>2
<1>5. ASSUME NEW i \in 1..n + 1, NEW k \in 1..n + 1, i < k
      PROVE  q[i] # q[k]
  <2>1. i \in 1..n /\ order[i] \in 0..n - 1 /\ q[i] = IF i = j + 1 THEN n ELSE order[i]
    BY <1>1, <1>2, <1>5
  <2>2. CASE k \in 1..n
    <3>1. order[k] \in 0..n - 1 /\ q[k] = IF k = j + 1 THEN n ELSE order[k]
      BY <1>1, <1>2, <2>2
    <3>2. order[i] # order[k]
      BY <1>1, <1>5, <2>1, <2>2
    <3> QED BY <1>1, <1>5, <2>1, <3>1, <3>2
  <2>3. CASE k = n + 1 /\ j = n
    <3>1. q[k] = n /\ i # j + 1
      BY <1>1, <1>2, <2>1, <2>3
    <3> QED BY <1>1, <2>1, <3>1
  <2>4. CASE k = n + 1 /\ j # n
    <3>1. j + 1 \in 1..n /\ q[k] = order[j + 1]
      BY <1>1, <1>2, <1>3, <2>4
    <3>2. order[j + 1] \in 0..n - 1
      BY <1>1, <3>1
    <3>3. i # j + 1 => order[i] # order[j + 1]
      BY <1>1, <2>1, <3>1
    <3> QED BY <1>1, <2>1, <3>1, <3>2, <3>3
  <2> QED BY <1>1, <2>2, <2>3, <2>4
<1>6. ASSUME NEW x \in 0..n
      PROVE  \E i \in 1..n + 1 : q[i] = x
  <2>1. CASE x = n
    <3>1. q[j + 1] = n /\ j + 1 \in 1..n + 1
      BY <1>1, <1>2, <1>3
    <3> QED BY <2>1, <3>1
  <2>2. CASE x # n
    <3>1. PICK i \in 1..n : order[i] = x
      BY <1>1, <2>2
    <3>2. CASE i = j + 1
      <4>1. q[n + 1] = x
        BY <1>1, <1>2, <3>1, <3>2
      <4> QED BY <1>1, <4>1
    <3>3. CASE i # j + 1
      BY <1>1, <1>2, <3>1, <3>3
    <3> QED BY <3>2, <3>3
  <2> QED BY <2>1, <2>2
<1>7. (n + 1) - 1 = n
  BY <1>1
<1>8. \A i, k \in 1..n + 1 : q[i] = q[k] => i = k
  BY <1>1, <1>5
<1>9. \A i \in 1..n + 1 : q[i] < n + 1
  BY <1>1, <1>4
<1>10. IsOrder(q)
  BY <1>2, <1>6, <1>7, <1>8, <1>9 DEF IsOrder
<1> QED BY <1>10 DEF q

(* The element that was put in tells where, and taking it back undoes it.  *)
LEMMA PutAtUndone ==
  ASSUME NEW order, IsOrder(order), NEW j \in 0..Len(order)
  PROVE  /\ PositionOf(PutAt(order, j), Len(order)) = j
         /\ TakeBack(PutAt(order, j), Len(order)) = order
<1> DEFINE n == Len(order)
           q == PutAt(order, j)
<1>1. /\ order \in Seq(Nat) /\ n \in Nat /\ DOMAIN order = 1..n
      /\ \A i \in 1..n : order[i] \in 0..n - 1
  BY DEF IsOrder
<1>2. /\ q \in Seq(Nat) /\ Len(q) = n + 1
      /\ \A m \in 1..n : q[m] = IF m = j + 1 THEN n ELSE order[m]
      /\ q[n + 1] = IF j = n THEN n ELSE order[j + 1]
  BY PutAtIs
<1>3. \A i, k \in 1..n + 1 : q[i] = q[k] => i = k
  <2>1. IsOrder(q)
    BY PutAtPermutes
  <2> QED BY <1>2, <2>1 DEF IsOrder
<1>4. j \in 0..n
  OBVIOUS
<1> HIDE DEF n, q
<1>5. PositionOf(q, n) = j
  <2>1. j \in 0..Len(q) - 1 /\ q[j + 1] = n
    BY <1>1, <1>2, <1>4
  <2>2. \A i \in 0..Len(q) - 1 : q[i + 1] = n => i = j
    BY <1>1, <1>2, <1>3, <1>4, <2>1
  <2> QED BY <2>1, <2>2 DEF PositionOf
<1>6. TakeBack(q, n) = order
  <2> DEFINE e == [q EXCEPT ![j + 1] = q[n + 1]]
  <2>1. TakeBack(q, n) = SubSeq(e, 1, n)
    BY <1>5 DEF TakeBack
  <2>2. /\ e \in Seq(Nat) /\ Len(e) = n + 1
        /\ \A m \in 1..n : e[m] = order[m]
    <3>1. q[n + 1] \in Nat /\ j + 1 \in 1..Len(q)
      BY <1>1, <1>2, <1>4
    <3>2. e \in Seq(Nat) /\ Len(e) = n + 1
      BY <1>2, <3>1, ExceptSeq
    <3>3. \A m \in 1..n : e[m] = IF m = j + 1 THEN q[n + 1] ELSE q[m]
      BY <1>1, <1>2
    <3> QED BY <1>1, <1>2, <1>4, <3>2, <3>3
  <2> HIDE DEF e
  <2>3. /\ SubSeq(e, 1, n) \in Seq(Nat) /\ Len(SubSeq(e, 1, n)) = n
        /\ \A m \in 1..n : SubSeq(e, 1, n)[m] = e[m]
    BY <1>1, <2>2
  <2>4. SubSeq(e, 1, n) = order
    <3>1. Len(order) = n
      BY DEF n
    <3> QED BY <1>1, <2>2, <2>3, <3>1, SeqEqual
  <2> QED BY <2>1, <2>4
<1> QED BY <1>5, <1>6 DEF n, q

(* The orders of a shuffle so far, f, and its choices.                     *)
Shuffled(f, order, chosen) ==
  /\ IsOrder(order) /\ Len(order) > 0
  /\ chosen \in Seq(Nat) /\ Len(chosen) = Len(order) - 1
  /\ DOMAIN f = 1..Len(order) /\ f = [i \in DOMAIN f |-> f[i]]
  /\ f[Len(order)] = order
  /\ \A i \in 1..Len(order) : IsOrder(f[i]) /\ Len(f[i]) = i
  /\ \A i \in 1..Len(order) - 1 : chosen[i] \in 0..i /\ f[i + 1] = PutAt(f[i], chosen[i])

LEMMA ShuffleStarts ==
  \E f : Shuffled(f, <<0>>, <<>>)
<1> DEFINE f == [i \in 1..1 |-> <<0>>]
<1>1. IsOrder(<<0>>)
  BY DEF IsOrder
<1>2. Shuffled(f, <<0>>, <<>>)
  BY <1>1 DEF Shuffled
<1> QED BY <1>2

LEMMA ShuffleGoesOn ==
  ASSUME NEW f, NEW order, NEW chosen, Shuffled(f, order, chosen), NEW j \in 0..Len(order)
  PROVE  \E g : Shuffled(g, PutAt(order, j), Append(chosen, j))
<1> DEFINE n == Len(order)
           q == PutAt(order, j)
           g == [i \in 1..n + 1 |-> IF i = n + 1 THEN q ELSE f[i]]
           c == Append(chosen, j)
<1>1. /\ n \in Nat /\ n > 0 /\ chosen \in Seq(Nat) /\ Len(chosen) = n - 1
      /\ IsOrder(order)
      /\ f[n] = order
      /\ \A i \in 1..n : IsOrder(f[i]) /\ Len(f[i]) = i
      /\ \A i \in 1..n - 1 : chosen[i] \in 0..i /\ f[i + 1] = PutAt(f[i], chosen[i])
  BY DEF Shuffled, IsOrder
<1>2. IsOrder(q) /\ Len(q) = n + 1
  BY <1>1, PutAtIs, PutAtPermutes
<1>3. /\ c \in Seq(Nat) /\ Len(c) = n /\ c[n] = j
      /\ \A i \in 1..n - 1 : c[i] = chosen[i]
  BY <1>1
<1> HIDE DEF c
<1>4. \A i \in 1..n + 1 : IsOrder(g[i]) /\ Len(g[i]) = i
  BY <1>1, <1>2
<1>5. ASSUME NEW i \in 1..n
      PROVE  c[i] \in 0..i /\ g[i + 1] = PutAt(g[i], c[i])
  <2>1. CASE i = n
    <3>1. g[i + 1] = q /\ g[i] = order /\ c[i] = j
      BY <1>1, <1>3, <2>1
    <3> QED BY <2>1, <3>1
  <2>2. CASE i # n
    <3>1. i \in 1..n - 1 /\ g[i + 1] = f[i + 1] /\ g[i] = f[i]
      BY <1>1, <2>2
    <3> QED BY <1>1, <1>3, <3>1
  <2> QED BY <2>1, <2>2
<1>6. g[n + 1] = q /\ DOMAIN g = 1..n + 1 /\ g = [i \in DOMAIN g |-> g[i]]
  BY <1>1
<1>7. (n + 1) - 1 = n /\ n + 1 > 0
  BY <1>1
<1> SUFFICES Shuffled(g, q, c)
  BY DEF c
<1> HIDE DEF g, q
<1> QED BY <1>2, <1>3, <1>4, <1>5, <1>6, <1>7 DEF Shuffled

(* Taking back one element after the other gives the orders there were.    *)
LEMMA ShuffleIsUndone ==
  ASSUME NEW f, NEW order, NEW chosen, Shuffled(f, order, chosen)
  PROVE  ChoicesOf(order) = chosen
<1> DEFINE n == Len(order)
           Undo(u) == [i \in 1..n |-> IF i = n THEN order ELSE TakeBack(u[i + 1], i)]
           undo == CHOOSE u : u = Undo(u)
<1>1. /\ n \in Nat /\ n > 0 /\ chosen \in Seq(Nat) /\ Len(chosen) = n - 1
      /\ DOMAIN f = 1..n /\ f = [i \in DOMAIN f |-> f[i]]
      /\ f[n] = order
      /\ \A i \in 1..n : IsOrder(f[i]) /\ Len(f[i]) = i
      /\ \A i \in 1..n - 1 : chosen[i] \in 0..i /\ f[i + 1] = PutAt(f[i], chosen[i])
  BY DEF Shuffled, IsOrder
<1>2. ASSUME NEW i \in 1..n - 1
      PROVE  PositionOf(f[i + 1], i) = chosen[i] /\ TakeBack(f[i + 1], i) = f[i]
  <2>1. i \in 1..n /\ IsOrder(f[i]) /\ Len(f[i]) = i /\ chosen[i] \in 0..Len(f[i])
    BY <1>1
  <2> QED BY <1>1, <2>1, PutAtUndone
<1> HIDE DEF n
<1>3. f = Undo(f)
  <2>1. \A i \in 1..n : f[i] = IF i = n THEN order ELSE TakeBack(f[i + 1], i)
    BY <1>1, <1>2
  <2> QED BY <1>1, <2>1
<1>4. undo = Undo(undo)
  BY <1>3
<1>5. \A i \in 1..n : undo[i] = IF i = n THEN order ELSE TakeBack(undo[i + 1], i)
  BY <1>4
<1> HIDE DEF undo
<1>6. \A m \in Nat : m < n => undo[n - m] = f[n - m]
  <2> DEFINE T == {m \in Nat : m < n => undo[n - m] = f[n - m]}
  <2>1. 0 \in T
    BY <1>1, <1>5
  <2>2. ASSUME NEW m \in Nat, m \in T
        PROVE  m + 1 \in T
    <3>1. SUFFICES ASSUME m + 1 < n PROVE undo[n - (m + 1)] = f[n - (m + 1)]
      OBVIOUS
    <3> DEFINE i == n - (m + 1)
    <3>2. i \in 1..n - 1 /\ i + 1 = n - m /\ i # n
      BY <1>1, <3>1
    <3>3. undo[i + 1] = f[i + 1]
      BY <1>1, <2>2, <3>1, <3>2
    <3>4. undo[i] = TakeBack(undo[i + 1], i)
      BY <1>1, <1>5, <3>2
    <3> QED BY <1>2, <3>2, <3>3, <3>4
  <2> HIDE DEF T
  <2>3. \A m \in Nat : m \in T
    BY <2>1, <2>2, Facts!NatSetInduction
  <2> QED BY <2>3 DEF T
<1>7. ASSUME NEW i \in 1..n - 1
      PROVE  PositionOf(undo[i + 1], i) = chosen[i]
  <2> DEFINE m == n - (i + 1)
  <2>1. m \in Nat /\ m < n /\ n - m = i + 1
    BY <1>1
  <2>2. undo[i + 1] = f[i + 1]
    BY <1>6, <2>1
  <2> QED BY <1>2, <2>2
<1>8. ChoicesOf(order) = [i \in 1..n - 1 |-> PositionOf(undo[i + 1], i)]
  BY DEF ChoicesOf, undo, n
<1>9. chosen = [i \in 1..n - 1 |-> chosen[i]]
  BY <1>1
<1> QED BY <1>7, <1>8, <1>9

-----------------------------------------------------------------------------
(* The events of the PDF.                                                  *)

(* The rows are the events after the given one, n of them, once each.      *)
AllEvents(rows, from, n) ==
  /\ rows \in Seq([PdfColumns -> Cell]) /\ Len(rows) = n
  /\ \A i \in 1..n : \E e \in from + 1..from + n : rows[i] = EventRow(e)
  /\ \A e \in from + 1..from + n : \E i \in 1..n : rows[i] = EventRow(e)
  /\ \A i, k \in 1..n : rows[i] = rows[k] => i = k

(* The size of the first k samples.                                        *)
Total(parts, k) == Facts!Fold(0, 0, SubSeq(parts, 1, k))

LEMMA TotalSteps ==
  ASSUME NEW parts \in Seq(Nat)
  PROVE  /\ Total(parts, 0) = 0
         /\ \A k \in 0..Len(parts) : Total(parts, k) \in Nat
         /\ \A k \in 0..Len(parts) - 1 : Total(parts, k + 1) = Total(parts, k) + parts[k + 1]
         /\ Total(parts, Len(parts)) = Facts!Fold(0, 0, parts)
<1>1. SubSeq(parts, 1, 0) = <<>> /\ SubSeq(parts, 1, Len(parts)) = parts
  OBVIOUS
<1>2. Total(parts, 0) = 0
  BY <1>1, Facts!FoldEmpty DEF Total
<1>3. \A s \in Seq(Nat) : Facts!Fold(0, 0, s) \in Nat
  <2>1. 0 \in Nat /\ \A before \in Nat, x \in Nat : Add(0, before, x) \in Nat
    BY DEF Add
  <2> QED BY <2>1, Facts!FoldType
<1>4. \A k \in 0..Len(parts) : Total(parts, k) \in Nat
  <2>1. \A k \in 0..Len(parts) : SubSeq(parts, 1, k) \in Seq(Nat)
    OBVIOUS
  <2> QED BY <1>3, <2>1 DEF Total
<1>5. ASSUME NEW k \in 0..Len(parts) - 1
      PROVE  Total(parts, k + 1) = Total(parts, k) + parts[k + 1]
  <2> DEFINE s == SubSeq(parts, 1, k)
  <2>1. s \in Seq(Nat) /\ parts[k + 1] \in Nat
    OBVIOUS
  <2>2. SubSeq(parts, 1, k + 1) = Append(s, parts[k + 1])
    OBVIOUS
  <2> HIDE DEF s
  <2>3. Facts!Fold(0, 0, Append(s, parts[k + 1])) = Add(0, Facts!Fold(0, 0, s), parts[k + 1])
    BY <2>1, Facts!FoldAppend
  <2> QED BY <2>2, <2>3 DEF Total, Add, s
<1> QED BY <1>1, <1>2, <1>4, <1>5 DEF Total

LEMMA EventsAreFolded == EventsAskedFor = Facts!Fold(0, 0, request.parts)
BY DEF EventsAskedFor, Facts!Fold, Add, FoldLeft, Facts!FoldLeft,
       MapThenFoldSet, Facts!MapThenFoldSet, Max, Facts!Max

LEMMA EventRowIs ==
  ASSUME NEW e \in Nat
  PROVE  /\ EventRow(e) \in [PdfColumns -> Cell]
         /\ \A c \in PdfColumns : EventRow(e)[c] = [by |-> "pdf", of |-> e]
         /\ "x" \in PdfColumns /\ EventRow(e)["x"].of = e
         /\ \A d \in Nat : EventRow(e) = EventRow(d) => e = d
<1>1. \A d \in Nat : /\ EventRow(d) = [c \in PdfColumns |-> [by |-> "pdf", of |-> d]]
                     /\ [by |-> "pdf", of |-> d] \in Cell
  BY DEF EventRow, Cell
<1>2. "x" \in PdfColumns
  BY DEF PdfColumns
<1>3. ASSUME NEW d \in Nat
      PROVE  EventRow(d)["x"].of = d
  <2>1. EventRow(d)["x"] = [by |-> "pdf", of |-> d]
    BY <1>1, <1>2, Zenon
  <2> QED BY <2>1
<1>4. EventRow(e) \in [PdfColumns -> Cell]
  BY <1>1
<1>5. \A c \in PdfColumns : EventRow(e)[c] = [by |-> "pdf", of |-> e]
  BY <1>1
<1>6. \A d \in Nat : EventRow(e) = EventRow(d) => e = d
  BY <1>3
<1> QED BY <1>2, <1>3, <1>4, <1>5, <1>6

LEMMA NewEvents ==
  ASSUME NEW from \in Nat, NEW count \in Nat
  PROVE  AllEvents(EventRows(from, count), from, count)
<1> DEFINE rows == EventRows(from, count)
<1>1. rows = [i \in 1..count |-> EventRow(from + i)]
  BY DEF EventRows
<1>2. ASSUME NEW i \in 1..count
      PROVE  EventRow(from + i) \in [PdfColumns -> Cell]
  <2>1. from + i \in Nat
    OBVIOUS
  <2> QED BY <2>1, EventRowIs
<1>3. rows \in Seq([PdfColumns -> Cell]) /\ Len(rows) = count
  <2>1. rows \in [1..count -> [PdfColumns -> Cell]]
    BY <1>1, <1>2
  <2> HIDE DEF rows
  <2>2. rows \in Seq([PdfColumns -> Cell])
    BY <2>1
  <2> QED BY <2>1, <2>2, LenProperties
<1>4. \A i \in 1..count : rows[i] = EventRow(from + i)
  BY <1>1
<1> HIDE DEF rows
<1>5. \A e \in from + 1..from + count : e - from \in 1..count /\ from + (e - from) = e
  OBVIOUS
<1>6. \A e \in from + 1..from + count : \E i \in 1..count : rows[i] = EventRow(e)
  BY <1>4, <1>5
<1>7. \A i, k \in 1..count : rows[i] = rows[k] => i = k
  <2>1. \A i \in 1..count : from + i \in Nat
    OBVIOUS
  <2>2. ASSUME NEW i \in 1..count, NEW k \in 1..count, rows[i] = rows[k]
        PROVE  from + i = from + k
    <3>1. EventRow(from + i) = EventRow(from + k)
      BY <1>4, <2>2
    <3> QED BY <2>1, <3>1, EventRowIs
  <2> QED BY <2>2
<1>8. \A i \in 1..count : from + i \in from + 1..from + count
  OBVIOUS
<1>9. AllEvents(rows, from, count)
  BY <1>3, <1>4, <1>6, <1>7, <1>8 DEF AllEvents
<1> QED BY <1>9 DEF rows

(* The rows of both samples in any order are the events of both.           *)
LEMMA AppendedEvents ==
  ASSUME NEW m \in Nat, NEW k \in Nat, AllEvents(data, 0, m), AllEvents(part, m, k),
         NEW order, IsOrder(order), Len(order) = m + k
  PROVE  AllEvents([i \in 1..NumRows |-> RowAt(order[i])], 0, m + k)
<1> DEFINE n == m + k
           rows == [i \in 1..n |-> RowAt(order[i])]
<1>1. /\ n \in Nat /\ NumRows = n
      /\ Len(data) = m /\ Len(part) = k
  BY DEF NumRows, AllEvents
<1>2. /\ \A i \in 1..n : order[i] \in 0..n - 1
      /\ \A i, l \in 1..n : order[i] = order[l] => i = l
      /\ \A x \in 0..n - 1 : \E i \in 1..n : order[i] = x
  BY <1>1 DEF IsOrder
<1>3. ASSUME NEW x \in 0..n - 1
      PROVE  \/ x \in 0..m - 1 /\ RowAt(x) = data[x + 1] /\ x + 1 \in 1..m
             \/ x - m \in 0..k - 1 /\ RowAt(x) = part[x - m + 1] /\ x - m + 1 \in 1..k
  BY <1>1 DEF RowAt
<1>4. ASSUME NEW x \in 0..n - 1
      PROVE  /\ \E e \in 1..n : RowAt(x) = EventRow(e) /\ (e <= m <=> x < m)
             /\ RowAt(x) \in [PdfColumns -> Cell]
  <2>1. CASE x \in 0..m - 1 /\ RowAt(x) = data[x + 1] /\ x + 1 \in 1..m
    <3>1. PICK e \in 0 + 1..0 + m : data[x + 1] = EventRow(e)
      BY <2>1 DEF AllEvents
    <3>2. e \in 1..n /\ e <= m /\ x < m /\ e \in Nat
      BY <2>1
    <3>3. EventRow(e) \in [PdfColumns -> Cell]
      BY <3>2, EventRowIs
    <3> QED BY <2>1, <3>1, <3>2, <3>3
  <2>2. CASE x - m \in 0..k - 1 /\ RowAt(x) = part[x - m + 1] /\ x - m + 1 \in 1..k
    <3>1. PICK e \in m + 1..m + k : part[x - m + 1] = EventRow(e)
      BY <2>2 DEF AllEvents
    <3>2. e \in 1..n /\ ~(e <= m) /\ ~(x < m) /\ e \in Nat
      BY <2>2
    <3>3. EventRow(e) \in [PdfColumns -> Cell]
      BY <3>2, EventRowIs
    <3> QED BY <2>2, <3>1, <3>2, <3>3
  <2> QED BY <1>3, <2>1, <2>2
<1>5. ASSUME NEW e \in 1..n
      PROVE  \E x \in 0..n - 1 : RowAt(x) = EventRow(e)
  <2>1. CASE e <= m
    <3>1. e \in 0 + 1..0 + m
      BY <2>1
    <3>2. PICK i \in 1..m : data[i] = EventRow(e)
      BY <3>1 DEF AllEvents
    <3>3. i - 1 \in 0..n - 1 /\ i - 1 < m /\ (i - 1) + 1 = i
      OBVIOUS
    <3>4. RowAt(i - 1) = data[i]
      BY <1>1, <3>3 DEF RowAt
    <3> QED BY <3>2, <3>3, <3>4
  <2>2. CASE ~(e <= m)
    <3>1. e \in m + 1..m + k
      BY <2>2
    <3>2. PICK i \in 1..k : part[i] = EventRow(e)
      BY <3>1 DEF AllEvents
    <3>3. m + i - 1 \in 0..n - 1 /\ ~(m + i - 1 < m) /\ (m + i - 1) - m + 1 = i
      OBVIOUS
    <3>4. RowAt(m + i - 1) = part[i]
      BY <1>1, <3>3 DEF RowAt
    <3> QED BY <3>2, <3>3, <3>4
  <2> QED BY <2>1, <2>2
<1>6. ASSUME NEW x \in 0..n - 1, NEW y \in 0..n - 1, RowAt(x) = RowAt(y)
      PROVE  x = y
  <2>1. PICK e \in 1..n : RowAt(x) = EventRow(e) /\ (e <= m <=> x < m)
    BY <1>4
  <2>2. PICK d \in 1..n : RowAt(y) = EventRow(d) /\ (d <= m <=> y < m)
    BY <1>4
  <2>3. e \in Nat /\ d \in Nat
    BY <1>1
  <2>4. e = d
    BY <1>6, <2>1, <2>2, <2>3, EventRowIs
  <2>5. x < m <=> y < m
    BY <2>1, <2>2, <2>4
  <2>6. CASE x < m
    <3>1. x + 1 \in 1..m /\ y + 1 \in 1..m /\ data[x + 1] = data[y + 1]
      BY <1>1, <1>6, <2>5, <2>6 DEF RowAt
    <3>2. x + 1 = y + 1
      BY <3>1 DEF AllEvents
    <3> QED BY <3>2
  <2>7. CASE ~(x < m)
    <3>1. /\ x - m + 1 \in 1..k /\ y - m + 1 \in 1..k
          /\ part[x - m + 1] = part[y - m + 1]
      BY <1>1, <1>6, <2>5, <2>7 DEF RowAt
    <3>2. x - m + 1 = y - m + 1
      BY <3>1 DEF AllEvents
    <3> QED BY <3>2
  <2> QED BY <2>6, <2>7
<1> HIDE DEF n
<1>7. rows \in Seq([PdfColumns -> Cell]) /\ Len(rows) = n
  <2>1. \A i \in 1..n : RowAt(order[i]) \in [PdfColumns -> Cell]
    BY <1>2, <1>4
  <2> QED BY <1>1, <2>1, IsASeq, LenProperties
<1>8. \A i \in 1..n : rows[i] = RowAt(order[i])
  OBVIOUS
<1> HIDE DEF rows
<1>9. \A i \in 1..n : \E e \in 1..n : rows[i] = EventRow(e)
  BY <1>2, <1>4, <1>8
<1>10. ASSUME NEW e \in 1..n
       PROVE  \E i \in 1..n : rows[i] = EventRow(e)
  <2>1. PICK x \in 0..n - 1 : RowAt(x) = EventRow(e)
    BY <1>5
  <2>2. PICK i \in 1..n : order[i] = x
    BY <1>2
  <2> QED BY <1>8, <2>1, <2>2
<1>11. ASSUME NEW i \in 1..n, NEW l \in 1..n, rows[i] = rows[l]
       PROVE  i = l
  <2>1. order[i] \in 0..n - 1 /\ order[l] \in 0..n - 1 /\ RowAt(order[i]) = RowAt(order[l])
    BY <1>2, <1>8, <1>11
  <2> QED BY <1>2, <1>6, <2>1
<1>12. 0 + 1 = 1 /\ 0 + n = n
  BY <1>1
<1>13. AllEvents(rows, 0, n)
  BY <1>7, <1>9, <1>10, <1>11, <1>12 DEF AllEvents
<1> QED BY <1>1, <1>13 DEF rows, n

-----------------------------------------------------------------------------
(* Mixing the samples.                                                     *)

Rank(P, i) == Cardinality({p \in P : p < i})

(* The ranks of the positions are 0, 1, ..., in their order.               *)
LEMMA Ranks ==
  ASSUME NEW n \in Nat, NEW P \in SUBSET (0..n - 1)
  PROVE  /\ IsFiniteSet(P) /\ Cardinality(P) \in Nat
         /\ \A i \in P : Rank(P, i) \in 0..Cardinality(P) - 1
         /\ \A i, k \in P : i < k => Rank(P, i) < Rank(P, k)
         /\ \A r \in 0..Cardinality(P) - 1 : \E i \in P : Rank(P, i) = r
<1> DEFINE card == Cardinality(P)
<1>1. IsFiniteSet(P) /\ card \in Nat
  <2>1. IsFiniteSet(0..n - 1)
    BY FS_Interval
  <2>2. IsFiniteSet(P)
    BY <2>1, FS_Subset
  <2> QED BY <2>2, FS_CardinalityType
<1>2. ASSUME NEW T \in SUBSET P, NEW U \in SUBSET T, NEW x \in T, x \notin U
      PROVE  Cardinality(U) \in Nat /\ Cardinality(U) < Cardinality(T)
  <2>1. IsFiniteSet(T)
    BY <1>1, FS_Subset
  <2>2. IsFiniteSet(U) /\ Cardinality(U) <= Cardinality(T) /\ Cardinality(U) # Cardinality(T)
    BY <1>2, <2>1, FS_Subset
  <2>3. Cardinality(U) \in Nat /\ Cardinality(T) \in Nat
    BY <2>1, <2>2, FS_CardinalityType
  <2> QED BY <2>2, <2>3
<1>3. ASSUME NEW i \in P
      PROVE  Rank(P, i) \in 0..card - 1
  <2> DEFINE U == {p \in P : p < i}
  <2>1. U \in SUBSET P /\ P \in SUBSET P /\ i \notin U
    OBVIOUS
  <2> HIDE DEF U
  <2>2. Cardinality(U) \in Nat /\ Cardinality(U) < card
    BY <1>2, <2>1
  <2> QED BY <1>1, <2>2 DEF Rank, U
<1>4. ASSUME NEW i \in P, NEW k \in P, i < k
      PROVE  Rank(P, i) < Rank(P, k)
  <2> DEFINE U == {p \in P : p < i}
             T == {p \in P : p < k}
  <2>1. T \in SUBSET P /\ U \in SUBSET T /\ i \in T /\ i \notin U
    <3>1. \A p \in P : p \in Int
      OBVIOUS
    <3>2. \A p \in P : p < i => p < k
      BY <1>4, <3>1
    <3>3. ~(i < i)
      BY <3>1
    <3> QED BY <1>4, <3>2, <3>3
  <2> HIDE DEF U, T
  <2>2. Cardinality(U) < Cardinality(T)
    BY <1>2, <2>1
  <2> QED BY <2>2 DEF Rank, U, T
<1>5. ASSUME NEW r \in 0..card - 1
      PROVE  \E i \in P : Rank(P, i) = r
  <2> DEFINE f == [i \in P |-> Rank(P, i)]
  <2>1. f \in [P -> 0..card - 1]
    BY <1>3
  <2>2. \A i, k \in P : f[i] = f[k] => i = k
    <3>1. SUFFICES ASSUME NEW i \in P, NEW k \in P, i # k PROVE f[i] # f[k]
      OBVIOUS
    <3>2. CASE i < k
      BY <1>1, <1>3, <1>4, <3>2
    <3>3. CASE k < i
      BY <1>1, <1>3, <1>4, <3>3
    <3>4. i \in Int /\ k \in Int
      OBVIOUS
    <3> QED BY <3>1, <3>2, <3>3, <3>4
  <2>3. f \in Injection(P, 0..card - 1)
    BY <2>1, <2>2, Fun_IsInj
  <2>4. IsFiniteSet(0..card - 1) /\ Cardinality(0..card - 1) = card
    <3>1. 0 \in Int /\ card - 1 \in Int
      BY <1>1
    <3> HIDE DEF card
    <3>2. IsFiniteSet(0..card - 1) /\ Cardinality(0..card - 1) = IF 0 > card - 1 THEN 0 ELSE (card - 1) - 0 + 1
      BY <3>1, FS_Interval
    <3> QED BY <1>1, <3>2
  <2>5. f \in Surjection(P, 0..card - 1)
    BY <1>1, <2>3, <2>4, FS_Injection
  <2>6. \A t \in 0..card - 1 : \E i \in P : f[i] = t
    BY <2>5 DEF Surjection
  <2> QED BY <2>6
<1> QED BY <1>1, <1>3, <1>4, <1>5

AddMixedTo(p, rows, i) == AddMixed(rows, i)

Mixing == INSTANCE FoldFacts WITH op <- AddMixedTo

Mixed(k) == Mixing!Fold(0, <<>>, [i \in 1..k |-> i - 1])

(* After k rows: a position has the next values of the discrete sample,    *)
(* every other row is the event of the PDF.                                *)
MixedSoFar(k) ==
  /\ Mixed(k) \in Seq([PdfColumns -> Cell])
  /\ Len(Mixed(k)) = k
  /\ \A i \in 1..k :
       IF i - 1 \in positions
       THEN \A c \in PdfColumns \cap DiscreteVars :
              Mixed(k)[i][c] = sample[Rank(positions, i - 1) + 1][c]
       ELSE Mixed(k)[i] = data[i]

LEMMA RowsMixed ==
  ASSUME data \in Seq([PdfColumns -> Cell]), sample \in Seq([DiscreteVars -> Cell]),
         positions \in SUBSET (0..Len(data) - 1), Cardinality(positions) = Len(sample)
  PROVE  \A k \in 0..Len(data) : MixedSoFar(k)
<1> DEFINE T == {k \in Nat : k <= Len(data) => MixedSoFar(k)}
<1>1. 0 \in T
  <2>1. [i \in 1..0 |-> i - 1] = <<>>
    OBVIOUS
  <2>2. Mixed(0) = <<>>
    BY <2>1, Mixing!FoldEmpty DEF Mixed
  <2>3. 1..0 = {} /\ <<>> \in Seq([PdfColumns -> Cell]) /\ Len(<<>>) = 0
    OBVIOUS
  <2> QED BY <2>2, <2>3 DEF MixedSoFar
<1>2. ASSUME NEW k \in Nat, k \in T
      PROVE  k + 1 \in T
  <2>1. SUFFICES ASSUME k + 1 <= Len(data) PROVE MixedSoFar(k + 1)
    OBVIOUS
  <2> DEFINE rows == Mixed(k)
             before == IF rows = <<>> THEN [c \in PdfColumns |-> NoCell] ELSE Last(rows)
             row == IF k \in positions
                    THEN [c \in PdfColumns |->
                            IF c \in DiscreteVars THEN SlaveAt(k)[c] ELSE before[c]]
                    ELSE data[k + 1]
  <2>2. MixedSoFar(k)
    BY <1>2, <2>1
  <2>3. Mixed(k + 1) = Append(rows, row)
    <3> DEFINE s == [i \in 1..k |-> i - 1]
    <3>1. s \in Seq(Int) /\ [i \in 1..k + 1 |-> i - 1] = Append(s, k)
      OBVIOUS
    <3> HIDE DEF s
    <3>2. Mixing!Fold(0, <<>>, Append(s, k)) = AddMixedTo(0, Mixing!Fold(0, <<>>, s), k)
      BY <3>1, Mixing!FoldAppend
    <3>3. Mixed(k + 1) = AddMixed(rows, k)
      BY <3>1, <3>2 DEF Mixed, s, AddMixedTo
    <3> QED BY <3>3 DEF AddMixed
  <2>4. rows \in Seq([PdfColumns -> Cell]) /\ Len(rows) = k
    BY <2>2 DEF MixedSoFar
  <2>5. ASSUME k \in positions
        PROVE  /\ SlaveAt(k) = sample[Rank(positions, k) + 1]
               /\ SlaveAt(k) \in [DiscreteVars -> Cell]
    <3>1. Rank(positions, k) \in 0..Cardinality(positions) - 1
      <4>1. Len(data) \in Nat
        OBVIOUS
      <4> QED BY <2>5, <4>1, Ranks
    <3>2. Rank(positions, k) + 1 \in 1..Len(sample)
      BY <3>1
    <3>3. sample[Rank(positions, k) + 1] \in [DiscreteVars -> Cell]
      BY <3>2, ElementOfSeq
    <3>4. SlaveAt(k) = sample[Rank(positions, k) + 1]
      BY DEF SlaveAt, Rank
    <3> QED BY <3>3, <3>4
  <2>6. before \in [PdfColumns -> Cell]
    <3>1. CASE rows = <<>>
      <4>1. NoCell \in Cell
        BY DEF NoCell, Cell
      <4> QED BY <3>1, <4>1
    <3>2. CASE rows # <<>>
      <4>1. Last(rows) = rows[k] /\ k \in 1..k
        BY <2>4, <3>2 DEF Last
      <4> HIDE DEF rows
      <4>2. rows[k] \in [PdfColumns -> Cell]
        BY <2>4, <4>1, ElementOfSeq
      <4> QED BY <3>2, <4>1, <4>2
    <3> QED BY <3>1, <3>2
  <2>7. row \in [PdfColumns -> Cell]
    <3>1. CASE k \in positions
      <4> HIDE DEF before
      <4>1. \A c \in PdfColumns : (IF c \in DiscreteVars THEN SlaveAt(k)[c] ELSE before[c]) \in Cell
        BY <2>5, <2>6, <3>1
      <4> QED BY <3>1, <4>1
    <3>2. CASE k \notin positions
      <4>1. k + 1 \in 1..Len(data)
        BY <2>1
      <4>2. data[k + 1] \in [PdfColumns -> Cell]
        BY <4>1, ElementOfSeq
      <4> QED BY <3>2, <4>2
    <3> QED BY <3>1, <3>2
  <2>8. /\ k \in positions => \A c \in PdfColumns \cap DiscreteVars :
                                row[c] = sample[Rank(positions, k) + 1][c]
        /\ k \notin positions => row = data[k + 1]
    <3> HIDE DEF before
    <3> QED BY <2>5
  <2> HIDE DEF rows, row
  <2>9. /\ Append(rows, row) \in Seq([PdfColumns -> Cell])
        /\ Len(Append(rows, row)) = k + 1
        /\ Append(rows, row)[k + 1] = row
        /\ \A i \in 1..k : Append(rows, row)[i] = rows[i]
    BY <2>4, <2>7
  <2>10. \A i \in 1..k :
           IF i - 1 \in positions
           THEN \A c \in PdfColumns \cap DiscreteVars :
                  rows[i][c] = sample[Rank(positions, i - 1) + 1][c]
           ELSE rows[i] = data[i]
    BY <2>2 DEF MixedSoFar, rows
  <2>11. ASSUME NEW i \in 1..k + 1
         PROVE  IF i - 1 \in positions
                THEN \A c \in PdfColumns \cap DiscreteVars :
                       Mixed(k + 1)[i][c] = sample[Rank(positions, i - 1) + 1][c]
                ELSE Mixed(k + 1)[i] = data[i]
    <3>1. CASE i \in 1..k
      <4>1. Mixed(k + 1)[i] = rows[i]
        BY <2>3, <2>9, <3>1
      <4> QED BY <2>10, <3>1, <4>1
    <3>2. CASE i = k + 1
      <4>1. Mixed(k + 1)[i] = row /\ i - 1 = k
        BY <2>3, <2>9, <3>2
      <4> QED BY <2>8, <3>2, <4>1
    <3> QED BY <3>1, <3>2
  <2> QED BY <2>3, <2>9, <2>11 DEF MixedSoFar
<1> HIDE DEF T
<1>3. \A k \in Nat : k \in T
  BY <1>1, <1>2, Mixing!NatSetInduction
<1> QED BY <1>3 DEF T

-----------------------------------------------------------------------------
(* The order of a shuffle came about by its choices.                       *)

OrderInv ==
  /\ (status = "shuffling" /\ newOrder = <<>>) => ~(NumRows > 0)
  /\ newOrder # <<>> => \E f : Shuffled(f, newOrder, choices)

LEMMA ShuffleKeepsOrder == OrderInv /\ Shuffle => OrderInv'
<1> SUFFICES ASSUME OrderInv, Shuffle PROVE OrderInv'
  OBVIOUS
<1>1. PICK j \in 0..Len(newOrder) :
         newOrder' = PutAt(newOrder, j) /\ choices' = Append(choices, j)
  BY DEF Shuffle
<1>2. newOrder # <<>>
  <2>1. SUFFICES ASSUME newOrder = <<>> PROVE FALSE
    OBVIOUS
  <2>2. 0 < NumRows
    BY <2>1 DEF Shuffle
  <2>3. ~(NumRows > 0)
    BY <2>1 DEF OrderInv, Shuffle
  <2> QED BY <2>2, <2>3
<1>3. PICK f : Shuffled(f, newOrder, choices)
  BY <1>2 DEF OrderInv
<1>4. \E g : Shuffled(g, newOrder', choices')
  BY <1>1, <1>3, ShuffleGoesOn
<1>5. newOrder' # <<>>
  <2>1. Len(newOrder') = Len(newOrder) + 1 /\ Len(newOrder) \in Nat
    <3>1. IsOrder(newOrder) /\ Len(newOrder) \in Nat
      BY <1>3 DEF Shuffled, IsOrder
    <3> QED BY <1>1, <3>1, PutAtIs
  <2>2. Len(<<>>) = 0
    OBVIOUS
  <2> QED BY <2>1, <2>2
<1> QED BY <1>4, <1>5 DEF OrderInv

LEMMA StepKeepsOrder == OrderInv /\ [Next]_vars => OrderInv'
<1> SUFFICES ASSUME OrderInv, [Next]_vars PROVE OrderInv'
  OBVIOUS
<1>1. CASE UNCHANGED <<newOrder, choices>> /\ status' # "shuffling"
  BY <1>1 DEF OrderInv
<1>2. CASE newOrder' = <<>> /\ status' # "shuffling"
  BY <1>2 DEF OrderInv
<1>3. CASE GenerateForPdf
  <2>1. CASE UNCHANGED <<newOrder, choices>> /\ status' # "shuffling"
    BY <1>1, <2>1
  <2>2. CASE /\ choices' = <<>> /\ status' = "shuffling" /\ UNCHANGED data
             /\ newOrder' = IF Len(data) + Len(part') > 0 THEN <<0>> ELSE <<>>
    <3>1. CASE newOrder' = <<0>>
      <4>1. <<0>> # <<>>
        OBVIOUS
      <4> QED BY <2>2, <3>1, <4>1, ShuffleStarts DEF OrderInv
    <3>2. CASE newOrder' = <<>>
      <4>1. <<0>> # <<>>
        OBVIOUS
      <4>2. ~(NumRows > 0)'
        BY <2>2, <3>2, <4>1 DEF NumRows
      <4> QED BY <3>2, <4>2 DEF OrderInv
    <3> QED BY <2>2, <3>1, <3>2
  <2> QED BY <1>3, <2>1, <2>2 DEF GenerateForPdf
<1>4. CASE Shuffle
  BY <1>4, ShuffleKeepsOrder
<1>5. CASE AppendDatasets
  BY <1>2, <1>5 DEF AppendDatasets
<1>6. CASE ReadParametersFromFile \/ DrawConstrainedParameters
  BY <1>1, <1>6 DEF ReadParametersFromFile, DrawConstrainedParameters, shuffleVars
<1>7. CASE PrepareDiscrete \/ GenerateDiscreteSample
  BY <1>1, <1>7 DEF PrepareDiscrete, GenerateDiscreteSample, shuffleVars
<1>8. CASE TakeDiscrete \/ MergeDatasets \/ StartMixing
  BY <1>1, <1>8 DEF TakeDiscrete, MergeDatasets, AfterMerge, StartMixing, EndOfDraws, shuffleVars
<1>9. CASE DrawPosition \/ MixMergeDatasets
  BY <1>1, <1>9 DEF DrawPosition, MixMergeDatasets, shuffleVars
<1>10. CASE RefuseToAppend
  BY <1>1, <1>10 DEF RefuseToAppend, shuffleVars
<1>11. CASE UNCHANGED vars
  BY <1>11 DEF vars, OrderInv, NumRows
<1> QED BY <1>3, <1>4, <1>5, <1>6, <1>7, <1>8, <1>9, <1>10, <1>11 DEF Next

(* AppendDatasets draws every permutation of the rows from one sequence of *)
(* random numbers, for samples of any sizes (ToyFactoryStd.cpp:413-429).   *)
THEOREM OrdersComeOnce == GenerationSpec => []ShuffleUniform
<1>1. Init => OrderInv
  BY DEF Init, OrderInv
<1>2. OrderInv => ShuffleUniform
  <2> SUFFICES ASSUME OrderInv, newOrder # <<>>
               PROVE  /\ {newOrder[i] : i \in DOMAIN newOrder} = 0..Len(newOrder) - 1
                      /\ ChoicesOf(newOrder) = choices
    BY DEF ShuffleUniform
  <2>1. PICK f : Shuffled(f, newOrder, choices)
    BY DEF OrderInv
  <2>2. /\ newOrder \in Seq(Nat)
        /\ \A i \in 1..Len(newOrder) : newOrder[i] < Len(newOrder)
        /\ \A x \in 0..Len(newOrder) - 1 : \E i \in 1..Len(newOrder) : newOrder[i] = x
    BY <2>1 DEF Shuffled, IsOrder
  <2>3. \A i \in 1..Len(newOrder) : newOrder[i] \in 0..Len(newOrder) - 1
    BY <2>2
  <2>4. DOMAIN newOrder = 1..Len(newOrder)
    BY <2>2
  <2>5. {newOrder[i] : i \in DOMAIN newOrder} = 0..Len(newOrder) - 1
    BY <2>2, <2>3, <2>4
  <2> QED BY <2>1, <2>5, ShuffleIsUndone
<1> QED BY <1>1, <1>2, StepKeepsOrder, GenerationSamples, PTL DEF GenerationSpec

-----------------------------------------------------------------------------
(* The events of the discrete sample.                                      *)

SampleInv ==
  /\ request \in Requests
  /\ turn \in Nat
  /\ current \in [Vars -> Cell]
  /\ sample \in Seq([DiscreteVars -> Cell])
  /\ FreshValues

LEMMA DiscreteVarsFinite ==
  ASSUME request \in Requests
  PROVE  DiscreteVars \subseteq Vars /\ IsFiniteSet(DiscreteVars)
<1> DEFINE names == request.discrete
<1>1. names \in Seq(Vars)
  BY RequestTypes
<1>2. Len(names) \in Nat /\ DOMAIN names = 1..Len(names)
      /\ \A i \in 1..Len(names) : names[i] \in Vars
  BY <1>1, ElementOfSeq
<1>3. names \in Surjection(1..Len(names), DiscreteVars)
  <2>1. names \in [1..Len(names) -> DiscreteVars]
    <3>1. \A i \in DOMAIN names : names[i] \in DiscreteVars
      BY DEF DiscreteVars
    <3>2. names = [i \in 1..Len(names) |-> names[i]]
      BY <1>1
    <3> QED BY <1>2, <3>1, <3>2
  <2>2. \A v \in DiscreteVars : \E i \in 1..Len(names) : names[i] = v
    BY <1>2 DEF DiscreteVars
  <2> QED BY <2>1, <2>2, Fun_IsSurj
<1>4. IsFiniteSet(1..Len(names))
  BY <1>2, FS_Interval
<1> QED BY <1>2, <1>3, <1>4, FS_Surjection DEF DiscreteVars

LEMMA DrawKeepsSample == SampleInv /\ GenerateDiscreteSample => SampleInv'
<1> SUFFICES ASSUME SampleInv, GenerateDiscreteSample PROVE SampleInv'
  OBVIOUS
<1>1. /\ request' = request /\ request \in Requests
      /\ turn \in Nat /\ turn' = turn + 1 /\ turn' \in Nat
      /\ current \in [Vars -> Cell] /\ sample \in Seq([DiscreteVars -> Cell])
  BY DEF GenerateDiscreteSample, SampleInv
<1>2. DiscreteVars' = DiscreteVars /\ DiscreteVars \subseteq Vars /\ IsFiniteSet(DiscreteVars)
  BY <1>1, DiscreteVarsFinite DEF DiscreteVars
<1>3. PICK r \in [DiscreteVars -> 0..ProbUnit - 1] :
         LET got == {v \in DiscreteVars : HasValue(v, r[v])}
         IN  /\ current' = [v \in Vars |->
                              IF v \in got THEN [by |-> "draw", of |-> turn'] ELSE current[v]]
             /\ sample' = IF AddsEvent(got)
                          THEN Append(sample, [v \in DiscreteVars |-> current'[v]])
                          ELSE sample
  BY DEF GenerateDiscreteSample
<1> DEFINE got == {v \in DiscreteVars : HasValue(v, r[v])}
           drawn == [by |-> "draw", of |-> turn']
           row == [v \in DiscreteVars |-> current'[v]]
<1>4. drawn \in Cell /\ drawn.by = "draw"
  BY <1>1 DEF Cell
<1>5. /\ current' = [v \in Vars |-> IF v \in got THEN drawn ELSE current[v]]
      /\ sample' = IF got # {} THEN Append(sample, row) ELSE sample
  BY <1>3 DEF AddsEvent
<1>6. current' \in [Vars -> Cell] /\ row \in [DiscreteVars -> Cell]
  <2> HIDE DEF got, drawn
  <2>1. \A v \in Vars : (IF v \in got THEN drawn ELSE current[v]) \in Cell
    BY <1>1, <1>4
  <2>2. current' \in [Vars -> Cell]
    BY <1>5, <2>1
  <2> QED BY <1>2, <2>2
<1>7. sample' \in Seq([DiscreteVars -> Cell])
  <2> HIDE DEF row
  <2> QED BY <1>1, <1>5, <1>6
<1>8. ASSUME Cardinality(DiscreteVars) = 1 \/ \A v \in DiscreteVars : Certain(v),
             NEW i \in DOMAIN sample', NEW v \in DiscreteVars, NEW w \in DiscreteVars
      PROVE  sample'[i][v].by = "draw" /\ sample'[i][v] = sample'[i][w]
  <2>1. CASE i \in DOMAIN sample /\ sample'[i] = sample[i]
    BY <1>8, <2>1 DEF SampleInv, FreshValues
  <2>2. CASE got # {} /\ sample'[i] = row
    <3>1. got = DiscreteVars
      <4>1. CASE Cardinality(DiscreteVars) = 1
        <5>1. PICK u : DiscreteVars = {u}
          BY <1>2, <4>1, FS_Singleton
        <5> QED BY <2>2, <5>1
      <4>2. CASE \A u \in DiscreteVars : Certain(u)
        BY <4>2 DEF Certain
      <4> QED BY <1>8, <4>1, <4>2
    <3>2. \A u \in DiscreteVars : current'[u] = drawn
      <4> HIDE DEF got, drawn
      <4> QED BY <1>2, <1>5, <3>1
    <3>3. \A u \in DiscreteVars : row[u] = drawn
      <4> HIDE DEF drawn
      <4> QED BY <3>2
    <3> HIDE DEF row, drawn
    <3> QED BY <1>4, <2>2, <3>3
  <2>3. \/ i \in DOMAIN sample /\ sample'[i] = sample[i]
        \/ got # {} /\ sample'[i] = row
    <3> HIDE DEF got, row
    <3>1. CASE got = {}
      BY <1>5, <3>1
    <3>2. CASE got # {}
      <4>1. /\ DOMAIN sample = 1..Len(sample) /\ Len(sample) \in Nat
            /\ DOMAIN Append(sample, row) = 1..Len(sample) + 1
            /\ Append(sample, row)[Len(sample) + 1] = row
            /\ \A k \in 1..Len(sample) : Append(sample, row)[k] = sample[k]
        BY <1>1, <1>6
      <4> QED BY <1>5, <3>2, <4>1
    <3> QED BY <3>1, <3>2
  <2> QED BY <2>1, <2>2, <2>3
<1>9. FreshValues'
  BY <1>2, <1>8 DEF FreshValues
<1> HIDE DEF got, drawn, row
<1> QED BY <1>1, <1>2, <1>6, <1>7, <1>9 DEF SampleInv, Cell

LEMMA StepKeepsSample == SampleInv /\ [Next]_vars => SampleInv'
<1> SUFFICES ASSUME SampleInv, [Next]_vars PROVE SampleInv'
  OBVIOUS
<1>1. CASE UNCHANGED <<request, current, turn, sample>>
  BY <1>1 DEF SampleInv, FreshValues, DiscreteVars, Cell
<1>2. CASE ReadParametersFromFile \/ DrawConstrainedParameters
  BY <1>1, <1>2 DEF ReadParametersFromFile, DrawConstrainedParameters, discreteVars
<1>3. CASE GenerateForPdf \/ Shuffle \/ AppendDatasets \/ RefuseToAppend
  BY <1>1, <1>3 DEF GenerateForPdf, Shuffle, AppendDatasets, RefuseToAppend, discreteVars
<1>4. CASE PrepareDiscrete
  BY <1>1, <1>4 DEF PrepareDiscrete
<1>5. CASE GenerateDiscreteSample
  BY <1>5, DrawKeepsSample
<1>6. CASE TakeDiscrete \/ MergeDatasets \/ StartMixing
  BY <1>1, <1>6 DEF TakeDiscrete, MergeDatasets, StartMixing, discreteVars
<1>7. CASE DrawPosition \/ MixMergeDatasets
  BY <1>1, <1>7 DEF DrawPosition, MixMergeDatasets, discreteVars
<1>8. CASE UNCHANGED vars
  BY <1>1, <1>8 DEF vars
<1> QED BY <1>2, <1>3, <1>4, <1>5, <1>6, <1>7, <1>8 DEF Next

-----------------------------------------------------------------------------
(* The events of the PDF in the data, until they are returned.             *)

EventsInv ==
  /\ done \in Nat
  /\ status \in {"parameters", "constraints"} => data = <<>>
  /\ status \in {"parameters", "constraints", "continuous", "shuffling", "discrete"}
       => sample = <<>>
  /\ status \in Working \ {"positions"} => positions = {}
  /\ status = "continuous" =>
       /\ done \in 0..Len(request.parts)
       /\ AllEvents(data, 0, Total(request.parts, done))
  /\ status = "shuffling" =>
       /\ done \in 1..Len(request.parts)
       /\ AllEvents(data, 0, Total(request.parts, done - 1))
       /\ AllEvents(part, Total(request.parts, done - 1), request.parts[done])
  /\ status \in {"discrete", "drawing", "positions"} =>
       /\ AllEvents(data, 0, EventsAskedFor)
       /\ request.discrete # <<>>
  /\ status = "positions" =>
       WithPdf /\ positions \in SUBSET (0..Len(data) - 1)
  /\ WholeEvents /\ DrawsUsedOnce

LEMMA SizesAre ==
  ASSUME request \in Requests
  PROVE  /\ Len(request.parts) \in Nat
         /\ \A k \in 1..Len(request.parts) : request.parts[k] \in Nat
         /\ Total(request.parts, 0) = 0
         /\ \A k \in 0..Len(request.parts) : Total(request.parts, k) \in Nat
         /\ \A k \in 1..Len(request.parts) :
              Total(request.parts, k) = Total(request.parts, k - 1) + request.parts[k]
         /\ EventsAskedFor = Total(request.parts, Len(request.parts))
<1>1. request.parts \in Seq(Nat)
  BY RequestTypes
<1> DEFINE n == Len(request.parts)
<1>2. n \in Nat
  BY <1>1
<1>3. \A k \in 1..n : request.parts[k] \in Nat
  BY <1>1, ElementOfSeq
<1>4. /\ Total(request.parts, 0) = 0
      /\ \A k \in 0..n : Total(request.parts, k) \in Nat
      /\ \A k \in 0..n - 1 :
           Total(request.parts, k + 1) = Total(request.parts, k) + request.parts[k + 1]
      /\ Total(request.parts, n) = Facts!Fold(0, 0, request.parts)
  BY <1>1, TotalSteps
<1>5. EventsAskedFor = Total(request.parts, n)
  BY <1>4, EventsAreFolded
<1> HIDE DEF n
<1>6. ASSUME NEW k \in 1..n
      PROVE  Total(request.parts, k) = Total(request.parts, k - 1) + request.parts[k]
  <2>1. PICK j \in 0..n - 1 : j + 1 = k /\ j = k - 1
    <3>1. k - 1 \in 0..n - 1 /\ (k - 1) + 1 = k
      BY <1>2
    <3> QED BY <3>1
  <2>2. Total(request.parts, j + 1) = Total(request.parts, j) + request.parts[j + 1]
    BY <1>4
  <2> QED BY <2>1, <2>2
<1> QED BY <1>2, <1>3, <1>4, <1>5, <1>6 DEF n

(* The rows K are whole events, none of them twice; all of the n events    *)
(* when they are all the rows.                                             *)
AreWhole(rows, K, n) ==
  /\ \A i \in K : \A c \in PdfColumns :
       rows[i][c] = [by |-> "pdf", of |-> rows[i]["x"].of]
  /\ \A i, k \in K : i # k => rows[i]["x"].of # rows[k]["x"].of
  /\ K = 1..n => {rows[i]["x"].of : i \in K} = 1..n

(* Rows that have the values of the events of the PDF, row by row.         *)
LEMMA EventsAreWhole ==
  ASSUME NEW n \in Nat, AllEvents(data, 0, n), NEW rows, NEW K \in SUBSET (1..n),
         \A i \in K : \A c \in PdfColumns : rows[i][c] = data[i][c]
  PROVE  AreWhole(rows, K, n)
<1>1. \A i \in 1..n : \E e \in 1..n : data[i] = EventRow(e)
  BY DEF AllEvents
<1>2. \A e \in 1..n : \E i \in 1..n : data[i] = EventRow(e)
  BY DEF AllEvents
<1>3. \A i, k \in 1..n : data[i] = data[k] => i = k
  BY DEF AllEvents
<1>4. ASSUME NEW i \in K, NEW e \in 1..n, data[i] = EventRow(e)
      PROVE  /\ rows[i]["x"].of = e
             /\ \A c \in PdfColumns : rows[i][c] = [by |-> "pdf", of |-> e]
  <2>1. e \in Nat
    OBVIOUS
  <2>2. /\ \A c \in PdfColumns : data[i][c] = [by |-> "pdf", of |-> e]
        /\ "x" \in PdfColumns /\ data[i]["x"].of = e
    BY <1>4, <2>1, EventRowIs
  <2>3. rows[i]["x"] = data[i]["x"]
    BY <2>2
  <2>4. rows[i]["x"].of = e
    BY <2>2, <2>3
  <2> QED BY <2>2, <2>4
<1>5. ASSUME NEW i \in K, NEW c \in PdfColumns
      PROVE  rows[i][c] = [by |-> "pdf", of |-> rows[i]["x"].of]
  <2>1. PICK e \in 1..n : data[i] = EventRow(e)
    BY <1>1
  <2>2. rows[i]["x"].of = e /\ rows[i][c] = [by |-> "pdf", of |-> e]
    BY <1>4, <2>1
  <2> QED BY <2>2
<1>6. ASSUME NEW i \in K, NEW k \in K, i # k
      PROVE  rows[i]["x"].of # rows[k]["x"].of
  <2>1. PICK e \in 1..n : data[i] = EventRow(e)
    BY <1>1
  <2>2. PICK d \in 1..n : data[k] = EventRow(d)
    BY <1>1
  <2>3. e # d
    BY <1>3, <1>6, <2>1, <2>2
  <2>4. rows[i]["x"].of = e /\ rows[k]["x"].of = d
    BY <1>4, <2>1, <2>2
  <2> QED BY <2>3, <2>4
<1>7. ASSUME K = 1..n
      PROVE  {rows[i]["x"].of : i \in K} = 1..n
  <2>1. \A i \in K : rows[i]["x"].of \in 1..n
    <3> TAKE i \in K
    <3>1. PICK e \in 1..n : data[i] = EventRow(e)
      BY <1>1
    <3> QED BY <1>4, <3>1
  <2>2. \A e \in 1..n : \E i \in K : rows[i]["x"].of = e
    <3> TAKE e \in 1..n
    <3>1. PICK i \in 1..n : data[i] = EventRow(e)
      BY <1>2
    <3> QED BY <1>4, <1>7, <3>1
  <2> QED BY <2>1, <2>2
<1> QED BY <1>5, <1>6, <1>7 DEF AreWhole

LEMMA EventsAskedStay == request' = request => EventsAskedFor' = EventsAskedFor
<1>1. (EventsAskedFor = Facts!Fold(0, 0, request.parts))'
  BY EventsAreFolded, PTL
<1>2. EventsAskedFor = Facts!Fold(0, 0, request.parts)
  BY EventsAreFolded
<1> QED BY <1>1, <1>2

(* Nothing has to hold of data that are not returned.                      *)
LEMMA NotReturned == status # "done" => WholeEvents /\ DrawsUsedOnce
BY DEF WholeEvents, DrawsUsedOnce

LEMMA EventsUndisturbed ==
  ASSUME EventsInv, UNCHANGED <<request, status, done, data, part, sample, positions>>
  PROVE  EventsInv'
<1>1. /\ WithPdf' = WithPdf /\ PdfColumns' = PdfColumns /\ DiscreteVars' = DiscreteVars
      /\ EventsAskedFor' = EventsAskedFor /\ Kept' = Kept
  BY EventsAskedStay DEF WithPdf, PdfColumns, DiscreteVars, Kept
<1>2. WholeEvents' /\ DrawsUsedOnce'
  BY <1>1 DEF EventsInv, WholeEvents, DrawsUsedOnce, EventOf
<1>3. \A from, n : /\ AllEvents(data, from, n) => AllEvents(data, from, n)'
                   /\ AllEvents(part, from, n) => AllEvents(part, from, n)'
  BY <1>1 DEF AllEvents, EventRow, Cell
<1> QED BY <1>1, <1>2, <1>3 DEF EventsInv, Working

LEMMA ParametersKeepEvents ==
  ASSUME SampleInv, EventsInv, ReadParametersFromFile \/ DrawConstrainedParameters
  PROVE  EventsInv'
<1>1. /\ request' = request /\ request \in Requests
      /\ UNCHANGED <<data, sample, positions>>
  BY DEF ReadParametersFromFile, DrawConstrainedParameters, discreteVars, SampleInv
<1>2. data = <<>> /\ sample = <<>> /\ positions = {} /\ done \in Nat
  BY DEF ReadParametersFromFile, DrawConstrainedParameters, EventsInv, Working
<1>3. /\ status' \in {"no_data", "no_pdf", "constraints", "continuous"} /\ done' \in Nat
      /\ status' = "continuous" => done' = 0
  <2>1. CASE ReadParametersFromFile
    BY <1>2, <2>1 DEF ReadParametersFromFile
  <2>2. CASE DrawConstrainedParameters
    BY <1>2, <2>2 DEF DrawConstrainedParameters
  <2> QED BY <2>1, <2>2
<1>4. (WholeEvents /\ DrawsUsedOnce)'
  <2>1. (status # "done")'
    BY <1>3
  <2>2. (status # "done" => WholeEvents /\ DrawsUsedOnce)'
    BY NotReturned, PTL
  <2> QED BY <2>1, <2>2
<1>5. AllEvents(data, 0, 0)'
  <2>1. /\ 0 + 1..0 + 0 = {} /\ 1..0 = {} /\ Len(<<>>) = 0
        /\ <<>> \in Seq([PdfColumns -> Cell])'
    OBVIOUS
  <2> QED BY <1>1, <1>2, <2>1 DEF AllEvents
<1>6. Len(request.parts) \in Nat /\ Total(request.parts, 0) = 0
  BY <1>1, SizesAre
<1>7. status' = "continuous" =>
        (done \in 0..Len(request.parts) /\ AllEvents(data, 0, Total(request.parts, done)))'
  BY <1>1, <1>3, <1>5, <1>6
<1> QED BY <1>1, <1>2, <1>3, <1>4, <1>7 DEF EventsInv, Working

LEMMA NoneReplaced ==
  (/\ request \in Requests /\ AllEvents(data, 0, EventsAskedFor)
   /\ positions = {} /\ sample = <<>>)
    => WholeEvents /\ DrawsUsedOnce
<1> SUFFICES ASSUME request \in Requests, AllEvents(data, 0, EventsAskedFor),
                    positions = {}, sample = <<>>
             PROVE  WholeEvents /\ DrawsUsedOnce
  OBVIOUS
<1> DEFINE n == EventsAskedFor
<1>1. n \in Nat
  BY SizesAre
<1>2. Kept = 1..n /\ DOMAIN data = 1..n
  <2>1. DOMAIN data = 1..n
    BY DEF AllEvents
  <2> QED BY <2>1 DEF Kept
<1>3. AreWhole(data, 1..n, n)
  <2>1. AllEvents(data, 0, n) /\ 1..n \in SUBSET (1..n)
        /\ \A i \in 1..n : \A c \in PdfColumns : data[i][c] = data[i][c]
    OBVIOUS
  <2> HIDE DEF n
  <2> QED BY <1>1, <2>1, EventsAreWhole
<1>4. WholeEvents
  BY <1>2, <1>3 DEF WholeEvents, EventOf, AreWhole
<1>5. DrawsUsedOnce
  <2> DEFINE replaced == [k \in {} |-> 1]
  <2>1. DOMAIN sample = {} /\ DOMAIN data \ Kept = {}
    BY <1>2
  <2>2. replaced \in [DOMAIN sample -> DOMAIN data]
    BY <2>1
  <2>3. Range(replaced) = DOMAIN data \ Kept
    BY <2>1 DEF Range
  <2> HIDE DEF replaced
  <2> QED BY <2>1, <2>2, <2>3 DEF DrawsUsedOnce
<1> QED BY <1>4, <1>5

LEMMA GenerateKeepsEvents ==
  ASSUME SampleInv, EventsInv, GenerateForPdf
  PROVE  EventsInv'
<1>1. /\ request' = request /\ request \in Requests
      /\ UNCHANGED <<sample, positions>> /\ sample = <<>> /\ positions = {}
      /\ done \in 0..Len(request.parts)
      /\ AllEvents(data, 0, Total(request.parts, done))
      /\ status = "continuous"
  BY DEF GenerateForPdf, discreteVars, SampleInv, EventsInv, Working
<1>2. /\ Len(request.parts) \in Nat
      /\ \A k \in 1..Len(request.parts) : request.parts[k] \in Nat
      /\ Total(request.parts, 0) = 0
      /\ \A k \in 0..Len(request.parts) : Total(request.parts, k) \in Nat
      /\ \A k \in 1..Len(request.parts) :
           Total(request.parts, k) = Total(request.parts, k - 1) + request.parts[k]
      /\ EventsAskedFor = Total(request.parts, Len(request.parts))
  BY <1>1, SizesAre
<1>3. /\ WithPdf' = WithPdf /\ PdfColumns' = PdfColumns /\ DiscreteVars' = DiscreteVars
      /\ EventsAskedFor' = EventsAskedFor
      /\ \A rows, from, n : AllEvents(rows, from, n)' = AllEvents(rows, from, n)
  BY <1>1, EventsAskedStay DEF WithPdf, PdfColumns, DiscreteVars, AllEvents, EventRow, Cell
<1>4. CASE done = Len(request.parts)
  <2>1. /\ status' = IF request.discrete # <<>> THEN "discrete"
                     ELSE IF WithPdf THEN "done" ELSE "no_data"
        /\ UNCHANGED <<done, data, part>>
    BY <1>4 DEF GenerateForPdf
  <2>2. AllEvents(data, 0, EventsAskedFor)
    BY <1>1, <1>2, <1>4
  <2>3. AllEvents(data, 0, EventsAskedFor)'
    BY <1>3, <2>1, <2>2
  <2>4. (WholeEvents /\ DrawsUsedOnce)'
    <3>1. (request \in Requests /\ positions = {} /\ sample = <<>>)'
      BY <1>1
    <3>2. ((/\ request \in Requests /\ AllEvents(data, 0, EventsAskedFor)
            /\ positions = {} /\ sample = <<>>)
             => WholeEvents /\ DrawsUsedOnce)'
      BY NoneReplaced, PTL
    <3> QED BY <2>3, <3>1, <3>2
  <2> QED BY <1>1, <2>1, <2>3, <2>4 DEF EventsInv, Working
<1>5. CASE done # Len(request.parts)
  <2> DEFINE k == done + 1
             m == Total(request.parts, done)
             rows == EventRows(Len(data), request.parts[k])
  <2>1. /\ k \in 1..Len(request.parts) /\ k - 1 = done /\ k \in Nat /\ done \in Nat
        /\ m \in Nat /\ request.parts[k] \in Nat
        /\ Total(request.parts, k) = m + request.parts[k]
    <3>1. k \in 1..Len(request.parts) /\ k - 1 = done /\ k \in Nat /\ done \in Nat
      BY <1>1, <1>2, <1>5
    <3> HIDE DEF k
    <3> QED BY <1>1, <1>2, <3>1
  <2>2. /\ done' = k
        /\ \/ done = 0 /\ data' = rows /\ UNCHANGED status
           \/ /\ done # 0 /\ part' = rows /\ UNCHANGED data /\ status' = "shuffling"
    BY <1>5 DEF GenerateForPdf
  <2>3. AllEvents(rows, m, request.parts[k])
    <3>1. Len(data) = m
      BY <1>1 DEF AllEvents
    <3> HIDE DEF k, m
    <3> QED BY <2>1, <3>1, NewEvents
  <2>4. (status # "done")'
    BY <1>1, <2>2
  <2>5. (WholeEvents /\ DrawsUsedOnce)'
    <3>1. (status # "done" => WholeEvents /\ DrawsUsedOnce)'
      BY NotReturned, PTL
    <3> QED BY <2>4, <3>1
  <2>6. CASE done = 0 /\ data' = rows /\ UNCHANGED status
    <3>1. m = 0 /\ Total(request.parts, k) = request.parts[k]
      <4> HIDE DEF k
      <4> QED BY <1>2, <2>1, <2>6
    <3>2. AllEvents(rows, 0, Total(request.parts, k))
      BY <2>3, <3>1
    <3>3. AllEvents(data, 0, Total(request.parts, done))'
      <4>1. Total(request.parts, done)' = Total(request.parts, k)
        BY <1>1, <2>2
      <4> HIDE DEF rows, k
      <4> QED BY <1>3, <2>6, <3>2, <4>1
    <3>4. (done \in 0..Len(request.parts))' /\ done' \in Nat
      <4> HIDE DEF k
      <4> QED BY <1>1, <2>1, <2>2
    <3> QED BY <1>1, <2>5, <2>6, <3>3, <3>4 DEF EventsInv, Working
  <2>7. CASE done # 0 /\ part' = rows /\ UNCHANGED data /\ status' = "shuffling"
    <3>1. Total(request.parts, done - 1)' = m /\ (request.parts[done])' = request.parts[k]
      <4> HIDE DEF k
      <4> QED BY <1>1, <2>1, <2>2
    <3>2. /\ AllEvents(data, 0, Total(request.parts, done - 1))'
          /\ AllEvents(part, Total(request.parts, done - 1), request.parts[done])'
      <4>1. AllEvents(data, 0, m)
        BY <1>1
      <4> HIDE DEF rows, k, m
      <4> QED BY <1>3, <2>3, <2>7, <3>1, <4>1
    <3>3. (done \in 1..Len(request.parts))' /\ done' \in Nat
      <4> HIDE DEF k
      <4> QED BY <1>1, <2>1, <2>2
    <3> QED BY <1>1, <2>5, <2>7, <3>2, <3>3 DEF EventsInv, Working
  <2> QED BY <2>2, <2>6, <2>7
<1> QED BY <1>4, <1>5

LEMMA AppendKeepsEvents ==
  ASSUME SampleInv, OrderInv, EventsInv, AppendDatasets
  PROVE  EventsInv'
<1> DEFINE m == Total(request.parts, done - 1)
           k == request.parts[done]
<1>1. /\ UNCHANGED <<request, done, sample, positions>> /\ request \in Requests
      /\ status' = "continuous"
      /\ sample = <<>> /\ positions = {} /\ done \in Nat
      /\ done \in 1..Len(request.parts)
      /\ AllEvents(data, 0, m) /\ AllEvents(part, m, k)
      /\ Len(newOrder) = NumRows
      /\ data' = [i \in 1..NumRows |-> RowAt(newOrder[i])]
  BY DEF AppendDatasets, discreteVars, SampleInv, EventsInv, Working
<1>2. /\ m \in Nat /\ k \in Nat /\ Total(request.parts, done) = m + k
      /\ done \in 0..Len(request.parts)
  <2>1. done - 1 \in 0..Len(request.parts) /\ done \in 0..Len(request.parts)
    BY <1>1
  <2> QED BY <1>1, <2>1, SizesAre
<1>3. NumRows = m + k
  BY <1>1 DEF NumRows, AllEvents
<1>4. IsOrder(newOrder)
  <2>1. CASE newOrder = <<>>
    BY <2>1 DEF IsOrder
  <2>2. CASE newOrder # <<>>
    BY <2>2 DEF OrderInv, Shuffled
  <2> QED BY <2>1, <2>2
<1> HIDE DEF m, k
<1>5. AllEvents(data', 0, m + k)
  BY <1>1, <1>2, <1>3, <1>4, AppendedEvents
<1>6. AllEvents(data, 0, Total(request.parts, done))'
  <2>1. Total(request.parts, done)' = m + k /\ PdfColumns' = PdfColumns
    BY <1>1, <1>2 DEF PdfColumns
  <2> QED BY <1>5, <2>1 DEF AllEvents, EventRow, Cell
<1>7. (WholeEvents /\ DrawsUsedOnce)'
  <2>1. (status # "done" => WholeEvents /\ DrawsUsedOnce)'
    BY NotReturned, PTL
  <2> QED BY <1>1, <2>1
<1> QED BY <1>1, <1>2, <1>6, <1>7 DEF EventsInv, Working

(* Steps after the sample of the PDF that leave its events alone and do    *)
(* not end with a sample.                                                  *)
LEMMA EventsKept ==
  ASSUME EventsInv, UNCHANGED <<request, done, data>>,
         status \in {"discrete", "drawing", "positions"},
         status' # "done", status' \notin Working \ {"drawing", "positions"},
         status' = "drawing" => positions' = {},
         status' = "positions" => WithPdf /\ positions' \in SUBSET (0..Len(data) - 1)
  PROVE  EventsInv'
<1>1. AllEvents(data, 0, EventsAskedFor)'
  <2>1. AllEvents(data, 0, EventsAskedFor) /\ EventsAskedFor' = EventsAskedFor
    BY EventsAskedStay DEF EventsInv
  <2> QED BY <2>1 DEF AllEvents, EventRow, PdfColumns, Cell
<1>2. (WholeEvents /\ DrawsUsedOnce)'
  <2>1. (status # "done" => WholeEvents /\ DrawsUsedOnce)'
    BY NotReturned, PTL
  <2> QED BY <2>1
<1>3. done' \in Nat /\ request'.discrete # <<>> /\ WithPdf' = WithPdf
  BY DEF EventsInv, WithPdf
<1> QED BY <1>1, <1>2, <1>3 DEF EventsInv, Working

(* No sample is returned when Generate fails.                              *)
LEMMA FailureKeepsEvents ==
  ASSUME done' \in Nat, status' \in Failures
  PROVE  EventsInv'
<1>1. status' # "done" /\ status' \notin Working
  BY DEF Failures, Working
<1>2. (WholeEvents /\ DrawsUsedOnce)'
  <2>1. (status # "done" => WholeEvents /\ DrawsUsedOnce)'
    BY NotReturned, PTL
  <2> QED BY <1>1, <2>1
<1> QED BY <1>1, <1>2 DEF EventsInv, Working

(* The data of a program that generates without a PDF have no events.      *)
LEMMA TakeKeepsEvents ==
  ASSUME EventsInv, TakeDiscrete
  PROVE  EventsInv'
<1>1. CASE status' = "terminated" /\ UNCHANGED data
  BY <1>1, EventsKept DEF TakeDiscrete, EndOfDraws, Working
<1>2. CASE status' = "done"
  <2>1. ~WithPdf' /\ done' \in Nat
    BY DEF TakeDiscrete, WithPdf, EventsInv
  <2> QED BY <1>2, <2>1 DEF EventsInv, WholeEvents, DrawsUsedOnce, Working
<1> QED BY <1>1, <1>2 DEF TakeDiscrete

LEMMA MergeKeepsEvents ==
  ASSUME SampleInv, EventsInv, MergeDatasets
  PROVE  EventsInv'
<1>1. /\ UNCHANGED <<request, done, sample, positions>> /\ request \in Requests
      /\ status = "drawing" /\ done \in Nat /\ positions = {}
      /\ AllEvents(data, 0, EventsAskedFor) /\ request.discrete # <<>>
  BY DEF MergeDatasets, EndOfDraws, discreteVars, SampleInv, EventsInv, Working
<1>2. CASE status' = "not_disjoint" /\ UNCHANGED data
  BY <1>1, <1>2, EventsKept DEF Working
<1>3. CASE /\ request.columns \cap DiscreteVars = {} /\ Len(sample) = Len(data)
           /\ data' = [i \in DOMAIN data |-> SideBySide(data[i], sample[i])]
           /\ status' = "done"
  <2> DEFINE n == EventsAskedFor
  <2>1. n \in Nat
    BY <1>1, SizesAre
  <2>2. /\ DOMAIN data = 1..n /\ Len(data) = n
        /\ \A i \in 1..n : data[i] \in [PdfColumns -> Cell]
    <3>1. data \in Seq([PdfColumns -> Cell]) /\ Len(data) = n
      BY <1>1 DEF AllEvents
    <3> QED BY <3>1, ElementOfSeq
  <2>3. PdfColumns' = PdfColumns /\ EventsAskedFor' = n /\ WithPdf' = WithPdf
        /\ DiscreteVars' = DiscreteVars
    BY <1>1, EventsAskedStay DEF PdfColumns, WithPdf, DiscreteVars
  <2>4. AreWhole(data', 1..n, n)
    <3>1. \A i \in 1..n : \A c \in PdfColumns : data'[i][c] = data[i][c]
      BY <1>3, <2>2 DEF SideBySide
    <3>2. 1..n \in SUBSET (1..n) /\ AllEvents(data, 0, n)
      BY <1>1
    <3> HIDE DEF n
    <3> QED BY <2>1, <3>1, <3>2, EventsAreWhole
  <2>5. Kept' = 1..n
    <3>1. DOMAIN data' = 1..n
      BY <1>3, <2>2
    <3> QED BY <1>1, <3>1 DEF Kept
  <2>6. WholeEvents'
    <3> HIDE DEF n
    <3> QED BY <2>3, <2>4, <2>5 DEF WholeEvents, EventOf, AreWhole
  <2>7. DrawsUsedOnce'
    <3>1. \E v : v \in DiscreteVars
      <4>1. request.discrete \in Seq(Vars)
        BY <1>1, RequestTypes
      <4>2. 1 \in DOMAIN request.discrete
        BY <1>1, <4>1
      <4> QED BY <4>2 DEF DiscreteVars
    <3>2. ~(DiscreteVars \subseteq request.columns)
      BY <1>3, <3>1
    <3> QED BY <1>1, <2>3, <3>2 DEF DrawsUsedOnce
  <2> QED BY <1>1, <1>3, <2>6, <2>7 DEF EventsInv, Working
<1>4. CASE status' = "argset_deleted"
  BY <1>1, <1>4, FailureKeepsEvents DEF Failures
<1> QED BY <1>2, <1>3, <1>4 DEF MergeDatasets, AfterMerge

(* The mixed data are the fold over all of their rows.                     *)
LEMMA MixedData ==
  ASSUME SampleInv, EventsInv, MixMergeDatasets
  PROVE  data' = Mixed(EventsAskedFor) /\ MixedSoFar(EventsAskedFor)
<1> DEFINE n == EventsAskedFor
<1>1. /\ request \in Requests /\ sample \in Seq([DiscreteVars -> Cell])
      /\ AllEvents(data, 0, n)
      /\ positions \in SUBSET (0..Len(data) - 1) /\ Cardinality(positions) = Len(sample)
  BY DEF MixMergeDatasets, SampleInv, EventsInv
<1>2. n \in Nat
  BY <1>1, SizesAre
<1>3. data \in Seq([PdfColumns -> Cell]) /\ Len(data) = n /\ DOMAIN data = 1..n
  BY <1>1 DEF AllEvents
<1>4. data' = Mixed(n)
  <2>1. data' = FoldLeft(AddMixed, <<>>, [i \in DOMAIN data |-> i - 1])
    BY DEF MixMergeDatasets
  <2>2. FoldLeft(AddMixed, <<>>, [i \in DOMAIN data |-> i - 1])
          = Mixing!Fold(0, <<>>, [i \in DOMAIN data |-> i - 1])
    BY DEF Mixing!Fold, AddMixedTo, FoldLeft, Mixing!FoldLeft,
           MapThenFoldSet, Mixing!MapThenFoldSet, Max, Mixing!Max
  <2> HIDE DEF n
  <2> QED BY <1>3, <2>1, <2>2 DEF Mixed
<1> HIDE DEF n
<1>5. n \in 0..Len(data)
  BY <1>2, <1>3
<1>6. MixedSoFar(n)
  BY <1>1, <1>3, <1>5, RowsMixed
<1> QED BY <1>4, <1>6 DEF n

LEMMA MixKeepsEvents ==
  ASSUME SampleInv, EventsInv, MixMergeDatasets
  PROVE  EventsInv'
<1> DEFINE n == EventsAskedFor
<1>1. /\ UNCHANGED <<request, done, sample, positions>> /\ request \in Requests
      /\ done \in Nat /\ status' = "done"
      /\ sample \in Seq([DiscreteVars -> Cell])
      /\ AllEvents(data, 0, n)
      /\ positions \in SUBSET (0..Len(data) - 1) /\ Cardinality(positions) = Len(sample)
  BY DEF MixMergeDatasets, discreteVars, SampleInv, EventsInv, Working
<1>2. n \in Nat
  BY <1>1, SizesAre
<1>3. /\ data \in Seq([PdfColumns -> Cell]) /\ Len(data) = n /\ DOMAIN data = 1..n
  BY <1>1 DEF AllEvents
<1>4. data' = Mixed(n) /\ MixedSoFar(n)
  BY MixedData
<1> HIDE DEF n
<1>5. /\ DOMAIN data' = 1..n
      /\ \A i \in 1..n : i - 1 \notin positions => data'[i] = data[i]
      /\ \A i \in 1..n : i - 1 \in positions =>
           \A c \in PdfColumns \cap DiscreteVars :
             data'[i][c] = sample[Rank(positions, i - 1) + 1][c]
  BY <1>4 DEF MixedSoFar
<1>6. PdfColumns' = PdfColumns /\ EventsAskedFor' = n /\ WithPdf' = WithPdf
      /\ DiscreteVars' = DiscreteVars
  BY <1>1, EventsAskedStay DEF PdfColumns, WithPdf, DiscreteVars, n
<1>7. Kept' = {i \in 1..n : i - 1 \notin positions}
  BY <1>1, <1>5 DEF Kept
<1>8. WholeEvents'
  <2>1. Kept' \in SUBSET (1..n) /\ \A i \in Kept' : \A c \in PdfColumns : data'[i][c] = data[i][c]
    BY <1>5, <1>7
  <2>2. AreWhole(data', Kept', n)
    BY <1>1, <1>2, <2>1, EventsAreWhole
  <2>3. positions' = {} => Kept' = 1..n
    BY <1>1, <1>7
  <2> QED BY <1>6, <2>2, <2>3 DEF WholeEvents, EventOf, AreWhole
<1>9. DrawsUsedOnce'
  <2> DEFINE card == Cardinality(positions)
             At(k) == CHOOSE p \in positions : Rank(positions, p) = k - 1
             replaced == [k \in DOMAIN sample |-> At(k) + 1]
  <2>1. /\ card \in Nat
        /\ \A i \in positions : Rank(positions, i) \in 0..card - 1
        /\ \A i, k \in positions : i < k => Rank(positions, i) < Rank(positions, k)
        /\ \A r \in 0..card - 1 : \E i \in positions : Rank(positions, i) = r
    <3>1. positions \in SUBSET (0..n - 1)
      BY <1>1, <1>3
    <3> QED BY <1>2, <3>1, Ranks
  <2>2. DOMAIN sample = 1..card
    BY <1>1
  <2> HIDE DEF card
  <2>3. \A i \in positions : i \in Nat /\ i + 1 \in 1..n /\ (i + 1) - 1 = i
    BY <1>1, <1>2, <1>3
  <2>4. ASSUME NEW k \in 1..card
        PROVE  At(k) \in positions /\ Rank(positions, At(k)) = k - 1
    <3>1. k - 1 \in 0..card - 1
      BY <2>1
    <3>2. \E p \in positions : Rank(positions, p) = k - 1
      BY <2>1, <3>1
    <3> QED BY <3>2
  <2> HIDE DEF At
  <2>5. replaced \in [DOMAIN sample -> DOMAIN data']
    BY <1>5, <2>2, <2>3, <2>4
  <2>6. \A k \in 1..card : replaced[k] = At(k) + 1
    BY <2>2
  <2>7. ASSUME NEW k \in 1..card, NEW l \in 1..card, k < l
        PROVE  replaced[k] < replaced[l]
    <3>1. /\ At(k) \in positions /\ At(l) \in positions
          /\ Rank(positions, At(k)) = k - 1 /\ Rank(positions, At(l)) = l - 1
      BY <2>4
    <3>2. At(k) \in Nat /\ At(l) \in Nat
      BY <2>3, <3>1
    <3>3. ~(At(l) < At(k)) /\ At(l) # At(k)
      <4>1. At(l) < At(k) => l - 1 < k - 1
        BY <2>1, <3>1
      <4>2. l - 1 # k - 1 /\ ~(l - 1 < k - 1)
        BY <2>1, <2>7
      <4> QED BY <3>1, <4>1, <4>2
    <3> QED BY <2>6, <3>2, <3>3
  <2>8. Range(replaced) = DOMAIN data' \ Kept'
    <3>1. DOMAIN data' \ Kept' = {i \in 1..n : i - 1 \in positions}
      BY <1>5, <1>7
    <3>2. ASSUME NEW i \in 1..n, i - 1 \in positions
          PROVE  \E k \in 1..card : replaced[k] = i
      <4>1. Rank(positions, i - 1) \in 0..card - 1
        BY <2>1, <3>2
      <4>2. PICK k \in 1..card : Rank(positions, i - 1) = k - 1
        <5>1. Rank(positions, i - 1) + 1 \in 1..card
              /\ Rank(positions, i - 1) = (Rank(positions, i - 1) + 1) - 1
          BY <2>1, <4>1
        <5> QED BY <5>1
      <4>3. At(k) \in positions /\ Rank(positions, At(k)) = Rank(positions, i - 1)
        BY <2>4, <4>2
      <4>4. At(k) = i - 1
        <5>1. At(k) \in Nat /\ i - 1 \in Nat
          BY <2>3, <3>2, <4>3
        <5>2. ~(At(k) < i - 1) /\ ~(i - 1 < At(k))
          <6>1. Rank(positions, i - 1) \in Nat
            BY <4>1
          <6> QED BY <2>1, <3>2, <4>3, <6>1
        <5> QED BY <5>1, <5>2
      <4>5. replaced[k] = i
        <5>1. (i - 1) + 1 = i
          OBVIOUS
        <5> QED BY <2>6, <4>4, <5>1
      <4> QED BY <4>5
    <3>3. ASSUME NEW k \in 1..card
          PROVE  replaced[k] \in 1..n /\ replaced[k] - 1 \in positions
      BY <2>3, <2>4, <2>6
    <3>4. DOMAIN replaced = 1..card
      BY <2>2
    <3> HIDE DEF replaced
    <3> QED BY <3>1, <3>2, <3>3, <3>4 DEF Range
  <2>9. ASSUME DiscreteVars \subseteq request.columns, NEW k \in 1..card
        PROVE  [v \in DiscreteVars |-> data'[replaced[k]][v]] = sample[k]
    <3> DEFINE i == replaced[k]
    <3>1. i \in 1..n /\ i - 1 = At(k) /\ i - 1 \in positions
      BY <2>3, <2>4, <2>6
    <3> HIDE DEF replaced
    <3>2. Rank(positions, i - 1) + 1 = k
      <4>1. Rank(positions, i - 1) = k - 1
        BY <2>4, <3>1
      <4> QED BY <4>1
    <3>3. \A v \in DiscreteVars : data'[i][v] = sample[k][v]
      <4>1. \A c \in PdfColumns \cap DiscreteVars : data'[i][c] = sample[k][c]
        BY <1>5, <3>1, <3>2
      <4> QED BY <2>9, <4>1 DEF PdfColumns
    <3>4. sample[k] \in [DiscreteVars -> Cell]
      BY <1>1, <2>2, ElementOfSeq DEF card
    <3> QED BY <3>3, <3>4
  <2> HIDE DEF replaced
  <2> QED BY <1>1, <1>6, <2>2, <2>5, <2>7, <2>8, <2>9 DEF DrawsUsedOnce
<1> QED BY <1>1, <1>8, <1>9 DEF EventsInv, Working

LEMMA StepKeepsEvents ==
  SampleInv /\ OrderInv /\ EventsInv /\ [Next]_vars => EventsInv'
<1> SUFFICES ASSUME SampleInv, OrderInv, EventsInv, [Next]_vars PROVE EventsInv'
  OBVIOUS
<1>1. CASE ReadParametersFromFile \/ DrawConstrainedParameters
  BY <1>1, ParametersKeepEvents
<1>2. CASE GenerateForPdf
  BY <1>2, GenerateKeepsEvents
<1>3. CASE Shuffle \/ UNCHANGED vars
  BY <1>3, EventsUndisturbed DEF Shuffle, shuffleVars, discreteVars, vars
<1>4. CASE AppendDatasets
  BY <1>4, AppendKeepsEvents
<1>5. CASE PrepareDiscrete
  BY <1>5, EventsKept DEF PrepareDiscrete, EventsInv, Working
<1>6. CASE GenerateDiscreteSample
  BY <1>6, EventsKept DEF GenerateDiscreteSample, EventsInv, Working
<1>7. CASE TakeDiscrete
  BY <1>7, TakeKeepsEvents
<1>8. CASE MergeDatasets
  BY <1>8, MergeKeepsEvents
<1>9. CASE StartMixing
  <2>1. {} \in SUBSET (0..Len(data) - 1)
    OBVIOUS
  <2> QED BY <1>9, <2>1, EventsKept DEF StartMixing, EndOfDraws, EventsInv, Working
<1>10. CASE DrawPosition
  BY <1>10, EventsKept DEF DrawPosition, PositionRange, EventsInv, Working
<1>11. CASE MixMergeDatasets
  BY <1>11, MixKeepsEvents
<1>12. CASE RefuseToAppend
  BY <1>12, FailureKeepsEvents DEF RefuseToAppend, EventsInv, Failures
<1> QED BY <1>1, <1>2, <1>3, <1>4, <1>5, <1>6, <1>7, <1>8, <1>9, <1>10, <1>11, <1>12 DEF Next

LEMMA InitSample == Init => SampleInv /\ EventsInv
<1> SUFFICES ASSUME Init PROVE SampleInv /\ EventsInv
  OBVIOUS
<1>1. SampleInv
  <2>1. NoCell \in Cell
    BY DEF NoCell, Cell
  <2>2. DOMAIN <<>> = {} /\ <<>> \in Seq([DiscreteVars -> Cell])
    OBVIOUS
  <2> QED BY <2>1, <2>2 DEF Init, SampleInv, FreshValues
<1>2. EventsInv
  BY DEF Init, EventsInv, Working, WholeEvents, DrawsUsedOnce
<1> QED BY <1>1, <1>2

(* In the data returned the rows that were not replaced are events of the  *)
(* PDF, whole and none twice, and all of them if no row was replaced; the  *)
(* replaced ones have the events of the discrete sample, each once and in  *)
(* order, with fresh values where they are certain; for any samples and    *)
(* any discrete variables (ToyFactoryStd.cpp:388-444, 917-1172).           *)
THEOREM SamplesMixRight == GenerationSpec => []MixedRight
<1>1. Init => SampleInv /\ OrderInv /\ EventsInv
  BY InitSample DEF Init, OrderInv
<1>2. SampleInv /\ EventsInv => MixedRight
  BY DEF SampleInv, EventsInv, MixedRight
<1> QED BY <1>1, <1>2, StepKeepsSample, StepKeepsOrder, StepKeepsEvents, GenerationSamples,
           PTL DEF GenerationSpec

-----------------------------------------------------------------------------
(* The types of the state.                                                 *)

DataTyped ==
  \/ data \in Seq([PdfColumns -> Cell])
  \/ data \in Seq([DiscreteVars -> Cell])
  \/ data \in Seq([PdfColumns \cup DiscreteVars -> Cell])

BeforeDraws == {"parameters", "constraints", "continuous", "shuffling", "discrete"}

TypesInv ==
  /\ status \in Working \cup {"done"} \cup Failures
  /\ params \in [Params -> Nat \cup {FromFile}]
  /\ DataTyped
  /\ part \in Seq([PdfColumns -> Cell])
  /\ yield \in Nat
  /\ turn * Unit <= yield
  /\ status \in BeforeDraws => turn = 0
  /\ positions \subseteq Nat

AllInv == ParamsInv /\ OrderInv /\ SampleInv /\ EventsInv /\ TypesInv

LEMMA StatusTyped ==
  ASSUME TypesInv, [Next]_vars
  PROVE  /\ status' \in Working \cup {"done"} \cup Failures
         /\ request' = request
         /\ status' \in BeforeDraws => UNCHANGED turn
         /\ status' \in BeforeDraws => status \in BeforeDraws
<1> USE DEF Working, Failures, BeforeDraws, TypesInv
<1>1. CASE ReadParametersFromFile
  BY <1>1 DEF ReadParametersFromFile, discreteVars
<1>2. CASE DrawConstrainedParameters
  BY <1>2 DEF DrawConstrainedParameters, discreteVars
<1>3. CASE GenerateForPdf
  BY <1>3 DEF GenerateForPdf, discreteVars
<1>4. CASE Shuffle \/ AppendDatasets \/ RefuseToAppend
  BY <1>4 DEF Shuffle, AppendDatasets, RefuseToAppend, discreteVars
<1>5. CASE PrepareDiscrete \/ GenerateDiscreteSample
  BY <1>5 DEF PrepareDiscrete, GenerateDiscreteSample
<1>6. CASE TakeDiscrete \/ MergeDatasets \/ StartMixing
  BY <1>6 DEF TakeDiscrete, MergeDatasets, AfterMerge, StartMixing, EndOfDraws, discreteVars
<1>7. CASE DrawPosition \/ MixMergeDatasets
  BY <1>7 DEF DrawPosition, MixMergeDatasets, discreteVars
<1>8. CASE UNCHANGED vars
  BY <1>8 DEF vars
<1> QED BY <1>1, <1>2, <1>3, <1>4, <1>5, <1>6, <1>7, <1>8 DEF Next

LEMMA ParamsTyped ==
  ASSUME ParamsInv, TypesInv, [Next]_vars
  PROVE  params' \in [Params -> Nat \cup {FromFile}]
<1>1. params \in [Params -> Nat \cup {FromFile}] /\ done + 1 \in Nat
  BY DEF TypesInv, ParamsInv
<1>2. CASE ReadParametersFromFile
  BY <1>1, <1>2 DEF ReadParametersFromFile
<1>3. CASE DrawConstrainedParameters
  <2>1. CASE UNCHANGED params
    BY <1>1, <2>1
  <2> DEFINE constraint == request.constraints[done + 1]
             drawn == [p \in Params |-> IF p \in constraint.draws THEN done + 1
                                        ELSE IF p \in ReadAgain(constraint) THEN FromFile
                                        ELSE params[p]]
  <2>2. drawn \in [Params -> Nat \cup {FromFile}]
    <3> HIDE DEF constraint
    <3> QED BY <1>1
  <2>3. params' = drawn \/ UNCHANGED params
    BY <1>3 DEF DrawConstrainedParameters
  <2> HIDE DEF drawn
  <2> QED BY <2>1, <2>2, <2>3
<1>4. CASE UNCHANGED params
  BY <1>1, <1>4
<1> QED BY <1>2, <1>3, <1>4
       DEF Next, GenerateForPdf, Shuffle, AppendDatasets, RefuseToAppend, PrepareDiscrete,
           GenerateDiscreteSample, TakeDiscrete, MergeDatasets, StartMixing, DrawPosition,
           MixMergeDatasets, parameterVars, vars

(* The data of the PDF, the discrete sample, one beside the other or one   *)
(* mixed into the other.                                                   *)
LEMMA DataAreTyped ==
  ASSUME AllInv, [Next]_vars, EventsInv'
  PROVE  DataTyped'
<1>0. /\ request' = request /\ PdfColumns' = PdfColumns /\ DiscreteVars' = DiscreteVars
      /\ Cell' = Cell
  BY StatusTyped DEF AllInv, PdfColumns, DiscreteVars, Cell
<1>1. CASE UNCHANGED data
  BY <1>0, <1>1 DEF AllInv, TypesInv, DataTyped
<1>2. CASE status' \in {"continuous", "shuffling", "discrete", "drawing", "positions"}
  <2>1. \E n : AllEvents(data, 0, n)'
    BY <1>2 DEF EventsInv
  <2>2. data' \in Seq([PdfColumns -> Cell])
    BY <1>0, <2>1 DEF AllEvents
  <2> QED BY <1>0, <2>2 DEF DataTyped
<1>3. CASE TakeDiscrete /\ data' = sample
  BY <1>0, <1>3 DEF AllInv, SampleInv, DataTyped
<1>4. CASE /\ MergeDatasets
           /\ Len(sample) = Len(data)
           /\ data' = [i \in DOMAIN data |-> SideBySide(data[i], sample[i])]
  <2> DEFINE n == Len(data)
             Row == [PdfColumns \cup DiscreteVars -> Cell]
  <2>1. data \in Seq([PdfColumns -> Cell]) /\ sample \in Seq([DiscreteVars -> Cell])
    BY <1>4 DEF MergeDatasets, EndOfDraws, AllInv, EventsInv, SampleInv, AllEvents
  <2>2. n \in Nat /\ DOMAIN data = 1..n
        /\ \A i \in 1..n : data[i] \in [PdfColumns -> Cell]
                           /\ sample[i] \in [DiscreteVars -> Cell]
    BY <1>4, <2>1, ElementOfSeq
  <2>3. ASSUME NEW i \in 1..n
        PROVE  SideBySide(data[i], sample[i]) \in Row
    <3>1. /\ data[i] \in [PdfColumns -> Cell] /\ sample[i] \in [DiscreteVars -> Cell]
          /\ DOMAIN data[i] = PdfColumns /\ DOMAIN sample[i] = DiscreteVars
      BY <2>2
    <3>2. \A c \in PdfColumns \cup DiscreteVars :
            (IF c \in PdfColumns THEN data[i][c] ELSE sample[i][c]) \in Cell
      BY <3>1
    <3>3. SideBySide(data[i], sample[i])
            = [c \in PdfColumns \cup DiscreteVars |->
                 IF c \in PdfColumns THEN data[i][c] ELSE sample[i][c]]
      BY <3>1 DEF SideBySide
    <3> QED BY <3>2, <3>3
  <2>4. data' = [i \in 1..n |-> SideBySide(data[i], sample[i])]
    BY <1>4, <2>2
  <2>5. data' \in [1..n -> Row]
    <3> HIDE DEF n, Row
    <3> QED BY <2>3, <2>4
  <2>6. data' \in Seq(Row)
    <3> HIDE DEF n, Row
    <3>1. n \in Nat
      BY <2>2
    <3> QED BY <2>5, <3>1
  <2> QED BY <1>0, <2>6 DEF DataTyped
<1>5. CASE MixMergeDatasets
  <2>1. data' = Mixed(EventsAskedFor) /\ MixedSoFar(EventsAskedFor)
    BY <1>5, MixedData DEF AllInv
  <2>2. data' \in Seq([PdfColumns -> Cell])
    BY <2>1 DEF MixedSoFar
  <2> QED BY <1>0, <2>2 DEF DataTyped
<1>6. CASE GenerateForPdf
  <2>1. UNCHANGED data \/ status' \in {"continuous", "shuffling"}
    BY <1>6 DEF GenerateForPdf
  <2> QED BY <1>1, <1>2, <2>1
<1>7. CASE AppendDatasets
  BY <1>2, <1>7 DEF AppendDatasets
<1>8. CASE TakeDiscrete
  BY <1>1, <1>3, <1>8 DEF TakeDiscrete
<1>9. CASE MergeDatasets
  BY <1>1, <1>4, <1>9 DEF MergeDatasets
<1> QED BY <1>1, <1>5, <1>6, <1>7, <1>8, <1>9
       DEF Next, ReadParametersFromFile, DrawConstrainedParameters, Shuffle, RefuseToAppend,
           PrepareDiscrete, GenerateDiscreteSample, StartMixing, DrawPosition, vars

LEMMA PartTyped ==
  ASSUME AllInv, [Next]_vars, EventsInv'
  PROVE  (part \in Seq([PdfColumns -> Cell]))'
<1>0. PdfColumns' = PdfColumns /\ Cell' = Cell
  BY StatusTyped DEF AllInv, PdfColumns, Cell
<1>1. CASE UNCHANGED part
  BY <1>0, <1>1 DEF AllInv, TypesInv
<1>2. CASE status' = "shuffling"
  BY <1>2 DEF EventsInv, AllEvents
<1>3. CASE part' = <<>>
  BY <1>3
<1> QED BY <1>1, <1>2, <1>3
       DEF Next, ReadParametersFromFile, DrawConstrainedParameters, GenerateForPdf, Shuffle,
           AppendDatasets, RefuseToAppend, PrepareDiscrete, GenerateDiscreteSample,
           TakeDiscrete, MergeDatasets, StartMixing, DrawPosition, MixMergeDatasets,
           shuffleVars, vars

(* The loop of the discrete sample takes no turn beyond the yield.         *)
LEMMA TurnsTyped ==
  ASSUME AllInv, [Next]_vars
  PROVE  yield' \in Nat /\ turn' * Unit <= yield'
<1>1. CASE UNCHANGED <<yield, turn>>
  BY <1>1 DEF AllInv, TypesInv
<1>2. CASE PrepareDiscrete
  <2>1. /\ turn = 0 /\ turn' = turn /\ yield' \in DiscreteYield /\ request \in Requests
        /\ Len(data) \in Nat
    BY <1>2 DEF PrepareDiscrete, AllInv, TypesInv, BeforeDraws, EventsInv, SampleInv, AllEvents
  <2>2. Unit \in Nat /\ request.yield \in Nat /\ \A n \in 0..MaxDraw : Unit * n \in Nat
    BY <2>1, ToySampleAssumption DEF Request
  <2>3. Unit * Len(data) \in Nat
    BY <2>1, <2>2
  <2>4. yield' \in Nat
    BY <2>1, <2>2, <2>3 DEF DiscreteYield
  <2>5. turn' * Unit = 0
    BY <2>1, <2>2
  <2> QED BY <2>4, <2>5
<1>3. CASE GenerateDiscreteSample
  BY <1>3 DEF GenerateDiscreteSample, MoreTurns, AllInv, TypesInv
<1> QED BY <1>1, <1>2, <1>3
       DEF Next, ReadParametersFromFile, DrawConstrainedParameters, GenerateForPdf, Shuffle,
           AppendDatasets, RefuseToAppend, TakeDiscrete, MergeDatasets, StartMixing, DrawPosition,
           MixMergeDatasets, discreteVars, vars

LEMMA StepKeepsTypes ==
  ASSUME AllInv, [Next]_vars, EventsInv'
  PROVE  TypesInv'
<1>1. positions' \subseteq Nat
  <2>1. CASE UNCHANGED positions
    BY <2>1 DEF AllInv, TypesInv
  <2>2. CASE DrawPosition
    <3>1. Len(data) \in Nat
      BY <2>2 DEF DrawPosition, AllInv, EventsInv, AllEvents
    <3>2. \A pos \in PositionRange : pos \in Nat
      BY <3>1 DEF PositionRange
    <3> QED BY <2>2, <3>2 DEF DrawPosition, AllInv, TypesInv
  <2> QED BY <2>1, <2>2
         DEF Next, ReadParametersFromFile, DrawConstrainedParameters, GenerateForPdf, Shuffle,
             AppendDatasets, RefuseToAppend, PrepareDiscrete, GenerateDiscreteSample,
             TakeDiscrete, MergeDatasets, StartMixing, MixMergeDatasets, vars
<1>2. status' \in BeforeDraws => turn' = 0
  BY StatusTyped DEF AllInv, TypesInv
<1>3. /\ status' \in Working \cup {"done"} \cup Failures
      /\ params' \in [Params -> Nat \cup {FromFile}]
  BY StatusTyped, ParamsTyped DEF AllInv
<1> QED BY <1>1, <1>2, <1>3, DataAreTyped, PartTyped, TurnsTyped
       DEF TypesInv, Working, Failures, BeforeDraws

LEMMA StepKeepsAll == AllInv /\ [Next]_vars => AllInv'
<1> SUFFICES ASSUME AllInv, [Next]_vars PROVE AllInv'
  OBVIOUS
<1>1. ParamsInv' /\ OrderInv' /\ SampleInv' /\ EventsInv'
  BY StepKeepsParams, StepKeepsOrder, StepKeepsSample, StepKeepsEvents DEF AllInv
<1>2. TypesInv'
  BY <1>1, StepKeepsTypes
<1> QED BY <1>1, <1>2 DEF AllInv

LEMMA InitTyped == Init => AllInv
<1> SUFFICES ASSUME Init PROVE AllInv
  OBVIOUS
<1>1. ParamsInv
  BY DEF Init, ParamsInv
<1>2. OrderInv
  BY DEF Init, OrderInv
<1>3. SampleInv /\ EventsInv
  BY InitSample
<1>4. TypesInv
  <2>1. <<>> \in Seq([PdfColumns -> Cell])
    OBVIOUS
  <2>2. 0 * Unit = 0
    BY ToySampleAssumption
  <2> QED BY <2>1, <2>2 DEF Init, TypesInv, DataTyped, Working, BeforeDraws, FromConfig
<1> QED BY <1>1, <1>2, <1>3, <1>4 DEF AllInv

LEMMA TypesMeanTypeOK == AllInv => TypeOK
<1> SUFFICES ASSUME AllInv PROVE TypeOK
  OBVIOUS
<1>1. DOMAIN recorded \subseteq Params
  BY DEF AllInv, ParamsInv
<1>2. \A i \in DOMAIN newOrder : newOrder[i] \in 0..Len(newOrder) - 1
  <2>1. CASE newOrder = <<>>
    BY <2>1
  <2>2. CASE newOrder # <<>>
    <3>1. newOrder \in Seq(Nat)
          /\ \A i \in 1..Len(newOrder) : newOrder[i] < Len(newOrder)
      BY <2>2 DEF AllInv, OrderInv, Shuffled, IsOrder
    <3> QED BY <3>1
  <2> QED BY <2>1, <2>2
<1>3. request \in Requests /\ done \in Nat /\ current \in [Vars -> Cell]
      /\ sample \in Seq([DiscreteVars -> Cell])
  BY DEF AllInv, SampleInv, EventsInv
<1> QED BY <1>1, <1>2, <1>3 DEF AllInv, TypesInv, DataTyped, TypeOK

(* Type correctness of the state around GenerateForPdf, for any requests:  *)
(* what a row and a data set of each step hold, the order of a shuffle,    *)
(* and no turn of the loop of the discrete sample beyond its yield         *)
(* (ToyFactoryStd.cpp:94-203, 388-444, 917-1172).                          *)
THEOREM SamplesAreTyped == GenerationSpec => []TypeOK
BY InitTyped, StepKeepsAll, TypesMeanTypeOK, GenerationSamples, PTL DEF GenerationSpec

-----------------------------------------------------------------------------
(* Sizes: arithmetic.  A yield counts parts of an event, of which there    *)
(* are EventParts.                                                         *)
LEMMA PartsFact == EventParts \in Nat \ {0}
BY GenerationAssumption DEF Factory!ConstantsOK

LEMMA DivFacts ==
  ASSUME NEW a \in Int, NEW b \in Nat \ {0}
  PROVE  a \div b \in Int /\ b * (a \div b) <= a /\ a < b * (a \div b) + b
OBVIOUS

LEMMA TwentiethFacts ==
  ASSUME NEW u \in Nat \ {0}, NEW a \in Nat, NEW q, q = a \div (20 * u)
  PROVE  q \in Nat /\ 20 * (u * q) <= a /\ a < 20 * (u * q) + 20 * u
<1> DEFINE w == 20 * u
<1>1. w \in Nat \ {0}
  OBVIOUS
<1>2. q = a \div w
  OBVIOUS
<1> HIDE DEF w
<1>3. q \in Nat /\ w * q <= a /\ a < w * q + w
  BY <1>1, <1>2
<1>4. w * q = 20 * (u * q)
  <2>1. (20 * u) * q = 20 * (u * q)
    BY <1>3
  <2> QED BY <2>1 DEF w
<1> QED BY <1>3, <1>4 DEF w

LEMMA TimesLess ==
  ASSUME NEW u \in Nat \ {0}, NEW a \in Int, NEW b \in Int, a < b
  PROVE  u * a + u <= u * b
<1> DEFINE d == b - (a + 1)
<1>1. d \in Nat /\ b = a + 1 + d
  OBVIOUS
<1> HIDE DEF d
<1>2. u * d \in Nat
  BY <1>1
<1>3. u * b = u * a + u + u * d
  BY <1>1
<1>4. u * a \in Int
  OBVIOUS
<1> QED BY <1>2, <1>3, <1>4

(* The nearest whole number, and the size of a sample of that yield.       *)
Nearest(r, y) == 2 * (EventParts * r) - EventParts <= 2 * y
                 /\ 2 * y <= 2 * (EventParts * r) + EventParts

Rounded(y) == IF Factory!Iround(y) <= 0 THEN 0 ELSE Factory!Iround(y)

LEMMA IroundFacts ==
  ASSUME NEW y \in Int
  PROVE  /\ Factory!Iround(y) \in Int
         /\ Nearest(Factory!Iround(y), y)
         /\ y >= 0 => /\ Factory!Iround(y) >= 0
                      /\ 2 * y < 2 * (EventParts * Factory!Iround(y)) + EventParts
         /\ y < 0 => Factory!Iround(y) <= 0
<1> DEFINE u == EventParts
           a == 2 * y + u
           b == u - 2 * y
           p == a \div (2 * u)
           q == b \div (2 * u)
<1>1. u \in Nat \ {0} /\ 2 * u \in Nat \ {0} /\ a \in Int /\ b \in Int
  BY PartsFact
<1>2. p \in Int /\ (2 * u) * p <= a /\ a < (2 * u) * p + 2 * u
  BY <1>1, DivFacts
<1>3. q \in Int /\ (2 * u) * q <= b /\ b < (2 * u) * q + 2 * u
  BY <1>1, DivFacts
<1>4. Factory!Iround(y) = IF y >= 0 THEN p ELSE -q
  BY DEF Factory!Iround
<1> HIDE DEF p, q
<1>5. (2 * u) * p = 2 * (u * p) /\ (2 * u) * q = 2 * (u * q) /\ u * (-q) = -(u * q)
      /\ u * p \in Int /\ u * q \in Int
  BY <1>1, <1>2, <1>3
<1>6. CASE y >= 0
  <2>1. p >= 0
    <3> SUFFICES ASSUME p < 0 PROVE FALSE
      BY <1>2
    <3>1. u * p + u <= u * 0
      BY <1>1, <1>2, TimesLess
    <3> QED BY <1>1, <1>2, <1>5, <1>6, <3>1
  <2>2. 2 * y < 2 * (u * p) + u /\ 2 * (u * p) - u <= 2 * y
    BY <1>1, <1>2, <1>5
  <2> QED BY <1>1, <1>2, <1>4, <1>5, <1>6, <2>1, <2>2 DEF Nearest
<1>7. CASE y < 0
  <2>1. q >= 0
    <3> SUFFICES ASSUME q < 0 PROVE FALSE
      BY <1>3
    <3>1. u * q + u <= u * 0
      BY <1>1, <1>3, TimesLess
    <3> QED BY <1>1, <1>3, <1>5, <1>7, <3>1
  <2>2. 2 * y <= 2 * (u * (-q)) + u /\ 2 * (u * (-q)) - u <= 2 * y
    BY <1>1, <1>3, <1>5
  <2>3. Factory!Iround(y) = -q
    BY <1>4, <1>7
  <2>4. -q \in Int /\ -q <= 0
    BY <1>3, <2>1
  <2> QED BY <1>1, <1>7, <2>2, <2>3, <2>4 DEF Nearest
<1> QED BY <1>6, <1>7

(* A whole number is the nearest one if it is less than half away.         *)
LEMMA IroundIs ==
  ASSUME NEW y \in Nat, NEW r \in Int,
         2 * (EventParts * r) - EventParts <= 2 * y,
         2 * y < 2 * (EventParts * r) + EventParts
  PROVE  Factory!Iround(y) = r
<1> DEFINE u == EventParts
           i == Factory!Iround(y)
<1>1. u \in Nat \ {0} /\ i \in Int
  BY PartsFact, IroundFacts
<1>2. 2 * (u * i) - u <= 2 * y /\ 2 * y < 2 * (u * i) + u
  BY IroundFacts DEF Nearest
<1> HIDE DEF i
<1>3. u * i \in Int /\ u * r \in Int
  BY <1>1
<1>4. ~(i < r)
  <2> SUFFICES ASSUME i < r PROVE FALSE
    OBVIOUS
  <2>1. u * i + u <= u * r
    BY <1>1, TimesLess
  <2> QED BY <1>1, <1>2, <1>3, <2>1
<1>5. ~(r < i)
  <2> SUFFICES ASSUME r < i PROVE FALSE
    OBVIOUS
  <2>1. u * r + u <= u * i
    BY <1>1, TimesLess
  <2> QED BY <1>1, <1>2, <1>3, <2>1
<1>6. i = r
  BY <1>1, <1>4, <1>5
<1> QED BY <1>6 DEF i

(* What is carried to the next yield leaves at most half an event, and the *)
(* next sample has just as many events more; its part of the proto data,   *)
(* which is cut before, has enough entries all the same.                   *)
LEMMA CarryFacts ==
  ASSUME NEW lost \in Int, 2 * lost <= EventParts, -EventParts <= 2 * lost,
         NEW d \in Nat, NEW c, NEW left,
         left = lost + d - EventParts * Factory!Iround(d),
         c = Factory!Carried(left)
  PROVE  /\ left \in Int /\ c \in Int
         /\ 2 * (left - EventParts * c) <= EventParts
         /\ -EventParts <= 2 * (left - EventParts * c)
         /\ Rounded(d + EventParts * c) = Factory!Iround(d) + c
         /\ Rounded(d + EventParts * c) <= Factory!SliceSize(d)
<1> DEFINE u == EventParts
           r == Factory!Iround(d)
           s == Factory!SliceSize(d)
<1>1. u \in Nat \ {0} /\ r \in Int /\ u * r \in Int
  BY PartsFact, IroundFacts
<1>2. r >= 0 /\ 2 * (u * r) - u <= 2 * d /\ 2 * d < 2 * (u * r) + u
  BY IroundFacts DEF Nearest
<1>3. left = lost + d - u * r
  OBVIOUS
<1>4. /\ s \in Int /\ s >= 0
      /\ d > 0 => 21 * d + 20 * u - 1 < 20 * (u * s) + 20 * u
  <2> DEFINE a == 21 * d + 20 * u - 1
             q == a \div (20 * u)
  <2>1. a \in Nat
    BY <1>1
  <2>2. s = IF d <= 0 THEN 0 ELSE q
    BY DEF Factory!SliceSize
  <2> HIDE DEF a
  <2>3. q \in Nat /\ a < 20 * (u * q) + 20 * u
    BY <1>1, <2>1, TwentiethFacts
  <2> HIDE DEF q, s
  <2> QED BY <2>2, <2>3 DEF a
<1> HIDE DEF s
<1>5. ASSUME NEW n \in Nat, n >= 1, d > 0, 20 * (u * n) <= 21 * d + 20 * u - 1
      PROVE  n <= s
  <2> SUFFICES ASSUME s < n PROVE FALSE
    BY <1>4
  <2>1. u * s + u <= u * n /\ u * s \in Int /\ u * n \in Int
    BY <1>1, <1>4, TimesLess
  <2> QED BY <1>1, <1>4, <1>5, <2>1
<1>6. left \in Int /\ -(2 * u) <= 2 * left /\ 2 * left < 2 * u
  BY <1>1, <1>2, <1>3
<1> DEFINE i == Factory!Iround(left)
<1>7. /\ i \in Int
      /\ left >= 0 => i >= 0 /\ 2 * (u * i) - u <= 2 * left /\ 2 * left < 2 * (u * i) + u
      /\ left < 0 => i <= 0 /\ 2 * (u * i) - u <= 2 * left /\ 2 * left <= 2 * (u * i) + u
  BY <1>6, IroundFacts DEF Nearest
<1>8. c = IF 2 * left = u \/ 2 * left = -u THEN 0 ELSE i
  BY <1>1 DEF Factory!Carried
<1> HIDE DEF i, r
<1>9. u * i \in Int
  BY <1>1, <1>7
<1>10. i \in {-1, 0, 1}
  <2>1. ~(i > 1)
    <3> SUFFICES ASSUME i > 1 PROVE FALSE
      OBVIOUS
    <3>1. u * 1 + u <= u * i
      BY <1>1, <1>7, TimesLess
    <3> QED BY <1>1, <1>6, <1>7, <1>9, <3>1
  <2>2. ~(i < -1)
    <3> SUFFICES ASSUME i < -1 PROVE FALSE
      OBVIOUS
    <3>1. u * i + u <= u * (-1) /\ u * (-1) = -u
      BY <1>1, <1>7, TimesLess
    <3> QED BY <1>1, <1>6, <1>7, <1>9, <3>1
  <2> QED BY <1>7, <2>1, <2>2
<1>11. \/ c = 0 /\ 2 * left <= u /\ -u <= 2 * left
       \/ c = 1 /\ 2 * left > u
       \/ c = -1 /\ 2 * left < -u
  <2>1. CASE i = 0
    <3>1. u * i = 0
      BY <1>1, <2>1
    <3> QED BY <1>1, <1>6, <1>7, <1>8, <2>1, <3>1
  <2>2. CASE i = 1
    <3>1. u * i = u
      BY <1>1, <2>2
    <3> QED BY <1>1, <1>6, <1>7, <1>8, <2>2, <3>1
  <2>3. CASE i = -1
    <3>1. u * i = -u
      BY <1>1, <2>3
    <3> QED BY <1>1, <1>6, <1>7, <1>8, <2>3, <3>1
  <2> QED BY <1>10, <2>1, <2>2, <2>3
<1>12. CASE c = 0
  <2>1. u * c = 0 /\ 2 * left <= u /\ -u <= 2 * left
    BY <1>1, <1>11, <1>12
  <2>2. Rounded(d + u * c) = r
    <3>1. d + u * c = d
      BY <2>1
    <3> QED BY <1>1, <1>2, <3>1 DEF Rounded, r
  <2>3. r <= s
    <3>1. CASE d = 0
      <4>1. r = 0
        <5> SUFFICES ASSUME r > 0 PROVE FALSE
          BY <1>1, <1>2
        <5>1. u * 0 + u <= u * r
          BY <1>1, TimesLess
        <5> QED BY <1>1, <1>2, <3>1, <5>1
      <4> QED BY <1>4, <4>1
    <3>2. CASE d > 0 /\ r >= 1
      <4>1. 20 * (u * r) <= 21 * d + 20 * u - 1
        BY <1>1, <1>2, <3>2
      <4> QED BY <1>1, <1>5, <3>2, <4>1
    <3>3. CASE r = 0
      BY <1>4, <3>3
    <3> QED BY <1>1, <1>2, <3>1, <3>2, <3>3
  <2>4. r + c = r /\ left - u * c = left
    BY <1>1, <1>6, <1>12, <2>1
  <2> QED BY <1>6, <1>12, <2>1, <2>2, <2>3, <2>4 DEF r, s
<1>13. CASE c = 1
  <2>1. u * c = u /\ 2 * left > u
    BY <1>1, <1>11, <1>13
  <2>2. u * (r + 1) = u * r + u /\ d + u \in Nat /\ r + 1 \in Nat /\ r + 1 >= 1
    BY <1>1, <1>2
  <2>3. d > u * r
    BY <1>1, <1>3, <2>1
  <2>4. Factory!Iround(d + u) = r + 1
    <3>1. 2 * (u * (r + 1)) - u <= 2 * (d + u) /\ 2 * (d + u) < 2 * (u * (r + 1)) + u
      BY <1>1, <1>2, <2>2
    <3> QED BY <1>1, <2>2, <3>1, IroundIs
  <2>5. Rounded(d + u * c) = r + 1
    BY <1>1, <1>2, <2>1, <2>4 DEF Rounded
  <2>6. r + 1 <= s
    <3>1. d > 0 /\ 20 * (u * (r + 1)) <= 21 * d + 20 * u - 1
      <4>1. u * r >= 0
        BY <1>1, <1>2
      <4> QED BY <1>1, <2>2, <2>3, <4>1
    <3> QED BY <1>5, <2>2, <3>1
  <2>7. 2 * (left - u * c) <= u /\ -u <= 2 * (left - u * c)
    BY <1>1, <1>6, <2>1
  <2>8. r + c = r + 1
    BY <1>13
  <2> QED BY <1>6, <1>13, <2>5, <2>6, <2>7, <2>8 DEF r, s
<1>14. CASE c = -1
  <2>1. u * c = -u /\ 2 * left < -u
    BY <1>1, <1>11, <1>14
  <2>2. d < u * r
    BY <1>1, <1>3, <2>1
  <2>3. r >= 1
    <3> SUFFICES ASSUME r = 0 PROVE FALSE
      BY <1>1, <1>2
    <3>1. u * r = 0
      BY <1>1
    <3> QED BY <2>2, <3>1
  <2>4. u * (r - 1) = u * r - u /\ d - u \in Int /\ r - 1 \in Nat
    BY <1>1, <2>3
  <2>5. Rounded(d - u) = r - 1
    <3>1. CASE d - u >= 0
      <4>1. 2 * (u * (r - 1)) - u <= 2 * (d - u) /\ 2 * (d - u) < 2 * (u * (r - 1)) + u
        BY <1>1, <1>2, <2>4
      <4>2. Factory!Iround(d - u) = r - 1
        BY <1>1, <2>4, <3>1, <4>1, IroundIs
      <4> QED BY <2>4, <4>2 DEF Rounded
    <3>2. CASE d - u < 0
      <4>1. Rounded(d - u) = 0
        BY <2>4, <3>2, IroundFacts DEF Rounded
      <4>2. r = 1
        <5> SUFFICES ASSUME r > 1 PROVE FALSE
          BY <1>1, <2>3
        <5>1. u * 1 + u <= u * r
          BY <1>1, TimesLess
        <5> QED BY <1>1, <1>2, <3>2, <5>1
      <4> QED BY <4>1, <4>2
    <3> QED BY <2>4, <3>1, <3>2
  <2>6. r - 1 <= s
    <3>1. CASE r = 1
      BY <1>4, <3>1
    <3>2. CASE r > 1
      <4>1. u * 1 + u <= u * r
        BY <1>1, <3>2, TimesLess
      <4>2. d > 0 /\ 20 * (u * (r - 1)) <= 21 * d + 20 * u - 1
        BY <1>1, <1>2, <2>4, <4>1
      <4>3. r - 1 >= 1
        BY <1>1, <3>2
      <4> QED BY <1>5, <2>4, <4>2, <4>3
    <3> QED BY <1>1, <2>3, <3>1, <3>2
  <2>7. d + u * c = d - u /\ r + c = r - 1
    BY <1>1, <1>14, <2>1
  <2>8. 2 * (left - u * c) <= u /\ -u <= 2 * (left - u * c)
    BY <1>1, <1>6, <2>1
  <2>9. Rounded(d + u * c) = r + c /\ Rounded(d + u * c) <= s
    BY <2>5, <2>6, <2>7
  <2> QED BY <1>6, <1>14, <2>8, <2>9 DEF r, s
<1> QED BY <1>11, <1>12, <1>13, <1>14

-----------------------------------------------------------------------------
(* A size that matches a yield to the nearest whole event.                 *)
Matches(n, y) ==
  /\ 2 * (EventParts * n - y) <= EventParts
  /\ 2 * (y - EventParts * n) <= EventParts

LEMMA RoundedMatches ==
  ASSUME NEW y \in Int, y > 0
  PROVE  Matches(Rounded(y), y)
<1>1. Factory!Iround(y) \in Int /\ Factory!Iround(y) >= 0 /\ Nearest(Factory!Iround(y), y)
  BY IroundFacts
<1>2. Rounded(y) = Factory!Iround(y)
  BY <1>1 DEF Rounded
<1>3. EventParts * Factory!Iround(y) \in Int /\ EventParts \in Nat
  BY <1>1, PartsFact
<1> QED BY <1>1, <1>2, <1>3 DEF Matches, Nearest

LEMMA RoundedIsNat ==
  ASSUME NEW y \in Int
  PROVE  Rounded(y) \in Nat
BY IroundFacts DEF Rounded

(* Two sizes that match the same yield differ for half events only.        *)
LEMMA TwoSizes ==
  ASSUME NEW y \in Nat, NEW n \in Nat, NEW m \in Nat, n # m,
         Matches(n, y), Matches(m, y)
  PROVE  Factory!HalfEvents(y)
<1> DEFINE u == EventParts
<1>0. u \in Nat \ {0}
  BY PartsFact
<1>1. ASSUME NEW a \in Nat, NEW b \in Nat, a < b, Matches(a, y), Matches(b, y)
      PROVE  2 * y = 2 * (u * a) + u
  <2>1. u * a + u <= u * b /\ u * a \in Int /\ u * b \in Int
    BY <1>0, <1>1, TimesLess
  <2> QED BY <1>0, <1>1, <2>1 DEF Matches
<1>2. PICK a \in Nat : 2 * y = 2 * (u * a) + u
  <2>1. n < m \/ m < n
    OBVIOUS
  <2> QED BY <1>1, <2>1
<1>3. (2 * y) % (2 * u) = u
  <2>1. 2 * y = (2 * u) * a + u /\ 2 * u \in Nat \ {0} /\ u < 2 * u
    BY <1>0, <1>2
  <2>2. ASSUME NEW b \in Nat \ {0}, NEW t \in Nat, t < b, NEW k \in Nat
        PROVE  (b * k + t) % b = t
    BY <2>2
  <2> QED BY <1>0, <2>1, <2>2
<1> QED BY <1>3 DEF Factory!HalfEvents

LEMMA SqrtIsNat ==
  ASSUME NEW n \in Nat
  PROVE  Factory!Sqrt(n) \in Nat
<1> DEFINE Root(m, r) == r * r <= m /\ (r + 1) * (r + 1) > m
           T == {m \in Nat : \E r \in 0..m : Root(m, r)}
<1>1. 0 \in T
  BY DEF T
<1>2. ASSUME NEW m \in Nat, m \in T
      PROVE  m + 1 \in T
  <2>1. PICK r \in 0..m : Root(m, r)
    BY <1>2
  <2>2. r \in Nat /\ r * r \in Nat /\ (r + 1) * (r + 1) = r * r + 2 * r + 1
        /\ ((r + 1) + 1) * ((r + 1) + 1) = r * r + 4 * r + 4
    BY <2>1
  <2>3. CASE (r + 1) * (r + 1) > m + 1
    <3>1. r \in 0..(m + 1) /\ Root(m + 1, r)
      BY <2>1, <2>2, <2>3
    <3> HIDE DEF Root
    <3> QED BY <3>1
  <2>4. CASE (r + 1) * (r + 1) <= m + 1
    <3>1. r + 1 \in 0..(m + 1) /\ Root(m + 1, r + 1)
      BY <2>1, <2>2, <2>4
    <3> HIDE DEF Root
    <3> QED BY <3>1
  <2> QED BY <2>2, <2>3, <2>4
<1> HIDE DEF T
<1>3. n \in T
  BY <1>1, <1>2, Facts!NatSetInduction
<1>4. \E r \in 0..n : r * r <= n /\ (r + 1) * (r + 1) > n
  BY <1>3 DEF T
<1>5. Factory!Sqrt(n) \in 0..n
  BY ONLY <1>4, Zenon DEF Factory!Sqrt
<1> QED BY <1>5

(* Proto data for a whole yield are more than enough for it.               *)
Ample(proto, y) == 21 * y + 40 * EventParts <= 20 * (EventParts * proto)

LEMMA ProtoIsAmple ==
  ASSUME NEW y \in Nat
  PROVE  Factory!ProtoSize(y) \in Nat /\ Ample(Factory!ProtoSize(y), y)
<1> DEFINE u == EventParts
           s == Factory!Sqrt(y * u)
           a == 21 * (y + 10 * s)
           q == a \div (20 * u)
<1>1. u \in Nat \ {0}
  BY PartsFact
<1>2. s \in Nat
  BY <1>1, SqrtIsNat
<1>3. Factory!ProtoSize(y) = q + 100
  BY DEF Factory!ProtoSize
<1> HIDE DEF s
<1>4. a \in Nat /\ 21 * y <= a
  BY <1>2
<1> HIDE DEF a
<1>5. q \in Nat /\ a < 20 * (u * q) + 20 * u
  BY <1>1, <1>4, TwentiethFacts
<1> HIDE DEF q
<1>6. u * q \in Nat /\ u * (q + 100) = u * q + 100 * u
  BY <1>1, <1>5
<1>7. 21 * y + 40 * u <= 20 * (u * (q + 100))
  BY <1>1, <1>4, <1>5, <1>6
<1> QED BY <1>3, <1>5, <1>7 DEF Ample

LEMMA AmpleSuffices ==
  ASSUME NEW y \in Nat, NEW proto \in Int, Ample(proto, y)
  PROVE  Rounded(y) <= proto
<1> DEFINE u == EventParts
           r == Factory!Iround(y)
<1>1. u \in Nat \ {0} /\ r \in Int /\ r >= 0 /\ 2 * (u * r) - u <= 2 * y
  BY PartsFact, IroundFacts DEF Nearest
<1>2. Rounded(y) = r
  BY <1>1 DEF Rounded
<1> HIDE DEF r
<1> SUFFICES ASSUME proto < r PROVE FALSE
  BY <1>1, <1>2
<1>3. u * proto + u <= u * r /\ u * proto \in Int /\ u * r \in Int
  BY <1>1, TimesLess
<1> QED BY <1>1, <1>3 DEF Ample

(* The slice of a part of the yield lies within such proto data.           *)
LEMMA SliceFits ==
  ASSUME NEW y \in Nat, NEW proto \in Int, Ample(proto, y),
         NEW p \in Nat, NEW before \in Nat, NEW d \in Nat,
         EventParts * p <= before, before + d <= y
  PROVE  /\ Factory!SliceSize(d) \in Nat
         /\ Factory!SliceSize(d) > 0 => p + Factory!SliceSize(d) <= proto
         /\ Factory!Truncate(EventParts * p + d) \in Nat
         /\ EventParts * Factory!Truncate(EventParts * p + d) <= before + d
<1> DEFINE u == EventParts
           s == Factory!SliceSize(d)
           t == Factory!Truncate(u * p + d)
           a == 21 * d + 20 * u - 1
           q == a \div (20 * u)
           b == u * p + d
           k == b \div u
<1>1. u \in Nat \ {0} /\ a \in Nat /\ u * p \in Nat /\ b \in Nat
  BY PartsFact
<1>2. s = (IF d <= 0 THEN 0 ELSE q) /\ t = k
  BY <1>1 DEF Factory!SliceSize, Factory!Truncate
<1> HIDE DEF a, b
<1>3. q \in Nat /\ 20 * (u * q) <= a
  BY <1>1, TwentiethFacts
<1>4. k \in Nat /\ u * k <= b
  BY <1>1
<1> HIDE DEF s, t, q, k
<1>5. u * q \in Nat /\ u * k \in Nat
  BY <1>1, <1>3, <1>4
<1>6. p + q <= proto
  <2> SUFFICES ASSUME proto < p + q PROVE FALSE
    BY <1>3
  <2>1. u * proto + u <= u * (p + q) /\ u * proto \in Int
    BY <1>1, <1>3, TimesLess
  <2>2. u * (p + q) = u * p + u * q
    BY <1>1, <1>3
  <2> QED BY <1>1, <1>3, <1>5, <2>1, <2>2 DEF Ample, a
<1>7. u * k <= before + d
  BY <1>1, <1>4, <1>5 DEF b
<1> QED BY <1>2, <1>3, <1>4, <1>6, <1>7 DEF s, t, b


-----------------------------------------------------------------------------
(* Trees of PDFs whose sums are of PDFs that round their yield themselves: *)
(* those in P, leaves and products of such.                                *)
FixedSizes == UNION {{asked.yield : asked \in Yields[p]} : p \in DOMAIN Kind}

SubsOf(p) == {Subs[p][i] : i \in DOMAIN Subs[p]}

(* The part of a positive yield that a sum asks of its sub PDF i.          *)
Share(p, i, y) ==
  IF Coefs[p] = <<>> THEN (ExpectedEvents[Subs[p][i]] * y) \div ExpectedEvents[p]
  ELSE IF Len(Coefs[p]) = Len(Subs[p]) THEN Coefs[p][i]
  ELSE IF i <= Len(Coefs[p]) THEN (Coefs[p][i] * y) \div EventParts
  ELSE ((EventParts - Factory!SumOf(Coefs[p])) * y) \div EventParts

(* The shares so far, if they make up the yield.                           *)
IsPartial(p, y, partial) ==
  /\ partial \in [0..Len(Subs[p]) -> 0..y]
  /\ partial[0] = 0 /\ partial[Len(Subs[p])] = y
  /\ \A i \in 1..Len(Subs[p]) :
       Share(p, i, y) \in Nat /\ partial[i] = partial[i - 1] + Share(p, i, y)

Partial(p, y) == CHOOSE partial : IsPartial(p, y, partial)

(* What is asked for has a fixed size; a sum divides it among PDFs that    *)
(* are in P; a simultaneous PDF, each of whose categories gets all of it,  *)
(* is no factor and is not extended; and proto sections are not for PDFs   *)
(* in P, whose yield may be nothing.                                       *)
SumsOfWholes(P) ==
  /\ P \subseteq DOMAIN Kind \ WithProto
  /\ \A p \in P :
       Kind[p] = "leaf" \/ (Kind[p] = "product" /\ SubsOf(p) \subseteq P)
  /\ \A p \in DOMAIN Kind :
       /\ \A asked \in Yields[p] : asked.yield > 0 /\ ~asked.extended
       /\ Kind[p] # "leaf" => Subs[p] # <<>>
       /\ Kind[p] = "extend" => Len(Subs[p]) = 1
       /\ Kind[p] \in {"extend", "product"} =>
            \A sub \in SubsOf(p) : Kind[sub] # "simultaneous"
       /\ Kind[p] = "add" =>
            /\ SubsOf(p) \subseteq P
            /\ \A y \in FixedSizes : \E partial : IsPartial(p, y, partial)

LEMMA ExactDivision ==
  ASSUME NEW u \in Nat \ {0}, NEW e \in Nat
  PROVE  (u * e) \div u = e
<1> DEFINE a == u * e
           q == a \div u
<1>1. a \in Nat
  OBVIOUS
<1> HIDE DEF a
<1>2. q \in Int /\ u * q <= a /\ a < u * q + u /\ u * q \in Int
  BY <1>1, DivFacts
<1> HIDE DEF q
<1>3. q < e => u * q + u <= a
  BY <1>2, TimesLess DEF a
<1>4. e < q => a + u <= u * q
  BY <1>2, TimesLess DEF a
<1>5. q = e
  BY <1>1, <1>2, <1>3, <1>4
<1> QED BY <1>5 DEF q, a

(* The sums that SumOf adds up.                                            *)
SumsOf(s, sum, i) == IF i = 0 THEN 0 ELSE sum[i - 1] + s[i]

Summing == INSTANCE FoldFacts WITH op <- SumsOf

IsSum(s, sum) ==
  /\ Factory!SumOf(s) = sum[Len(s)]
  /\ \A i \in 0..Len(s) : sum[i] = SumsOf(s, sum, i)

ExactSums(y, s, sum) ==
  \A k \in 0..Len(s) :
    /\ sum[k] \in Nat /\ sum[k] <= sum[Len(s)]
    /\ \E e \in Nat : sum[k] * y = EventParts * e

LEMMA SumIsRecursive ==
  ASSUME NEW s \in Seq(Nat)
  PROVE  \E sum : IsSum(s, sum)
<1> DEFINE D == 0..Len(s)
           m == [i \in D |-> i]
           sum == CHOOSE g : g = [i \in D |-> SumsOf(s, g, i)]
<1>1. m \in [D -> Nat]
  OBVIOUS
<1>2. Summing!GoesDown(s, D, m)
  <2> SUFFICES ASSUME NEW i \in D, NEW g, NEW h,
                      \A j \in D : m[j] < m[i] => g[j] = h[j]
               PROVE  SumsOf(s, g, i) = SumsOf(s, h, i)
    BY DEF Summing!GoesDown
  <2>1. i # 0 => i - 1 \in D /\ m[i - 1] < m[i]
    OBVIOUS
  <2> QED BY <2>1 DEF SumsOf
<1>3. Factory!SumOf(s) = sum[Len(s)]
  BY DEF Factory!SumOf, SumsOf
<1> HIDE DEF m, D
<1>4. sum = [i \in D |-> SumsOf(s, sum, i)]
  <2> DEFINE f == sum
  <2>1. f = CHOOSE g : g = [i \in D |-> SumsOf(s, g, i)]
    OBVIOUS
  <2> HIDE DEF f
  <2>2. f = [i \in D |-> SumsOf(s, f, i)]
    BY <1>1, <1>2, <2>1, Summing!RecursionByMeasure
  <2> QED BY <2>2 DEF f
<1> HIDE DEF sum
<1>5. \A i \in D : sum[i] = SumsOf(s, sum, i)
  BY <1>4
<1>6. IsSum(s, sum)
  BY <1>3, <1>5 DEF IsSum, D
<1> QED BY <1>6

(* Part k of a yield: the parts are exact, and they never exceed it.       *)
LEMMA SumsAreExact ==
  ASSUME NEW y \in Nat, NEW s \in Seq(Nat), NEW sum, IsSum(s, sum),
         \A i \in DOMAIN s : (s[i] * y) % EventParts = 0
  PROVE  ExactSums(y, s, sum)
<1> DEFINE u == EventParts
           n == Len(s)
<1>0. u \in Nat \ {0} /\ n \in Nat
  BY PartsFact
<1>1. \A i \in 1..n : \E e \in Nat : s[i] * y = u * e
  <2> SUFFICES ASSUME NEW i \in 1..n PROVE \E e \in Nat : s[i] * y = u * e
    OBVIOUS
  <2>1. i \in DOMAIN s /\ s[i] \in Nat
    OBVIOUS
  <2> DEFINE a == s[i] * y
  <2>2. a \in Nat /\ a % u = 0
    BY <2>1
  <2> HIDE DEF a
  <2>3. a = u * (a \div u) /\ a \div u \in Nat
    BY <1>0, <2>2
  <2> QED BY <2>3 DEF a
<1> DEFINE T == {k \in Nat : k <= n => sum[k] \in Nat
                                      /\ \E e \in Nat : sum[k] * y = u * e}
<1>2. 0 \in T
  <2>1. sum[0] = 0
    BY <1>0 DEF IsSum, SumsOf
  <2>2. sum[0] * y = u * 0
    BY <1>0, <2>1
  <2> QED BY <2>1, <2>2
<1>3. ASSUME NEW k \in Nat, k \in T PROVE k + 1 \in T
  <2> SUFFICES ASSUME k + 1 <= n
               PROVE  sum[k + 1] \in Nat /\ \E e \in Nat : sum[k + 1] * y = u * e
    OBVIOUS
  <2>1. k <= n /\ k + 1 \in 1..n /\ (k + 1) - 1 = k /\ k + 1 \in 0..n /\ k + 1 # 0
    BY <1>0
  <2>2. PICK d \in Nat : sum[k] \in Nat /\ sum[k] * y = u * d
    BY <1>3, <2>1
  <2>3. PICK e \in Nat : s[k + 1] * y = u * e
    BY <1>1, <2>1
  <2>4. sum[k + 1] = sum[k] + s[k + 1] /\ s[k + 1] \in Nat
    BY <2>1 DEF IsSum, SumsOf
  <2>5. ASSUME NEW a \in Nat, NEW b \in Nat, a * y = u * d, b * y = u * e
        PROVE  (a + b) * y = u * (d + e)
    BY <1>0, <2>5
  <2>6. sum[k + 1] * y = u * (d + e)
    BY <2>2, <2>3, <2>4, <2>5
  <2> QED BY <2>2, <2>4, <2>6
<1> HIDE DEF T
<1>4. \A k \in Nat : k \in T
  BY <1>2, <1>3, Summing!NatSetInduction
<1> DEFINE R == {k \in Nat : k <= n => sum[n - k] <= sum[n]}
<1>5. 0 \in R
  <2>1. n \in T
    BY <1>0, <1>4
  <2> QED BY <1>0, <2>1 DEF T
<1>6. ASSUME NEW k \in Nat, k \in R PROVE k + 1 \in R
  <2> SUFFICES ASSUME k + 1 <= n PROVE sum[n - (k + 1)] <= sum[n]
    OBVIOUS
  <2> DEFINE i == n - k
  <2>1. i \in 1..n /\ i \in 0..n /\ i - 1 \in Nat /\ i - 1 <= n /\ i # 0 /\ k <= n
        /\ n - (k + 1) = i - 1
    BY <1>0
  <2>2. sum[i] <= sum[n]
    BY <1>6, <2>1
  <2> HIDE DEF i
  <2>3. i - 1 \in T /\ i \in T /\ n \in T
    <3>1. i - 1 \in Nat /\ i \in Nat /\ n \in Nat
      BY <1>0, <2>1
    <3> QED BY <1>4, <3>1
  <2>4. sum[i - 1] \in Nat /\ sum[i] \in Nat /\ sum[n] \in Nat
    BY <1>0, <2>1, <2>3 DEF T
  <2>5. sum[i] = sum[i - 1] + s[i] /\ s[i] \in Nat
    <3>1. s[i] \in Nat
      BY <2>1
    <3> QED BY <2>1, <3>1 DEF IsSum, SumsOf
  <2>6. sum[i - 1] <= sum[n]
    BY ONLY <2>2, <2>4, <2>5
  <2> QED BY ONLY <2>1, <2>6
<1> HIDE DEF R
<1>7. \A k \in Nat : k \in R
  BY <1>5, <1>6, Summing!NatSetInduction
<1> SUFFICES ASSUME NEW k \in 0..n
             PROVE  /\ sum[k] \in Nat /\ sum[k] <= sum[n]
                    /\ \E e \in Nat : sum[k] * y = u * e
  BY DEF ExactSums
<1>8. n - k \in R /\ n - k \in Nat /\ n - k <= n /\ n - (n - k) = k
  BY <1>0, <1>7
<1>9. sum[k] <= sum[n]
  BY <1>8 DEF R
<1>10. k \in Nat /\ k <= n /\ k \in T
  BY <1>0, <1>4
<1> QED BY <1>9, <1>10 DEF T

(* A sum by fractions of a yield that each of them divides into whole      *)
(* parts makes up the yield: the last sub PDF gets what is left.           *)
LEMMA FractionsAddUp ==
  ASSUME NEW p \in DOMAIN Kind, NEW y \in Nat,
         Coefs[p] \in Seq(Nat), Coefs[p] # <<>>, Subs[p] \in Seq(DOMAIN Kind),
         Len(Subs[p]) = Len(Coefs[p]) + 1,
         Factory!SumOf(Coefs[p]) <= EventParts,
         \A i \in DOMAIN Coefs[p] : (Coefs[p][i] * y) % EventParts = 0
  PROVE  \E partial : IsPartial(p, y, partial)
<1> DEFINE u == EventParts
           s == Coefs[p]
           n == Len(s)
           N == Len(Subs[p])
<1>0. u \in Nat \ {0} /\ n \in Nat /\ N = n + 1 /\ s \in Seq(Nat)
      /\ s # <<>> /\ Len(s) # N
  BY PartsFact
<1>1. PICK sum : IsSum(s, sum)
  BY <1>0, SumIsRecursive
<1>2. \A k \in 0..n : /\ sum[k] \in Nat /\ sum[k] <= sum[n]
                      /\ \E e \in Nat : sum[k] * y = u * e
  <2>1. \A i \in DOMAIN s : (s[i] * y) % u = 0
    OBVIOUS
  <2> HIDE DEF s
  <2>2. s \in Seq(Nat)
    BY <1>0
  <2>3. ExactSums(y, s, sum)
    BY <1>1, <2>1, <2>2, SumsAreExact
  <2> QED BY <2>3 DEF ExactSums
<1>3. sum[0] = 0 /\ sum[n] = Factory!SumOf(s) /\ sum[n] <= u
      /\ \A i \in 1..n : s[i] \in Nat /\ sum[i] = sum[i - 1] + s[i]
  <2>1. 0 \in 0..n /\ \A i \in 1..n : i \in 0..n /\ i # 0 /\ s[i] \in Nat
    BY <1>0
  <2> QED BY <1>1, <2>1 DEF IsSum, SumsOf
<1> DEFINE portion(k) == (sum[k] * y) \div u
<1>4. \A k \in 0..n : portion(k) \in 0..y /\ sum[k] * y = u * portion(k)
  <2> SUFFICES ASSUME NEW k \in 0..n
               PROVE  portion(k) \in 0..y /\ sum[k] * y = u * portion(k)
    OBVIOUS
  <2>1. PICK e \in Nat : sum[k] * y = u * e
    BY <1>2
  <2>2. sum[k] \in Nat /\ sum[k] <= u
    <3>1. sum[k] \in Nat /\ sum[k] <= sum[n] /\ sum[n] \in Nat
      BY <1>0, <1>2
    <3> QED BY <1>0, <1>3, <3>1
  <2>3. (u * e) \div u = e
    BY <1>0, ExactDivision
  <2>4. portion(k) = e
    BY <2>1, <2>3
  <2>5. e <= y
    <3>1. ASSUME NEW a \in Nat, NEW b \in Nat, a <= b PROVE a * y <= b * y
      BY <3>1
    <3>2. u * e <= u * y
      BY <1>0, <2>1, <2>2, <3>1
    <3> SUFFICES ASSUME y < e PROVE FALSE
      OBVIOUS
    <3>3. u * y + u <= u * e /\ u * y \in Int /\ u * e \in Int
      BY <1>0, TimesLess
    <3> QED BY <1>0, <3>2, <3>3
  <2> QED BY <2>1, <2>4, <2>5
<1> HIDE DEF portion
<1> DEFINE partial == [k \in 0..N |-> IF k = N THEN y ELSE portion(k)]
<1>5. partial \in [0..N -> 0..y]
  BY <1>0, <1>4
<1>6. partial[0] = 0 /\ partial[N] = y
  <2>1. 0 \in 0..n /\ 0 \in 0..N /\ N \in 0..N /\ 0 # N
    BY <1>0
  <2>2. portion(0) = 0
    <3>1. portion(0) \in Nat /\ 0 * y = u * portion(0)
      BY <1>3, <1>4, <2>1
    <3>2. ASSUME NEW e \in Nat, u * e = 0 PROVE e = 0
      <4> SUFFICES ASSUME e > 0 PROVE FALSE
        OBVIOUS
      <4>1. u * 0 + u <= u * e
        BY <1>0, TimesLess
      <4> QED BY <1>0, <3>2, <4>1
    <3> QED BY <3>1, <3>2
  <2> QED BY <2>1, <2>2
<1>7. ASSUME NEW i \in 1..N
      PROVE  Share(p, i, y) \in Nat /\ partial[i] = partial[i - 1] + Share(p, i, y)
  <2>1. CASE i <= n
    <3>1. i \in 1..n /\ i \in 0..n /\ i - 1 \in 0..n /\ i # N /\ i - 1 # N
          /\ i \in 0..N /\ i - 1 \in 0..N
      BY <1>0, <2>1
    <3>2. Share(p, i, y) = (s[i] * y) \div u
      BY <1>0, <2>1 DEF Share
    <3>3. partial[i] = portion(i) /\ partial[i - 1] = portion(i - 1)
      BY <3>1
    <3>4. /\ portion(i) \in Nat /\ portion(i - 1) \in Nat
          /\ sum[i] * y = u * portion(i) /\ sum[i - 1] * y = u * portion(i - 1)
          /\ s[i] \in Nat /\ sum[i - 1] \in Nat /\ sum[i] = sum[i - 1] + s[i]
      BY <1>2, <1>3, <1>4, <3>1
    <3>5. ASSUME NEW a \in Nat, NEW c \in Nat, NEW d \in Nat, NEW e \in Nat,
                 (a + c) * y = u * e, a * y = u * d
          PROVE  (c * y) \div u = e - d /\ e - d \in Nat
      <4>1. c * y = u * (e - d)
        <5>1. (a + c) * y = a * y + c * y /\ u * (e - d) = u * e - u * d
          BY <1>0
        <5> QED BY <1>0, <3>5, <5>1
      <4>2. e - d >= 0
        <5> SUFFICES ASSUME e < d PROVE FALSE
          OBVIOUS
        <5>1. u * e + u <= u * d /\ u * d \in Int /\ u * e \in Int
          BY <1>0, TimesLess
        <5>2. c * y \in Nat /\ a * y \in Nat /\ (a + c) * y = a * y + c * y
          OBVIOUS
        <5>3. u * d <= u * e
          BY <3>5, <5>2
        <5> QED BY <1>0, <5>1, <5>3
      <4>3. e - d \in Nat /\ u * (e - d) \in Nat
        BY <1>0, <4>2
      <4>4. (u * (e - d)) \div u = e - d
        BY <1>0, <4>3, ExactDivision
      <4> QED BY <4>1, <4>3, <4>4
    <3> DEFINE c == s[i]
               a == sum[i - 1]
               e == portion(i)
               d == portion(i - 1)
    <3>6. a \in Nat /\ c \in Nat /\ d \in Nat /\ e \in Nat
          /\ (a + c) * y = u * e /\ a * y = u * d
      BY <3>4
    <3> HIDE DEF a, c, d, e
    <3>7. (c * y) \div u = e - d /\ e - d \in Nat
      BY <3>5, <3>6
    <3>8. (s[i] * y) \div u = portion(i) - portion(i - 1) /\ portion(i) - portion(i - 1) \in Nat
      BY <3>7 DEF a, c, d, e
    <3> QED BY <3>2, <3>3, <3>4, <3>8
  <2>2. CASE i > n
    <3>1. i = N /\ i - 1 = n /\ n \in 0..n /\ n \in 0..N /\ n # N /\ N \in 0..N
      BY <1>0, <2>2
    <3>2. Share(p, i, y) = ((u - sum[n]) * y) \div u
      BY <1>0, <1>3, <2>2 DEF Share
    <3>3. partial[i] = y /\ partial[i - 1] = portion(n)
      BY <3>1
    <3>4. portion(n) \in Nat /\ portion(n) <= y /\ sum[n] * y = u * portion(n) /\ sum[n] \in Nat
      BY <1>2, <1>4, <3>1
    <3>5. ASSUME NEW a \in Nat, NEW d \in Nat, a * y = u * d, d <= y
          PROVE  ((u - a) * y) \div u = y - d /\ y - d \in Nat
      <4>1. (u - a) * y = u * (y - d)
        <5>1. (u - a) * y = u * y - a * y /\ u * (y - d) = u * y - u * d
          BY <1>0
        <5> QED BY <1>0, <3>5, <5>1
      <4>2. y - d \in Nat /\ u * (y - d) \in Nat
        BY <1>0, <3>5
      <4>3. (u * (y - d)) \div u = y - d
        BY <1>0, <4>2, ExactDivision
      <4> QED BY <4>1, <4>2, <4>3
    <3>6. ((u - sum[n]) * y) \div u = y - portion(n) /\ y - portion(n) \in Nat
      BY <3>4, <3>5
    <3> QED BY <3>2, <3>3, <3>4, <3>6
  <2> QED BY <1>0, <2>1, <2>2
<1> HIDE DEF partial
<1>8. IsPartial(p, y, partial)
  BY <1>5, <1>6, <1>7 DEF IsPartial
<1> QED BY <1>8

-----------------------------------------------------------------------------
(* The sizes that calls return, and the open calls.                        *)
RightSize(P, p, y, n) ==
  /\ n \in Nat
  /\ p \in P => n = Rounded(y)
  /\ p \notin P /\ Kind[p] # "simultaneous" => Matches(n, y)

AskedRight(P, p, y) ==
  p \in DOMAIN Kind /\ y \in Int /\ (p \notin P => y \in FixedSizes)

EnoughProto(P, f) ==
  f.proto # Factory!None =>
    /\ Rounded(f.yield) <= f.proto
    /\ f.pdf \notin P => Ample(f.proto, f.yield)

(* Every open call, whether or not one of its sub PDFs is at work.         *)
GoodCall(P, f) ==
  /\ f \in Factory!Frame
  /\ ~f.extended /\ f.requested = f.yield
  /\ AskedRight(P, f.pdf, f.yield)
  /\ EnoughProto(P, f)
  /\ f.next <= Len(Subs[f.pdf])
  /\ ~f.begun => f.next = 0
  /\ f.next = 0 <=> f.data = Factory!None
  /\ Kind[f.pdf] \in {"extend", "product"} /\ f.data # Factory!None =>
       RightSize(P, f.pdf, f.yield, f.data)

EntriesOf(f) == IF f.data = Factory!None THEN 0 ELSE f.data

(* n events and what was lost by rounding make up the shares of the first  *)
(* k sub PDFs of a sum.                                                    *)
SharesUsed(f, k, n) ==
  Kind[f.pdf] = "add" =>
    /\ EventParts * n + f.lost = Partial(f.pdf, f.yield)[k]
    /\ 2 * f.lost <= EventParts /\ -EventParts <= 2 * f.lost
    /\ f.protoPos \in Nat
    /\ EventParts * f.protoPos <= Partial(f.pdf, f.yield)[k]

Innermost(f) == SharesUsed(f, f.next, EntriesOf(f))

Waiting(f, sub) ==
  /\ f.begun
  /\ Kind[f.pdf] # "leaf"
  /\ f.next < Len(Subs[f.pdf])
  /\ sub.pdf = Subs[f.pdf][f.next + 1]
  /\ Kind[f.pdf] # "add" => sub.requested = f.yield
  /\ SharesUsed(f, f.next + 1, EntriesOf(f) + Rounded(sub.requested))

GoodStack(P, s) ==
  /\ s \in Seq(Factory!Frame)
  /\ \A k \in 1..Len(s) : GoodCall(P, s[k])
  /\ \A k \in 1..Len(s) - 1 : Waiting(s[k], s[k + 1])
  /\ s # <<>> => Innermost(s[Len(s)])

SizesInv(P) ==
  /\ factoryStatus \in {"idle", "running", "done", "aborted", "merge_failed",
                        "assert_failed"}
  /\ GoodStack(P, stack)
  /\ signalCaught \in BOOLEAN
  /\ calls \in 0..MaxCalls
  /\ last \in [pdf: DOMAIN Kind, requested: Int, extended: BOOLEAN, inner: BOOLEAN,
               entries: Nat] \cup {<<>>}
  /\ last # <<>> => AskedRight(P, last.pdf, last.requested)
                    /\ RightSize(P, last.pdf, last.requested, last.entries)
  /\ factoryStatus = "merge_failed" =>
       last # <<>> /\ Factory!HalfEvents(last.requested)

LEMMA ConstantTypes ==
  /\ Kind \in [DOMAIN Kind -> {"leaf", "extend", "add", "product", "simultaneous"}]
  /\ Subs \in [DOMAIN Kind -> Seq(DOMAIN Kind)]
  /\ ExpectedEvents \in [DOMAIN Kind -> Nat]
  /\ Yields \in [DOMAIN Kind -> SUBSET [yield: Nat, extended: BOOLEAN]]
  /\ MaxCalls \in Nat
BY GenerationAssumption DEF Factory!ConstantsOK, Factory!Pdfs, Factory!Kinds

LEMMA FixedSizesPositive ==
  ASSUME NEW P, SumsOfWholes(P), NEW y \in FixedSizes
  PROVE  y \in Nat /\ y > 0
<1>1. PICK p \in DOMAIN Kind : \E asked \in Yields[p] : y = asked.yield
  BY DEF FixedSizes
<1>2. PICK asked \in Yields[p] : y = asked.yield
  BY <1>1
<1>3. asked \in [yield: Nat, extended: BOOLEAN]
  BY <1>2, ConstantTypes
<1> QED BY <1>2, <1>3 DEF SumsOfWholes

(* The size of a sub sample, seen from the PDF around it.                  *)
LEMMA SubSizeIsRight ==
  ASSUME NEW P, SumsOfWholes(P), NEW p \in DOMAIN Kind, NEW sub \in SubsOf(p),
         Kind[p] \in {"extend", "product"},
         NEW y, AskedRight(P, p, y), NEW n, RightSize(P, sub, y, n)
  PROVE  RightSize(P, p, y, n)
<1>1. CASE p \in P
  <2>1. sub \in P
    BY <1>1 DEF SumsOfWholes
  <2> QED BY <1>1, <2>1 DEF RightSize
<1>2. CASE p \notin P
  <2>1. y \in Int /\ y > 0
    BY <1>2, FixedSizesPositive DEF AskedRight
  <2>2. Kind[sub] # "simultaneous"
    BY DEF SumsOfWholes
  <2>3. Matches(n, y)
    BY <2>1, <2>2, RoundedMatches DEF RightSize
  <2> QED BY <1>2, <2>3 DEF RightSize
<1> QED BY <1>1, <1>2

LEMMA PartialIs ==
  ASSUME NEW P, SumsOfWholes(P), NEW p \in DOMAIN Kind, Kind[p] = "add",
         NEW y \in FixedSizes
  PROVE  IsPartial(p, y, Partial(p, y))
<1>1. \E partial : IsPartial(p, y, partial)
  BY DEF SumsOfWholes
<1> QED BY ONLY <1>1, Zenon DEF Partial

-----------------------------------------------------------------------------
(* A call of a sub PDF.                                                    *)
LEMMA SubIsIn ==
  ASSUME NEW p \in DOMAIN Kind, NEW i \in 1..Len(Subs[p])
  PROVE  Subs[p][i] \in SubsOf(p) /\ Subs[p][i] \in DOMAIN Kind
<1>1. Subs[p] \in Seq(DOMAIN Kind)
  BY ConstantTypes
<1>2. i \in DOMAIN Subs[p]
  BY <1>1
<1> QED BY <1>1, <1>2, ElementOfSeq DEF SubsOf

LEMMA CallKeepsStack ==
  ASSUME NEW P, GoodStack(P, stack), stack # <<>>,
         NEW f, GoodCall(P, f), f.pdf = Factory!Top.pdf, f.requested = Factory!Top.requested,
         NEW sub, GoodCall(P, sub), Waiting(f, sub), Innermost(sub)
  PROVE  GoodStack(P, Append(Factory!SetTop(f), sub))
<1> DEFINE n == Len(stack)
           t == [stack EXCEPT ![n] = f]
           s == Append(t, sub)
<1>1. stack \in Seq(Factory!Frame) /\ n \in Nat \ {0} /\ f \in Factory!Frame
      /\ sub \in Factory!Frame
  BY DEF GoodStack, GoodCall
<1>2. t \in Seq(Factory!Frame) /\ Len(t) = n /\ t[n] = f
      /\ \A k \in 1..n - 1 : t[k] = stack[k]
  BY <1>1
<1> HIDE DEF t
<1>3. s \in Seq(Factory!Frame) /\ Len(s) = n + 1 /\ s[n + 1] = sub
      /\ \A k \in 1..n : s[k] = t[k]
  BY <1>1, <1>2
<1> HIDE DEF s
<1>4. \A k \in 1..n + 1 : GoodCall(P, s[k])
  <2> SUFFICES ASSUME NEW k \in 1..n + 1 PROVE GoodCall(P, s[k])
    OBVIOUS
  <2>1. CASE k = n + 1
    BY <1>3, <2>1
  <2>2. CASE k = n
    BY <1>1, <1>2, <1>3, <2>2
  <2>3. CASE k \in 1..n - 1
    <3>1. s[k] = stack[k] /\ k \in 1..n
      BY <1>1, <1>2, <1>3, <2>3
    <3> QED BY <3>1 DEF GoodStack
  <2> QED BY <1>1, <2>1, <2>2, <2>3
<1>5. \A k \in 1..n : Waiting(s[k], s[k + 1])
  <2> SUFFICES ASSUME NEW k \in 1..n PROVE Waiting(s[k], s[k + 1])
    OBVIOUS
  <2>1. CASE k = n
    BY <1>1, <1>2, <1>3, <2>1
  <2>2. CASE k = n - 1
    <3>1. k \in 1..n - 1 /\ k + 1 = n /\ k + 1 \in 1..n
      BY <1>1, <2>2
    <3>2. s[k] = stack[k] /\ s[k + 1] = f
      BY <1>1, <1>2, <1>3, <3>1
    <3>3. Waiting(stack[k], stack[n])
      BY <3>1 DEF GoodStack
    <3> QED BY <3>2, <3>3 DEF Waiting, Factory!Top
  <2>3. CASE k \in 1..n - 2
    <3>1. k \in 1..n - 1 /\ k + 1 \in 1..n - 1
      BY <1>1, <2>3
    <3>2. s[k] = stack[k] /\ s[k + 1] = stack[k + 1]
      BY <1>1, <1>2, <1>3, <3>1
    <3>3. Waiting(stack[k], stack[k + 1])
      BY <3>1 DEF GoodStack
    <3> QED BY <3>2, <3>3
  <2> QED BY <1>1, <2>1, <2>2, <2>3
<1>6. (n + 1) - 1 = n
  BY <1>1
<1>7. GoodStack(P, s)
  BY <1>3, <1>4, <1>5, <1>6 DEF GoodStack
<1> QED BY <1>7 DEF s, t, Factory!SetTop

(* The call at the top changes and stays there.                            *)
LEMMA TopKeepsStack ==
  ASSUME NEW P, GoodStack(P, stack), stack # <<>>,
         NEW f, GoodCall(P, f), f.pdf = Factory!Top.pdf, f.requested = Factory!Top.requested,
         Innermost(f)
  PROVE  GoodStack(P, Factory!SetTop(f))
<1> DEFINE n == Len(stack)
           t == [stack EXCEPT ![n] = f]
<1>1. stack \in Seq(Factory!Frame) /\ n \in Nat \ {0} /\ f \in Factory!Frame
  BY DEF GoodStack, GoodCall
<1>2. t \in Seq(Factory!Frame) /\ Len(t) = n /\ t[n] = f
      /\ \A k \in 1..n - 1 : t[k] = stack[k]
  BY <1>1
<1> HIDE DEF t
<1>3. \A k \in 1..n : GoodCall(P, t[k])
  BY <1>1, <1>2 DEF GoodStack
<1>4. \A k \in 1..n - 1 : Waiting(t[k], t[k + 1])
  <2> SUFFICES ASSUME NEW k \in 1..n - 1 PROVE Waiting(t[k], t[k + 1])
    OBVIOUS
  <2>1. Waiting(stack[k], stack[k + 1]) /\ t[k] = stack[k]
    BY <1>2 DEF GoodStack
  <2>2. CASE k = n - 1
    <3>1. k + 1 = n
      BY <1>1, <2>2
    <3> QED BY <1>2, <2>1, <3>1 DEF Waiting, Factory!Top
  <2>3. CASE k \in 1..n - 2
    <3>1. t[k + 1] = stack[k + 1]
      BY <1>1, <1>2, <2>3
    <3> QED BY <2>1, <3>1
  <2> QED BY <1>1, <2>2, <2>3
<1>5. GoodStack(P, t)
  BY <1>1, <1>2, <1>3, <1>4 DEF GoodStack
<1> QED BY <1>5 DEF t, Factory!SetTop

LEMMA TopIsGood ==
  ASSUME NEW P, GoodStack(P, stack), stack # <<>>
  PROVE  /\ GoodCall(P, Factory!Top) /\ Innermost(Factory!Top)
         /\ Factory!Top \in Factory!Frame /\ Factory!Top.pdf \in DOMAIN Kind
         /\ Len(stack) \in Nat \ {0}
<1>1. stack \in Seq(Factory!Frame) /\ Len(stack) \in Nat \ {0}
  BY DEF GoodStack
<1>2. Len(stack) \in 1..Len(stack)
  BY <1>1
<1> QED BY <1>1, <1>2 DEF GoodStack, Factory!Top, GoodCall, AskedRight

-----------------------------------------------------------------------------
(* A call returns to the one around it.                                    *)
LEMMA BackKeepsStack ==
  ASSUME NEW P, GoodStack(P, stack), Len(stack) > 1,
         NEW g, GoodCall(P, g), Innermost(g),
         g.pdf = stack[Len(stack) - 1].pdf,
         g.requested = stack[Len(stack) - 1].requested
  PROVE  GoodStack(P, [Factory!Pop EXCEPT ![Len(Factory!Pop)] = g])
<1> DEFINE n == Len(stack)
           q == Factory!Pop
           t == [q EXCEPT ![Len(q)] = g]
<1>1. stack \in Seq(Factory!Frame) /\ n \in Nat /\ n > 1 /\ g \in Factory!Frame
  BY DEF GoodStack, GoodCall
<1>2. q \in Seq(Factory!Frame) /\ Len(q) = n - 1
      /\ \A k \in 1..n - 1 : q[k] = stack[k]
  BY <1>1 DEF Factory!Pop
<1> HIDE DEF q
<1>3. t \in Seq(Factory!Frame) /\ Len(t) = n - 1 /\ t[n - 1] = g
      /\ \A k \in 1..n - 2 : t[k] = stack[k]
  BY <1>1, <1>2
<1> HIDE DEF t
<1>4. \A k \in 1..n - 1 : GoodCall(P, t[k])
  BY <1>1, <1>3 DEF GoodStack
<1>5. \A k \in 1..(n - 1) - 1 : Waiting(t[k], t[k + 1])
  <2> SUFFICES ASSUME NEW k \in 1..(n - 1) - 1 PROVE Waiting(t[k], t[k + 1])
    OBVIOUS
  <2>1. Waiting(stack[k], stack[k + 1]) /\ t[k] = stack[k]
    BY <1>1, <1>3 DEF GoodStack
  <2>2. CASE k = n - 2
    <3>1. k + 1 = n - 1
      BY <1>1, <2>2
    <3> QED BY <1>3, <2>1, <3>1 DEF Waiting
  <2>3. CASE k \in 1..n - 3
    <3>1. t[k + 1] = stack[k + 1]
      BY <1>1, <1>3, <2>3
    <3> QED BY <2>1, <3>1
  <2> QED BY <1>1, <2>2, <2>3
<1>6. GoodStack(P, t)
  BY <1>1, <1>3, <1>4, <1>5 DEF GoodStack
<1> QED BY <1>6 DEF t, q

Returned(f, size) == [f EXCEPT !.next = @ + 1, !.data = size]

LEMMA BackIsGood ==
  ASSUME NEW P, NEW f, GoodCall(P, f), NEW sub, Waiting(f, sub), NEW size \in Nat,
         Kind[f.pdf] = "add" => size = EntriesOf(f) + Rounded(sub.requested),
         Kind[f.pdf] \in {"extend", "product"} => RightSize(P, f.pdf, f.yield, size)
  PROVE  /\ GoodCall(P, Returned(f, size)) /\ Innermost(Returned(f, size))
         /\ Returned(f, size).pdf = f.pdf /\ Returned(f, size).requested = f.requested
<1> DEFINE g == Returned(f, size)
<1>1. f \in Factory!Frame
  BY DEF GoodCall
<1>2. /\ g \in Factory!Frame
      /\ g.pdf = f.pdf /\ g.requested = f.requested /\ g.yield = f.yield
      /\ g.extended = f.extended /\ g.proto = f.proto /\ g.begun = f.begun
      /\ g.next = f.next + 1 /\ g.lost = f.lost /\ g.protoPos = f.protoPos
      /\ g.data = size
  <2>1. f.next + 1 \in Nat /\ size \in Nat \cup {Factory!None}
    BY <1>1 DEF Factory!Frame
  <2>2. /\ g.pdf = f.pdf /\ g.requested = f.requested /\ g.yield = f.yield
        /\ g.extended = f.extended /\ g.proto = f.proto /\ g.begun = f.begun
        /\ g.next = f.next + 1 /\ g.lost = f.lost /\ g.protoPos = f.protoPos
        /\ g.data = size
    BY <1>1 DEF Factory!Frame, Returned
  <2>3. g \in Factory!Frame
    BY <1>1, <2>1 DEF Factory!Frame, Returned
  <2> QED BY <2>2, <2>3
<1> HIDE DEF g
<1>3. Len(Subs[f.pdf]) \in Nat
  BY ConstantTypes DEF GoodCall, AskedRight
<1>4. f.next \in Nat /\ g.next <= Len(Subs[g.pdf]) /\ g.next # 0 /\ g.begun
      /\ size # Factory!None
  BY <1>1, <1>2, <1>3 DEF Waiting, Factory!Frame, Factory!None
<1>5. GoodCall(P, g)
  BY <1>2, <1>4 DEF GoodCall, AskedRight, EnoughProto
<1>6. Innermost(g)
  BY <1>2, <1>4 DEF Innermost, SharesUsed, Waiting, EntriesOf
<1> QED BY <1>2, <1>5, <1>6 DEF g

LEMMA ReturnKeepsSizes ==
  ASSUME NEW P, SumsOfWholes(P), SizesInv(P),
         factoryStatus = "running", stack # <<>>,
         NEW n, RightSize(P, Factory!Top.pdf, Factory!Top.requested, n),
         Factory!Return(n), UNCHANGED <<signalCaught, calls>>
  PROVE  SizesInv(P)'
<1> DEFINE top == Factory!Top
           m == Len(stack)
           caller == stack[m - 1]
           Back(size) == [Factory!Pop EXCEPT ![Len(Factory!Pop)] =
                            [caller EXCEPT !.next = @ + 1, !.data = size]]
<1>1. /\ GoodStack(P, stack) /\ GoodCall(P, top) /\ top \in Factory!Frame
      /\ top.pdf \in DOMAIN Kind /\ m \in Nat \ {0} /\ n \in Nat
  BY TopIsGood DEF SizesInv, RightSize
<1>2. last' = [pdf |-> top.pdf, requested |-> top.requested, extended |-> top.extended,
               inner |-> m > 1, entries |-> n]
  BY DEF Factory!Return
<1>3. \/ m = 1 /\ stack' = <<>> /\ factoryStatus' = "done"
      \/ m > 1 /\ caller.data = Factory!None /\ stack' = Back(n)
         /\ factoryStatus' = factoryStatus
      \/ m > 1 /\ caller.data # Factory!None /\ Kind[caller.pdf] \in {"add", "simultaneous"}
         /\ stack' = Back(caller.data + n) /\ factoryStatus' = factoryStatus
      \/ m > 1 /\ caller.data # Factory!None /\ Kind[caller.pdf] = "product"
         /\ caller.data = n /\ stack' = Back(n) /\ factoryStatus' = factoryStatus
      \/ m > 1 /\ caller.data # Factory!None /\ Kind[caller.pdf] = "product"
         /\ caller.data # n /\ stack' = <<>> /\ factoryStatus' = "merge_failed"
  BY DEF Factory!Return
<1> HIDE DEF Back
<1>4. /\ last' \in [pdf: DOMAIN Kind, requested: Int, extended: BOOLEAN, inner: BOOLEAN,
                    entries: Nat]
      /\ last'.pdf = top.pdf /\ last'.requested = top.requested /\ last'.entries = n
      /\ last' # <<>>
  <2>1. top.extended \in BOOLEAN /\ top.requested \in Int /\ (m > 1) \in BOOLEAN
    BY <1>1 DEF Factory!Frame
  <2>2. last'.pdf = top.pdf /\ last'.requested = top.requested /\ last'.entries = n
        /\ last' \in [pdf: DOMAIN Kind, requested: Int, extended: BOOLEAN,
                      inner: BOOLEAN, entries: Nat]
    BY <1>1, <1>2, <2>1
  <2>3. last' # <<>>
    <3> SUFFICES ASSUME last' = <<>> PROVE FALSE
      OBVIOUS
    <3>1. DOMAIN last' = {} /\ "pdf" \in DOMAIN last'
      BY <1>2
    <3> QED BY <3>1
  <2> QED BY <2>2, <2>3
<1>5. AskedRight(P, top.pdf, top.requested) /\ RightSize(P, top.pdf, top.requested, n)
  BY <1>1 DEF GoodCall
<1>6. GoodStack(P, <<>>)
  BY DEF GoodStack
<1>7. ASSUME m > 1
      PROVE  /\ GoodCall(P, caller) /\ Waiting(caller, top)
             /\ caller \in Factory!Frame /\ caller.pdf \in DOMAIN Kind
             /\ top.pdf \in SubsOf(caller.pdf)
             /\ Kind[caller.pdf] = "add" => n = Rounded(top.requested)
             /\ Kind[caller.pdf] \in {"extend", "product"} =>
                  /\ top.requested = caller.yield
                  /\ RightSize(P, caller.pdf, caller.yield, n)
  <2>1. m - 1 \in 1..m - 1 /\ m - 1 \in 1..m /\ (m - 1) + 1 = m
    BY <1>1, <1>7
  <2>2. GoodCall(P, caller) /\ Waiting(caller, top)
    BY <1>1, <2>1 DEF GoodStack, Factory!Top
  <2>3. caller \in Factory!Frame /\ caller.pdf \in DOMAIN Kind
        /\ AskedRight(P, caller.pdf, caller.yield)
    BY <2>2 DEF GoodCall, AskedRight
  <2>4. top.pdf \in SubsOf(caller.pdf)
    <3>1. Len(Subs[caller.pdf]) \in Nat /\ caller.next \in Nat
      BY <2>3, ConstantTypes DEF Factory!Frame
    <3>2. caller.next + 1 \in 1..Len(Subs[caller.pdf])
      BY <2>2, <3>1 DEF Waiting
    <3> QED BY <2>2, <2>3, <3>2, SubIsIn DEF Waiting
  <2>5. Kind[caller.pdf] = "add" => n = Rounded(top.requested)
    BY <2>3, <2>4 DEF SumsOfWholes, RightSize
  <2>6. ASSUME Kind[caller.pdf] \in {"extend", "product"}
        PROVE  top.requested = caller.yield /\ RightSize(P, caller.pdf, caller.yield, n)
    <3>1. top.requested = caller.yield
      BY <2>2, <2>6 DEF Waiting
    <3> QED BY <2>3, <2>4, <2>6, <3>1, SubSizeIsRight
  <2> QED BY <2>2, <2>3, <2>4, <2>5, <2>6
<1> HIDE DEF top, caller, m
<1>8. ASSUME m > 1, NEW size \in Nat, stack' = Back(size),
             Kind[caller.pdf] = "add" => size = EntriesOf(caller) + Rounded(top.requested),
             Kind[caller.pdf] \in {"extend", "product"} =>
               RightSize(P, caller.pdf, caller.yield, size)
      PROVE  GoodStack(P, stack')
  <2> DEFINE g == Returned(caller, size)
  <2>1. GoodCall(P, caller) /\ Waiting(caller, top)
    BY <1>7, <1>8
  <2>3. stack' = [Factory!Pop EXCEPT ![Len(Factory!Pop)] = g]
    BY <1>8 DEF Back, Returned
  <2>2. GoodCall(P, g) /\ Innermost(g) /\ g.pdf = caller.pdf /\ g.requested = caller.requested
    BY <1>8, <2>1, BackIsGood
  <2> HIDE DEF g
  <2>4. g.pdf = stack[Len(stack) - 1].pdf /\ g.requested = stack[Len(stack) - 1].requested
    BY <2>2 DEF caller, m
  <2>6. GoodStack(P, [Factory!Pop EXCEPT ![Len(Factory!Pop)] = g])
    BY <1>1, <1>8, <2>2, <2>4, BackKeepsStack DEF m
  <2> QED BY ONLY <2>3, <2>6, Zenon
<1>9. /\ GoodStack(P, stack')
      /\ factoryStatus' \in {"running", "done", "merge_failed"}
      /\ factoryStatus' = "merge_failed" => Factory!HalfEvents(top.requested)
  <2>1. CASE m = 1 /\ stack' = <<>> /\ factoryStatus' = "done"
    BY <1>6, <2>1
  <2>2. CASE m > 1 /\ caller.data = Factory!None /\ stack' = Back(n)
             /\ factoryStatus' = factoryStatus
    <3>1. EntriesOf(caller) = 0
      BY <2>2 DEF EntriesOf
    <3>2. Kind[caller.pdf] = "add" => n = EntriesOf(caller) + Rounded(top.requested)
      BY <1>1, <1>7, <2>2, <3>1
    <3> QED BY <1>1, <1>7, <1>8, <2>2, <3>2
  <2>3. CASE m > 1 /\ caller.data # Factory!None
             /\ Kind[caller.pdf] \in {"add", "simultaneous"}
             /\ stack' = Back(caller.data + n) /\ factoryStatus' = factoryStatus
    <3>1. caller.data \in Nat /\ caller.data + n \in Nat /\ EntriesOf(caller) = caller.data
      BY <1>1, <1>7, <2>3 DEF Factory!Frame, EntriesOf
    <3> QED BY <1>7, <1>8, <2>3, <3>1
  <2>4. CASE m > 1 /\ caller.data # Factory!None /\ Kind[caller.pdf] = "product"
             /\ caller.data = n /\ stack' = Back(n) /\ factoryStatus' = factoryStatus
    BY <1>1, <1>7, <1>8, <2>4
  <2>5. CASE m > 1 /\ caller.data # Factory!None /\ Kind[caller.pdf] = "product"
             /\ caller.data # n /\ stack' = <<>> /\ factoryStatus' = "merge_failed"
    <3>1. /\ RightSize(P, caller.pdf, caller.yield, caller.data)
          /\ RightSize(P, caller.pdf, caller.yield, n)
          /\ top.requested = caller.yield /\ AskedRight(P, caller.pdf, caller.yield)
      BY <1>7, <2>5 DEF GoodCall
    <3>2. caller.pdf \notin P
      BY <2>5, <3>1 DEF RightSize
    <3>3. caller.yield \in Nat
      BY <3>1, <3>2, FixedSizesPositive DEF AskedRight
    <3>4. /\ Matches(n, caller.yield) /\ Matches(caller.data, caller.yield)
          /\ caller.data \in Nat
      BY <2>5, <3>1, <3>2 DEF RightSize
    <3>5. Factory!HalfEvents(caller.yield)
      BY <1>1, <2>5, <3>3, <3>4, TwoSizes
    <3> QED BY <1>6, <2>5, <3>1, <3>5
  <2> QED BY <1>3, <2>1, <2>2, <2>3, <2>4, <2>5
<1>10. /\ RightSize(P, last'.pdf, last'.requested, last'.entries)
       /\ AskedRight(P, last'.pdf, last'.requested)
  BY <1>4, <1>5
<1>11. signalCaught' \in BOOLEAN /\ calls' \in 0..MaxCalls
  BY DEF SizesInv
<1>12. factoryStatus' = "merge_failed" => Factory!HalfEvents(last'.requested)
  BY <1>4, <1>9
<1> QED BY <1>4, <1>9, <1>10, <1>11, <1>12 DEF SizesInv

-----------------------------------------------------------------------------
(* The steps.                                                              *)
LEMMA NewIsGood ==
  ASSUME NEW P, SumsOfWholes(P), NEW p, NEW y, AskedRight(P, p, y),
         NEW proto \in Nat \cup {Factory!None},
         proto # Factory!None =>
           Rounded(y) <= proto /\ (p \notin P => Ample(proto, y))
  PROVE  /\ GoodCall(P, Factory!NewFrame(p, y, FALSE, proto))
         /\ Innermost(Factory!NewFrame(p, y, FALSE, proto))
         /\ Factory!NewFrame(p, y, FALSE, proto).pdf = p
         /\ Factory!NewFrame(p, y, FALSE, proto).requested = y
<1> DEFINE f == Factory!NewFrame(p, y, FALSE, proto)
<1>1. /\ f \in Factory!Frame
      /\ f.pdf = p /\ f.requested = y /\ f.yield = y /\ f.extended = FALSE
      /\ f.proto = proto /\ f.begun = FALSE /\ f.next = 0 /\ f.lost = 0
      /\ f.protoPos = 0 /\ f.data = Factory!None
  <2>1. p \in Factory!Pdfs /\ y \in Int
    BY DEF AskedRight, Factory!Pdfs
  <2> QED BY <2>1 DEF Factory!NewFrame, Factory!Frame
<1> HIDE DEF f
<1>2. Len(Subs[p]) \in Nat
  BY ConstantTypes DEF AskedRight
<1>3. GoodCall(P, f)
  BY <1>1, <1>2 DEF GoodCall, EnoughProto
<1>4. Innermost(f)
  <2> SUFFICES ASSUME Kind[p] = "add"
               PROVE  /\ EventParts * 0 + 0 = Partial(p, y)[0]
                      /\ EventParts * 0 <= Partial(p, y)[0]
    BY <1>1, PartsFact DEF Innermost, SharesUsed, EntriesOf
  <2>1. p \in DOMAIN Kind /\ y \in FixedSizes
    BY DEF AskedRight, SumsOfWholes
  <2>2. Partial(p, y)[0] = 0
    BY <2>1, PartialIs DEF IsPartial
  <2> QED BY <2>2, PartsFact
<1> QED BY <1>1, <1>3, <1>4 DEF f

LEMMA CallKeepsSizes ==
  ASSUME NEW P, SumsOfWholes(P), SizesInv(P), stack # <<>>,
         NEW f, GoodCall(P, f), f.pdf = Factory!Top.pdf, f.requested = Factory!Top.requested,
         NEW p, NEW y, NEW proto \in Nat \cup {Factory!None}, AskedRight(P, p, y),
         proto # Factory!None =>
           Rounded(y) <= proto /\ (p \notin P => Ample(proto, y)),
         Waiting(f, Factory!NewFrame(p, y, FALSE, proto)),
         Factory!Call(f, p, y, FALSE, proto),
         UNCHANGED <<factoryStatus, last, signalCaught, calls>>
  PROVE  SizesInv(P)'
<1> DEFINE sub == Factory!NewFrame(p, y, FALSE, proto)
<1>1. GoodCall(P, sub) /\ Innermost(sub)
  BY NewIsGood
<1>2. stack' = Append(Factory!SetTop(f), sub)
  BY DEF Factory!Call
<1> HIDE DEF sub
<1>3. GoodStack(P, stack) /\ Waiting(f, sub)
  BY DEF SizesInv, sub
<1>4. GoodStack(P, Append(Factory!SetTop(f), sub))
  BY <1>1, <1>3, CallKeepsStack
<1>5. GoodStack(P, stack')
  BY ONLY <1>2, <1>4, Zenon
<1> QED BY <1>5 DEF SizesInv

(* What a PDF passes on as it is.                                          *)
LEMMA PassedOn ==
  ASSUME NEW P, SumsOfWholes(P), NEW f, GoodCall(P, f), f.begun,
         Kind[f.pdf] \in {"extend", "product", "simultaneous"},
         f.next < Len(Subs[f.pdf])
  PROVE  LET sub == Subs[f.pdf][f.next + 1]
         IN  /\ AskedRight(P, sub, f.yield)
             /\ f.proto \in Nat \cup {Factory!None}
             /\ f.proto # Factory!None =>
                  Rounded(f.yield) <= f.proto /\ (sub \notin P => Ample(f.proto, f.yield))
             /\ Waiting(f, Factory!NewFrame(sub, f.yield, FALSE, f.proto))
<1> DEFINE sub == Subs[f.pdf][f.next + 1]
           new == Factory!NewFrame(sub, f.yield, FALSE, f.proto)
<1>1. f \in Factory!Frame /\ f.pdf \in DOMAIN Kind /\ f.next \in Nat
      /\ AskedRight(P, f.pdf, f.yield) /\ f.proto \in Nat \cup {Factory!None}
  BY DEF GoodCall, AskedRight, Factory!Frame
<1>2. f.next + 1 \in 1..Len(Subs[f.pdf])
  BY <1>1, ConstantTypes
<1>3. sub \in SubsOf(f.pdf) /\ sub \in DOMAIN Kind
  BY <1>1, <1>2, SubIsIn
<1>4. new.pdf = sub /\ new.requested = f.yield
  BY DEF Factory!NewFrame
<1> HIDE DEF sub, new
<1>5. f.pdf \in P => sub \in P
  BY <1>3 DEF SumsOfWholes
<1>6. AskedRight(P, sub, f.yield)
  BY <1>1, <1>3, <1>5 DEF AskedRight
<1>7. f.proto # Factory!None =>
        Rounded(f.yield) <= f.proto /\ (sub \notin P => Ample(f.proto, f.yield))
  BY <1>5 DEF GoodCall, EnoughProto
<1>8. Waiting(f, new)
  BY <1>4 DEF Waiting, SharesUsed, sub
<1> QED BY <1>1, <1>6, <1>7, <1>8 DEF sub, new

LEMMA PassOnKeepsSizes ==
  ASSUME NEW P, SumsOfWholes(P), SizesInv(P),
         \/ Factory!DecomposeExtended \/ Factory!GenerateForProductPdf
         \/ Factory!GenerateForSimultaneousPdf
  PROVE  SizesInv(P)'
<1> DEFINE f == Factory!Top
           sub == Subs[f.pdf][f.next + 1]
<1>1. /\ stack # <<>> /\ f.begun
      /\ Kind[f.pdf] \in {"extend", "product", "simultaneous"}
      /\ f.next < Len(Subs[f.pdf])
      /\ UNCHANGED <<factoryStatus, last, signalCaught, calls>>
  BY DEF Factory!DecomposeExtended, Factory!GenerateForProductPdf,
         Factory!GenerateForSimultaneousPdf, Factory!At, Factory!MoreSubs
<1>2. GoodStack(P, stack)
  BY DEF SizesInv
<1>3. GoodCall(P, f) /\ f \in Factory!Frame /\ f.extended = FALSE
      /\ AskedRight(P, f.pdf, f.yield)
  BY <1>1, <1>2, TopIsGood DEF GoodCall, Factory!Frame
<1>4. Factory!Call(f, sub, f.yield, FALSE, f.proto)
  <2>1. CASE Factory!DecomposeExtended
    <3>1. Kind[f.pdf] = "extend"
      BY <2>1 DEF Factory!DecomposeExtended, Factory!At
    <3>2. f.yield \in FixedSizes
      BY <1>3, <3>1 DEF AskedRight, SumsOfWholes
    <3>3. f.yield > 0
      BY <3>2, FixedSizesPositive
    <3>4. Factory!Call(f, Factory!NextSub,
                       IF f.yield > 0 THEN f.yield ELSE ExpectedEvents[f.pdf],
                       f.extended, f.proto)
      BY <2>1 DEF Factory!DecomposeExtended
    <3> QED BY <1>3, <3>3, <3>4 DEF Factory!NextSub
  <2>2. CASE Factory!GenerateForProductPdf
    <3>1. PICK y \in {f.yield} :
            Factory!Call([f EXCEPT !.yield = y], Factory!NextSub, y, FALSE, f.proto)
      BY <1>3, <2>2 DEF Factory!GenerateForProductPdf
    <3>2. [f EXCEPT !.yield = f.yield] = f
      BY <1>3 DEF Factory!Frame
    <3> QED BY <3>1, <3>2 DEF Factory!NextSub
  <2>3. CASE Factory!GenerateForSimultaneousPdf
    <3>1. Factory!Call(f, Factory!NextSub, f.yield, f.extended, f.proto)
      BY <2>3 DEF Factory!GenerateForSimultaneousPdf
    <3> QED BY <1>3, <3>1 DEF Factory!NextSub
  <2> QED BY <2>1, <2>2, <2>3
<1>5. /\ AskedRight(P, sub, f.yield)
      /\ f.proto \in Nat \cup {Factory!None}
      /\ f.proto # Factory!None =>
           Rounded(f.yield) <= f.proto /\ (sub \notin P => Ample(f.proto, f.yield))
      /\ Waiting(f, Factory!NewFrame(sub, f.yield, FALSE, f.proto))
  BY <1>1, <1>3, PassedOn
<1> DEFINE y == f.yield
           proto == f.proto
<1>6. f.pdf = Factory!Top.pdf /\ f.requested = Factory!Top.requested
  OBVIOUS
<1> HIDE DEF f, sub
<1> QED BY <1>1, <1>3, <1>4, <1>5, <1>6, CallKeepsSizes

(* A sum passes on a share and what is carried over.                       *)
LEMMA AddKeepsSizes ==
  ASSUME NEW P, SumsOfWholes(P), SizesInv(P), Factory!GenerateForAddedPdf
  PROVE  SizesInv(P)'
<1> DEFINE f == Factory!Top
           i == f.next + 1
           y == f.yield
           d == Share(f.pdf, i, y)
           lost == f.lost + d - EventParts * Factory!Iround(d)
           carry == Factory!Carried(lost)
           new == Factory!Truncate(EventParts * f.protoPos + d)
           g == [f EXCEPT !.lost = lost - EventParts * carry,
                          !.protoPos = IF f.proto = Factory!None THEN f.protoPos ELSE new]
           sub == Subs[f.pdf][i]
           slice == IF f.proto = Factory!None THEN Factory!None ELSE Factory!SliceSize(d)
           before == Partial(f.pdf, y)[f.next]
           after == Partial(f.pdf, y)[i]
<1>1. /\ stack # <<>> /\ f.begun /\ Kind[f.pdf] = "add" /\ f.next < Len(Subs[f.pdf])
      /\ UNCHANGED <<last, signalCaught, calls>>
  BY DEF Factory!GenerateForAddedPdf, Factory!At, Factory!MoreSubs
<1>2. GoodStack(P, stack)
  BY DEF SizesInv
<1>3. /\ GoodCall(P, f) /\ Innermost(f) /\ f \in Factory!Frame /\ f.extended = FALSE
      /\ f.pdf \in DOMAIN Kind /\ f.next \in Nat /\ f.lost \in Int
      /\ f.requested = y /\ f.pdf \notin P
  BY <1>1, <1>2, TopIsGood DEF GoodCall, Factory!Frame, SumsOfWholes
<1>4. y \in FixedSizes /\ y \in Nat /\ y > 0
  BY <1>3, FixedSizesPositive DEF GoodCall, AskedRight
<1>5. i \in 1..Len(Subs[f.pdf]) /\ i - 1 = f.next
      /\ f.next \in 0..Len(Subs[f.pdf]) /\ i \in 0..Len(Subs[f.pdf])
  <2>1. Len(Subs[f.pdf]) \in Nat
    BY <1>3, ConstantTypes
  <2> HIDE DEF f
  <2> QED BY <1>1, <1>3, <2>1
<1>6. sub \in P /\ sub \in DOMAIN Kind
  BY <1>1, <1>3, <1>5, SubIsIn DEF SumsOfWholes
<1>7. d \in Nat /\ before \in 0..y /\ after \in 0..y /\ after = before + d
  <2>1. IsPartial(f.pdf, y, Partial(f.pdf, y))
    BY <1>1, <1>3, <1>4, PartialIs
  <2> HIDE DEF f, y
  <2> QED BY <1>5, <2>1 DEF IsPartial
<1>8. Factory!SubYield = d
  <2>1. Factory!AddedYield = y
    BY <1>4 DEF Factory!AddedYield
  <2> QED BY <2>1 DEF Factory!SubYield, Factory!NextSub, Share
<1>9. /\ EventParts * EntriesOf(f) + f.lost = before
      /\ 2 * f.lost <= EventParts /\ -EventParts <= 2 * f.lost
      /\ f.protoPos \in Nat /\ EventParts * f.protoPos <= before
  BY <1>1, <1>3 DEF Innermost, SharesUsed
<1>10. f.proto # Factory!None =>
         /\ f.proto \in Nat
         /\ Factory!SliceSize(d) \in Nat
         /\ Factory!SliceSize(d) > 0 => f.protoPos + Factory!SliceSize(d) <= f.proto
         /\ new \in Nat /\ EventParts * new <= after
  <2> SUFFICES ASSUME f.proto # Factory!None
               PROVE  /\ f.proto \in Nat
                      /\ Factory!SliceSize(d) \in Nat
                      /\ Factory!SliceSize(d) > 0 =>
                           f.protoPos + Factory!SliceSize(d) <= f.proto
                      /\ new \in Nat /\ EventParts * new <= before + d
    BY <1>7
  <2>1. f.proto \in Nat
    BY <1>3 DEF Factory!Frame
  <2>2. Ample(f.proto, y)
    BY <1>3 DEF GoodCall, EnoughProto
  <2>3. before \in Nat /\ before + d <= y
    BY <1>7
  <2> HIDE DEF f, d, y, before
  <2> QED BY <1>4, <1>7, <1>9, <2>1, <2>2, <2>3, SliceFits
<1>11. ~Factory!PastProto(d)
  <2> SUFFICES ASSUME Factory!PastProto(d) PROVE FALSE
    OBVIOUS
  <2>1. /\ f.proto # Factory!None /\ Factory!SliceSize(d) > 0
        /\ f.protoPos + Factory!SliceSize(d) > f.proto
    BY DEF Factory!PastProto
  <2> HIDE DEF f, d
  <2> QED BY <1>9, <1>10, <2>1
<1>12. /\ lost \in Int /\ carry \in Int
       /\ 2 * (lost - EventParts * carry) <= EventParts
       /\ -EventParts <= 2 * (lost - EventParts * carry)
       /\ Rounded(d + EventParts * carry) = Factory!Iround(d) + carry
       /\ Rounded(d + EventParts * carry) <= Factory!SliceSize(d)
  <2> HIDE DEF f, d
  <2> QED BY <1>3, <1>7, <1>9, CarryFacts
<1>13. /\ Factory!Call(g, sub, d + EventParts * carry, FALSE, slice)
       /\ UNCHANGED factoryStatus
  <2>1. PICK drawn \in {d} :
          LET left == f.lost + drawn - EventParts * Factory!Iround(drawn)
              over == Factory!Carried(left)
              frame == [f EXCEPT
                          !.lost = left - EventParts * over,
                          !.protoPos = IF f.proto = Factory!None THEN @
                                       ELSE Factory!Truncate(EventParts * @ + drawn)]
          IN  \/ /\ ~Factory!PastProto(drawn)
                 /\ Factory!Call(frame, Factory!NextSub, drawn + EventParts * over, FALSE,
                                 IF f.proto = Factory!None THEN Factory!None
                                 ELSE Factory!SliceSize(drawn))
                 /\ UNCHANGED factoryStatus
              \/ Factory!PastProto(drawn)
    BY <1>3, <1>8 DEF Factory!GenerateForAddedPdf
  <2> QED BY <1>11, <2>1 DEF Factory!NextSub
<1> DEFINE asked == d + EventParts * carry
<1>14. /\ g \in Factory!Frame
       /\ g.pdf = f.pdf /\ g.requested = f.requested /\ g.yield = f.yield
       /\ g.extended = f.extended /\ g.proto = f.proto /\ g.begun = f.begun
       /\ g.next = f.next /\ g.data = f.data
       /\ g.lost = lost - EventParts * carry
       /\ g.protoPos = IF f.proto = Factory!None THEN f.protoPos ELSE new
  <2>1. lost - EventParts * carry \in Int
    BY <1>12, PartsFact
  <2>2. (IF f.proto = Factory!None THEN f.protoPos ELSE new) \in Int
    BY <1>9, <1>10
  <2> HIDE DEF f, lost, carry, new
  <2> QED BY <1>3, <2>1, <2>2 DEF Factory!Frame
<1>15. asked \in Int /\ AskedRight(P, sub, asked)
  <2>1. asked \in Int
    BY <1>7, <1>12, PartsFact
  <2> QED BY <1>6, <2>1 DEF AskedRight
<1>16. slice \in Nat \cup {Factory!None}
       /\ (slice # Factory!None => Rounded(asked) <= slice /\ (sub \notin P => Ample(slice, asked)))
  BY <1>6, <1>10, <1>12
<1>17. GoodCall(P, g)
  <2> HIDE DEF g, f
  <2> QED BY <1>3, <1>14 DEF GoodCall, AskedRight, EnoughProto
<1> DEFINE frame == Factory!NewFrame(sub, asked, FALSE, slice)
<1>18. frame.pdf = sub /\ frame.requested = asked
  BY DEF Factory!NewFrame
<1>19. Waiting(g, frame)
  <2>1. EntriesOf(g) = EntriesOf(f) /\ EntriesOf(f) \in Nat
    BY <1>3, <1>14 DEF EntriesOf, Factory!Frame
  <2>2. /\ EventParts * (EntriesOf(g) + Rounded(frame.requested)) + g.lost = after
        /\ g.protoPos \in Nat /\ EventParts * g.protoPos <= after
    <3>1. Rounded(frame.requested) = Factory!Iround(d) + carry
      BY <1>12, <1>18
    <3>2. Factory!Iround(d) \in Int /\ EventParts \in Nat
      BY <1>7, IroundFacts, PartsFact
    <3>3. lost = f.lost + d - EventParts * Factory!Iround(d)
      OBVIOUS
    <3>4. g.protoPos \in Nat /\ EventParts * g.protoPos <= after
      <4>1. CASE f.proto = Factory!None
        <5>1. EventParts * f.protoPos \in Nat
          BY <1>9, <3>2
        <5> HIDE DEF f, d, g, before, after
        <5> QED BY <1>7, <1>9, <1>14, <4>1, <5>1
      <4>2. CASE f.proto # Factory!None
        <5> HIDE DEF f, d, g, before, after, new
        <5> QED BY <1>10, <1>14, <4>2
      <4> QED BY <4>1, <4>2
    <3> HIDE DEF f, d, g, before, after, lost, carry, frame
    <3>5. EventParts * (EntriesOf(f) + (Factory!Iround(d) + carry))
            = EventParts * EntriesOf(f) + EventParts * Factory!Iround(d) + EventParts * carry
          /\ EventParts * EntriesOf(f) \in Int /\ EventParts * Factory!Iround(d) \in Int
          /\ EventParts * carry \in Int
      BY <1>12, <2>1, <3>2
    <3>6. EventParts * (EntriesOf(f) + (Factory!Iround(d) + carry)) + g.lost = after
      BY <1>3, <1>7, <1>9, <1>12, <1>14, <3>3, <3>5
    <3> QED BY <2>1, <3>1, <3>4, <3>6
  <2>3. /\ g.next + 1 = i /\ Partial(g.pdf, g.yield)[i] = after
        /\ 2 * g.lost <= EventParts /\ -EventParts <= 2 * g.lost
    BY <1>12, <1>14
  <2>4. SharesUsed(g, g.next + 1, EntriesOf(g) + Rounded(frame.requested))
    <3> HIDE DEF f, d, g, before, after, lost, carry, frame, i
    <3> QED BY <2>2, <2>3 DEF SharesUsed
  <2>5. g.begun /\ Kind[g.pdf] = "add" /\ g.next < Len(Subs[g.pdf])
        /\ frame.pdf = Subs[g.pdf][g.next + 1]
    BY <1>1, <1>14, <1>18
  <2> HIDE DEF f, g, frame
  <2> QED BY <2>4, <2>5 DEF Waiting
<1>20. g.pdf = Factory!Top.pdf /\ g.requested = Factory!Top.requested
  BY <1>14
<1> HIDE DEF f, d, g, sub, carry, asked, slice
<1>21. Waiting(g, Factory!NewFrame(sub, asked, FALSE, slice))
       /\ Factory!Call(g, sub, asked, FALSE, slice)
  BY <1>13, <1>19 DEF asked
<1> QED BY <1>1, <1>13, <1>15, <1>16, <1>17, <1>20, <1>21, CallKeepsSizes

LEMMA LeafKeepsSizes ==
  ASSUME NEW P, SumsOfWholes(P), SizesInv(P),
         Factory!TakeFromProto \/ Factory!GenerateEmpty \/ Factory!GenerateLeaf
  PROVE  SizesInv(P)'
<1> DEFINE f == Factory!Top
           n == Rounded(f.yield)
<1>1. /\ factoryStatus = "running" /\ stack # <<>>
      /\ UNCHANGED <<signalCaught, calls>>
  BY DEF Factory!TakeFromProto, Factory!GenerateEmpty, Factory!GenerateLeaf,
         Factory!NeedsRooFit, Factory!At
<1>2. GoodStack(P, stack)
  BY DEF SizesInv
<1>3. /\ f.extended = FALSE /\ f.requested = f.yield /\ f.yield \in Int
      /\ AskedRight(P, f.pdf, f.yield) /\ EnoughProto(P, f)
      /\ f.proto \in Nat \cup {Factory!None}
  BY <1>1, <1>2, TopIsGood DEF GoodCall, Factory!Frame
<1>4. n \in Nat /\ Factory!Iround(f.yield) \in Int
      /\ (f.yield < 0 => Factory!Iround(f.yield) <= 0)
      /\ (f.yield >= 0 => Factory!Iround(f.yield) >= 0)
  BY <1>3, RoundedIsNat, IroundFacts
<1>5. RightSize(P, f.pdf, f.requested, n)
  <2>1. f.pdf \notin P => Matches(n, f.yield)
    BY <1>3, FixedSizesPositive, RoundedMatches DEF AskedRight
  <2> QED BY <1>3, <1>4, <2>1 DEF RightSize
<1>6. Factory!Return(n)
  <2>1. CASE Factory!TakeFromProto
    <3> DEFINE wanted == IF f.yield < 0 THEN 0 ELSE Factory!Iround(f.yield)
    <3>1. Factory!Return(IF wanted < f.proto THEN wanted ELSE f.proto) /\ f.proto # Factory!None
      BY <2>1 DEF Factory!TakeFromProto
    <3>2. wanted = n
      BY <1>3, <1>4 DEF Rounded
    <3>3. n <= f.proto /\ f.proto \in Nat
      BY <1>3, <3>1 DEF EnoughProto
    <3> HIDE DEF wanted, n, f
    <3>4. (IF wanted < f.proto THEN wanted ELSE f.proto) = n
      BY <1>4, <3>2, <3>3
    <3> QED BY ONLY <3>1, <3>4, Zenon
  <2>2. CASE Factory!GenerateEmpty
    <3>1. n = 0
      BY <2>2 DEF Factory!GenerateEmpty, Rounded
    <3> QED BY <2>2, <3>1 DEF Factory!GenerateEmpty
  <2>3. CASE Factory!GenerateLeaf
    <3>1. Factory!Iround(f.yield) > 0 /\ Factory!Return(Factory!Iround(f.yield))
      BY <1>3, <2>3 DEF Factory!GenerateLeaf
    <3>2. n = Factory!Iround(f.yield)
      BY <1>4, <3>1 DEF Rounded
    <3> HIDE DEF n, f
    <3> QED BY ONLY <3>1, <3>2, Zenon
  <2> QED BY <2>1, <2>2, <2>3
<1> HIDE DEF n
<1> QED BY <1>1, <1>5, <1>6, ReturnKeepsSizes

LEMMA ReturnDecomposedKeepsSizes ==
  ASSUME NEW P, SumsOfWholes(P), SizesInv(P), Factory!ReturnDecomposed
  PROVE  SizesInv(P)'
<1> DEFINE f == Factory!Top
<1>1. /\ factoryStatus = "running" /\ stack # <<>> /\ Kind[f.pdf] # "leaf" /\ f.begun
      /\ ~(f.next < Len(Subs[f.pdf]))
      /\ Factory!Return(f.data) /\ UNCHANGED <<signalCaught, calls>>
  BY DEF Factory!ReturnDecomposed, Factory!At, Factory!Kinds, Factory!MoreSubs
<1>2. GoodStack(P, stack)
  BY DEF SizesInv
<1>3. /\ GoodCall(P, f) /\ Innermost(f) /\ f \in Factory!Frame
      /\ f.requested = f.yield /\ f.pdf \in DOMAIN Kind
      /\ f.next \in Nat /\ f.lost \in Int /\ AskedRight(P, f.pdf, f.yield)
  BY <1>1, <1>2, TopIsGood DEF GoodCall, Factory!Frame
<1>4. f.next = Len(Subs[f.pdf]) /\ f.next # 0
  <2>1. Subs[f.pdf] \in Seq(DOMAIN Kind) /\ Subs[f.pdf] # <<>>
    BY <1>1, <1>3, ConstantTypes DEF SumsOfWholes
  <2>2. Len(Subs[f.pdf]) \in Nat /\ Len(Subs[f.pdf]) # 0 /\ f.next <= Len(Subs[f.pdf])
    BY <1>3, <2>1 DEF GoodCall
  <2> HIDE DEF f
  <2> QED BY <1>1, <1>3, <2>2
<1>5. f.data \in Nat /\ f.data # Factory!None
  BY <1>3, <1>4 DEF GoodCall, Factory!Frame
<1>6. RightSize(P, f.pdf, f.requested, f.data)
  <2>1. CASE Kind[f.pdf] \in {"extend", "product"}
    BY <1>3, <1>5, <2>1 DEF GoodCall
  <2>2. CASE Kind[f.pdf] = "simultaneous"
    BY <1>3, <1>5, <2>2 DEF RightSize, SumsOfWholes
  <2>3. CASE Kind[f.pdf] = "add"
    <3>1. f.pdf \notin P
      BY <2>3 DEF SumsOfWholes
    <3>2. f.yield \in FixedSizes /\ f.yield \in Nat
      BY <1>3, <3>1, FixedSizesPositive DEF AskedRight
    <3>3. Partial(f.pdf, f.yield)[f.next] = f.yield
      BY <1>3, <1>4, <2>3, <3>2, PartialIs DEF IsPartial
    <3>4. EventParts * f.data + f.lost = f.yield
          /\ 2 * f.lost <= EventParts /\ -EventParts <= 2 * f.lost
      BY <1>5, <2>3, <3>3, <1>3 DEF Innermost, SharesUsed, EntriesOf
    <3>5. Matches(f.data, f.yield)
      <4>1. EventParts * f.data \in Int /\ EventParts \in Nat
        BY <1>5, PartsFact
      <4> HIDE DEF f
      <4> QED BY <1>3, <3>2, <3>4, <4>1 DEF Matches
    <3> QED BY <1>3, <1>5, <3>1, <3>5 DEF RightSize
  <2>4. Kind[f.pdf] \in {"leaf", "extend", "add", "product", "simultaneous"}
    BY <1>3, ConstantTypes
  <2> QED BY <1>1, <2>1, <2>2, <2>3, <2>4
<1> QED BY <1>1, <1>6, ReturnKeepsSizes

LEMMA BeginKeepsSizes ==
  ASSUME NEW P, SumsOfWholes(P), SizesInv(P), Factory!GenerateForPdf
  PROVE  SizesInv(P)'
<1> DEFINE f == Factory!Top
           size == Factory!OwnProtoSize
<1>1. stack # <<>> /\ factoryStatus = "running" /\ ~f.begun /\ UNCHANGED <<last, calls>>
  BY DEF Factory!GenerateForPdf
<1>2. GoodStack(P, stack)
  BY DEF SizesInv
<1>3. /\ GoodCall(P, f) /\ Innermost(f) /\ f \in Factory!Frame
      /\ AskedRight(P, f.pdf, f.yield) /\ f.proto \in Nat \cup {Factory!None}
  BY <1>1, <1>2, TopIsGood DEF GoodCall, Factory!Frame
<1>4. ASSUME NEW proto \in Nat \cup {Factory!None}, EnoughProto(P, [f EXCEPT !.begun = TRUE, !.proto = proto])
      PROVE  GoodStack(P, Factory!SetTop([f EXCEPT !.begun = TRUE, !.proto = proto]))
  <2> DEFINE g == [f EXCEPT !.begun = TRUE, !.proto = proto]
  <2>1. /\ g \in Factory!Frame
        /\ g.pdf = f.pdf /\ g.requested = f.requested /\ g.yield = f.yield
        /\ g.extended = f.extended /\ g.begun = TRUE
        /\ g.next = f.next /\ g.data = f.data /\ g.lost = f.lost
        /\ g.protoPos = f.protoPos
    BY <1>3, <1>4 DEF Factory!Frame
  <2>2. EnoughProto(P, g)
    BY <1>4
  <2>3. g.pdf = Factory!Top.pdf /\ g.requested = Factory!Top.requested
    BY <2>1
  <2> HIDE DEF g, f
  <2>4. GoodCall(P, g) /\ Innermost(g)
    BY <1>3, <2>1, <2>2 DEF GoodCall, AskedRight, Innermost, SharesUsed, EntriesOf
  <2>5. GoodStack(P, Factory!SetTop(g))
    BY <1>1, <1>2, <2>3, <2>4, TopKeepsStack
  <2> QED BY <2>5 DEF g
<1>5. CASE f.pdf \notin WithProto
  <2>1. stack' = Factory!SetTop([f EXCEPT !.begun = TRUE])
        /\ UNCHANGED <<factoryStatus, signalCaught>>
    BY <1>5 DEF Factory!GenerateForPdf
  <2>2. [f EXCEPT !.begun = TRUE] = [f EXCEPT !.begun = TRUE, !.proto = f.proto]
    BY <1>3 DEF Factory!Frame
  <2>3. EnoughProto(P, [f EXCEPT !.begun = TRUE, !.proto = f.proto])
    BY <1>3 DEF GoodCall, EnoughProto, Factory!Frame
  <2>4. GoodStack(P, stack')
    BY <1>3, <1>4, <2>1, <2>2, <2>3
  <2> QED BY <1>1, <2>1, <2>4 DEF SizesInv
<1>6. CASE f.pdf \in WithProto
  <2>1. f.pdf \notin P
    BY <1>6 DEF SumsOfWholes
  <2>2. f.yield \in Nat /\ f.yield > 0
    BY <1>3, <2>1, FixedSizesPositive DEF AskedRight
  <2>3. size = IF f.proto # Factory!None THEN f.proto ELSE Factory!ProtoSize(f.yield)
    BY <2>2 DEF Factory!OwnProtoSize
  <2>4. size \in Nat /\ Ample(size, f.yield)
    <3>1. CASE f.proto # Factory!None
      BY <1>3, <2>1, <2>3, <3>1 DEF GoodCall, EnoughProto
    <3>2. CASE f.proto = Factory!None
      BY <2>2, <2>3, <3>2, ProtoIsAmple
    <3> QED BY <3>1, <3>2
  <2> HIDE DEF size
  <2>5. EnoughProto(P, [f EXCEPT !.begun = TRUE, !.proto = size])
    <3>1. Rounded(f.yield) <= size
      BY <2>2, <2>4, AmpleSuffices
    <3> QED BY <1>3, <2>4, <3>1 DEF EnoughProto, Factory!Frame
  <2>6. GoodStack(P, Factory!SetTop([f EXCEPT !.begun = TRUE, !.proto = size]))
    BY <1>4, <2>4, <2>5
  <2>7. \/ /\ stack' = Factory!SetTop([f EXCEPT !.begun = TRUE, !.proto = size])
           /\ signalCaught' = FALSE /\ UNCHANGED factoryStatus
        \/ factoryStatus' = "assert_failed" /\ UNCHANGED <<stack, signalCaught>>
    BY <1>6 DEF Factory!GenerateForPdf, size
  <2>8. GoodStack(P, stack') /\ signalCaught' \in BOOLEAN
        /\ factoryStatus' \in {"running", "assert_failed"}
    BY <1>1, <1>2, <2>6, <2>7 DEF SizesInv
  <2> QED BY <1>1, <2>8 DEF SizesInv
<1> QED BY <1>5, <1>6

LEMMA GenerateKeepsSizes ==
  ASSUME NEW P, SumsOfWholes(P), SizesInv(P), Factory!Generate
  PROVE  SizesInv(P)'
<1>1. PICK p \in DOMAIN Kind : \E asked \in Yields[p] :
        stack' = <<Factory!NewFrame(p, asked.yield, asked.extended, Factory!None)>>
  BY DEF Factory!Generate, Factory!Pdfs
<1>2. PICK asked \in Yields[p] :
        stack' = <<Factory!NewFrame(p, asked.yield, asked.extended, Factory!None)>>
  BY <1>1
<1>3. asked.extended = FALSE /\ asked.yield \in FixedSizes /\ asked.yield \in Nat
  <2>1. asked \in [yield: Nat, extended: BOOLEAN] /\ ~asked.extended
    BY ConstantTypes DEF SumsOfWholes
  <2> QED BY <2>1 DEF FixedSizes
<1> DEFINE new == Factory!NewFrame(p, asked.yield, FALSE, Factory!None)
<1>4. GoodCall(P, new) /\ Innermost(new)
  <2>1. AskedRight(P, p, asked.yield) /\ Factory!None \in Nat \cup {Factory!None}
    BY <1>3 DEF AskedRight
  <2> QED BY <2>1, NewIsGood
<1>5. stack' = <<new>>
  BY <1>2, <1>3
<1> HIDE DEF new
<1>6. GoodStack(P, <<new>>)
  <2>1. new \in Factory!Frame
    BY <1>4 DEF GoodCall
  <2>2. <<new>> \in Seq(Factory!Frame) /\ Len(<<new>>) = 1 /\ <<new>>[1] = new
        /\ 1..1 - 1 = {}
    BY <2>1
  <2> QED BY <1>4, <2>2 DEF GoodStack
<1>7. calls' \in 0..MaxCalls
  BY ConstantTypes DEF Factory!Generate, SizesInv
<1>8. GoodStack(P, stack')
  BY ONLY <1>5, <1>6, Zenon
<1> QED BY <1>7, <1>8 DEF Factory!Generate, SizesInv

LEMMA StepKeepsSizes ==
  ASSUME NEW P, SumsOfWholes(P), SizesInv(P), [GenerationNext]_allVars
  PROVE  SizesInv(P)'
<1>1. CASE UNCHANGED factoryVars
  BY <1>1 DEF factoryVars, SizesInv
<1>2. CASE Factory!NewFactory
  BY <1>2 DEF Factory!NewFactory, SizesInv
<1>3. CASE Factory!CatchSigabrt \/ Factory!RefuseAfterSigabrt
  <2>1. GoodStack(P, <<>>)
    BY DEF GoodStack
  <2> QED BY <1>3, <2>1 DEF Factory!CatchSigabrt, Factory!RefuseAfterSigabrt, SizesInv
<1>4. CASE Factory!Generate
  BY <1>4, GenerateKeepsSizes
<1>5. CASE Factory!GenerateForPdf
  BY <1>5, BeginKeepsSizes
<1>6. CASE Factory!TakeFromProto \/ Factory!GenerateEmpty \/ Factory!GenerateLeaf
  BY <1>6, LeafKeepsSizes
<1>7. CASE \/ Factory!DecomposeExtended \/ Factory!GenerateForProductPdf
           \/ Factory!GenerateForSimultaneousPdf
  BY <1>7, PassOnKeepsSizes
<1>8. CASE Factory!GenerateForAddedPdf
  BY <1>8, AddKeepsSizes
<1>9. CASE Factory!ReturnDecomposed
  BY <1>9, ReturnDecomposedKeepsSizes
<1> QED BY <1>1, <1>2, <1>3, <1>4, <1>5, <1>6, <1>7, <1>8, <1>9
       DEF GenerationNext, EventsNext, SizesNext, Factory!Next, allVars

LEMMA SizesMeanMatch ==
  ASSUME NEW P, SumsOfWholes(P), SizesInv(P)
  PROVE  SizesMatch
<1>1. ASSUME last # <<>>, last.requested > 0, Factory!KeepsYield(last.pdf)
      PROVE  Matches(last.entries, last.requested)
  <2>1. AskedRight(P, last.pdf, last.requested)
        /\ RightSize(P, last.pdf, last.requested, last.entries)
    BY <1>1 DEF SizesInv
  <2>2. CASE last.pdf \in P
    BY <1>1, <2>1, <2>2, RoundedMatches DEF AskedRight, RightSize
  <2>3. CASE last.pdf \notin P
    BY <1>1, <2>1, <2>3 DEF RightSize, Factory!KeepsYield
  <2> QED BY <2>2, <2>3
<1>2. factoryStatus = "merge_failed" => Factory!HalfEvents(last.requested)
  BY DEF SizesInv
<1> QED BY <1>1, <1>2 DEF SizesMatch, Factory!SizesMatch, Matches

LEMMA InitSizes ==
  ASSUME NEW P
  PROVE  GenerationInit => SizesInv(P)
<1>1. GoodStack(P, <<>>)
  BY DEF GoodStack
<1> SUFFICES ASSUME GenerationInit PROVE SizesInv(P)
  OBVIOUS
<1>2. /\ factoryStatus = "idle" /\ stack = <<>> /\ last = <<>>
      /\ signalCaught = FALSE /\ calls = 0
  BY DEF GenerationInit, Factory!Init
<1>3. 0 \in 0..MaxCalls
  BY ConstantTypes
<1>4. GoodStack(P, stack)
  BY ONLY <1>1, <1>2, Zenon
<1> QED BY <1>2, <1>3, <1>4 DEF SizesInv

(* When sums divide a fixed size among leaves and products of leaves, and  *)
(* their shares add up to it, every sample has the size asked for to the   *)
(* nearest whole event, however often an error of rounding is carried on,  *)
(* and the factors of a product have the same number of events, except for *)
(* a yield of half an event (ToyFactoryStd.cpp:592-915; "in case it        *)
(* exceeds 0.5 additional events will be generated for the next PDF").     *)
THEOREM SizesAddUp ==
  ASSUME NEW P, SumsOfWholes(P)
  PROVE  GenerationSpec => []SizesMatch
BY InitSizes, SizesMeanMatch, StepKeepsSizes, PTL DEF GenerationSpec

LEMMA SizesMeanProto ==
  ASSUME NEW P, AllInv, SizesInv(P)
  PROVE  ProtoSuffices /\ SlicesSuffice
<1>1. TypeOK
  BY TypesMeanTypeOK
<1>2. factoryStatus # "past_proto"
  BY DEF SizesInv
<1>3. stack \in Seq(Factory!Frame)
  BY DEF SizesInv, GoodStack
<1>4. Factory!TypeOK
  BY <1>3 DEF SizesInv, Factory!TypeOK, Factory!Pdfs
<1> QED BY <1>1, <1>2, <1>4
       DEF ProtoSuffices, SlicesSuffice, Factory!ProtoSuffices, Factory!SlicesSuffice

(* For such trees, which have no sum in another one, the proto data that   *)
(* GenerateForPdf makes for itself are enough: no slice that a sum cuts    *)
(* out for a sub PDF reaches beyond their end (ToyFactoryStd.cpp:786-829:  *)
(* 5 % more than the share, of data that are 5 % and more above the        *)
(* yield), nor is there a slice that a carried event makes too small; and  *)
(* the state on both sides stays within its types.                         *)
THEOREM ProtoIsEnough ==
  ASSUME NEW P, SumsOfWholes(P)
  PROVE  GenerationSpec => [](ProtoSuffices /\ SlicesSuffice)
<1>1. GenerationInit => AllInv /\ SizesInv(P)
  BY InitTyped, InitSizes, GenerationSamples
<1>2. AllInv /\ SizesInv(P) => ProtoSuffices /\ SlicesSuffice
  BY SizesMeanProto
<1>3. AllInv /\ SizesInv(P) /\ [GenerationNext]_allVars => (AllInv /\ SizesInv(P))'
  BY StepKeepsAll, StepKeepsSizes, GenerationSamples
<1> QED BY <1>1, <1>2, <1>3, PTL DEF GenerationSpec
=============================================================================
