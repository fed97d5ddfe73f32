------------------------------ MODULE ToySample ------------------------------
(***************************************************************************)
(* toy::ToyFactoryStd::Generate around GenerateForPdf (module ToyFactory): *)
(* parameters from a file and drawn by constraining PDFs, the shuffle that *)
(* appends the samples of sub PDFs, the sample of discrete variables and   *)
(* how it is merged with the sample of the PDF or mixed into it.           *)
(*                                                                         *)
(* A row of a data set maps its columns to where their values come from.   *)
(* The random generator may return any of its numbers.                     *)
(*                                                                         *)
(* External, modelled from their use: RooFit's data sets and argument      *)
(* sets.  RooDataSet::add keeps the values that the row added last had in  *)
(* the columns that are not in the new row.                                *)
(***************************************************************************)
EXTENDS Integers, SequencesExt

CONSTANTS
  Vars,        \* variables with a discrete distribution
  Observables, \* those of them in argset_generation_observables
  Cumulative,  \* Cumulative[v]: cumulative probabilities of the values of v
  ProbUnit,    \* parts of the probability 1
  Params,      \* parameters of the PDFs
  Unit,        \* parts of an event in a yield
  Requests,    \* configurations of a sample
  MaxDraw      \* bound: Poisson distributed numbers

(* parts: the sizes of the samples that GenerateForPdf appends, <<>> when  *)
(* no generation_pdf is set; foreign: the ones with other columns than the *)
(* first; columns: discrete variables it generates too.                    *)
Request ==
  [file: {"none", "missing", "there"},
   constraints: Seq([draws: SUBSET Params, needs: SUBSET Params]),
   parts: Seq(Nat), foreign: SUBSET Nat, columns: SUBSET Vars,
   discrete: Seq(Vars), yield: Nat, fixed: BOOLEAN]

ASSUME ToySampleAssumption ==
  /\ "x" \notin Vars
  /\ Observables \subseteq Vars
  /\ ProbUnit \in Nat \ {0}
  /\ Cumulative \in [Vars -> Seq(0..ProbUnit)]
  /\ Unit \in Nat \ {0}
  /\ Requests \subseteq Request
  /\ MaxDraw \in Nat

VARIABLES
  request,
  status,   \* what Generate does, or how it ended
  done,     \* constraints or parts that are done
  params,   \* params[p]: the constraint that drew its value, or a tag below
  recorded, \* set_constrained_parameters_: values by constraint
  data,     \* the sample of the PDF, at last the one returned
  part,     \* the sample to append
  newOrder, \* new_order of AppendDatasets
  choices,  \* history: the random numbers of its shuffle
  yield,    \* discrete_yield
  current,  \* values of the discrete variables
  turn,     \* turns of the loop of GenerateDiscreteSample
  sample,   \* data_discrete
  positions \* positions_slave

vars == <<request, status, done, params, recorded, data, part, newOrder, choices,
          yield, current, turn, sample, positions>>
parameterVars == <<params, recorded>>
shuffleVars == <<part, newOrder, choices>>
discreteVars == <<yield, current, turn, sample>>

FromConfig == 0
FromFile == -1

(* Where the value of a column comes from: an event of the PDF, a turn of  *)
(* the discrete sample, or neither.                                        *)
Cell == [by: {"pdf", "draw", "none"}, of: Nat]
NoCell == [by |-> "none", of |-> 0]

WithPdf == request.parts # <<>>
PdfColumns == {"x"} \cup request.columns
DiscreteVars == {request.discrete[i] : i \in DOMAIN request.discrete}

Working == {"parameters", "constraints", "continuous", "shuffling", "discrete",
            "drawing", "positions"}
Failures == {"no_data", "no_pdf", "no_discrete", "not_appendable", "not_disjoint",
             "argset_deleted", "terminated"}

TypeOK ==
  /\ request \in Requests
  /\ status \in Working \cup {"done"} \cup Failures
  /\ done \in Nat
  /\ params \in [Params -> Nat \cup {FromFile}]
  /\ DOMAIN recorded \subseteq Params
  /\ \/ data \in Seq([PdfColumns -> Cell])
     \/ data \in Seq([DiscreteVars -> Cell])
     \/ data \in Seq([PdfColumns \cup DiscreteVars -> Cell])
  /\ part \in Seq([PdfColumns -> Cell])
  /\ \A i \in DOMAIN newOrder : newOrder[i] \in 0..Len(newOrder) - 1
  /\ yield \in Nat
  /\ current \in [Vars -> Cell]
  /\ turn * Unit <= yield
  /\ sample \in Seq([DiscreteVars -> Cell])
  /\ positions \subseteq Nat

Init ==
  /\ request \in Requests
  /\ status = "parameters"
  /\ done = 0
  /\ params = [p \in Params |-> FromConfig]
  /\ recorded = <<>>
  /\ data = <<>>
  /\ part = <<>>
  /\ newOrder = <<>>
  /\ choices = <<>>
  /\ yield = 0
  /\ current = [v \in Vars |-> NoCell]
  /\ turn = 0
  /\ sample = <<>>
  /\ positions = {}

-----------------------------------------------------------------------------
(* Parameters.                                                             *)

(* A missing file, or nothing at all to generate, ends Generate; without a *)
(* PDF the file is not read.                                               *)
ReadParametersFromFile ==
  /\ status = "parameters"
  /\ LET fails == \/ request.file = "missing"
                  \/ request.file = "there" /\ ~WithPdf /\ request.discrete = <<>>
     IN  status' = IF fails THEN "no_data" ELSE "constraints"
  /\ params' = IF request.file = "there" /\ WithPdf
               THEN [p \in Params |-> FromFile] ELSE params
  /\ UNCHANGED <<request, done, recorded, data, shuffleVars, discreteVars, positions>>

(* Faulty variant: the file gives a value to every parameter again.        *)
BugFileOverwrites(constraint) == Params \ constraint.draws

(* The parameters read again from the file for the constraining PDF.       *)
ReadAgain(constraint) ==
  IF request.file = "there" THEN constraint.needs ELSE {}

(* Two rows, or sets of named values, as one; the first one comes first.   *)
SideBySide(row, other) ==
  [c \in DOMAIN row \cup DOMAIN other |-> IF c \in DOMAIN row THEN row[c] ELSE other[c]]

(* One constraining PDF after the other draws the parameters it            *)
(* constrains.  The set of drawn values takes one value for each name.     *)
DrawConstrainedParameters ==
  /\ status = "constraints"
  /\ \/ /\ request.constraints # <<>>
        /\ ~WithPdf
        /\ status' = "no_pdf"
        /\ UNCHANGED <<done, params, recorded>>
     \/ /\ WithPdf
        /\ done < Len(request.constraints)
        /\ LET k == done + 1
               constraint == request.constraints[k]
           IN  /\ params' = [p \in Params |->
                               IF p \in constraint.draws THEN k
                               ELSE IF p \in ReadAgain(constraint) THEN FromFile
                               ELSE params[p]]
               /\ recorded' = SideBySide(recorded, [p \in constraint.draws |-> k])
               /\ done' = k
        /\ UNCHANGED status
     \/ /\ done = Len(request.constraints)
        /\ status' = "continuous"
        /\ done' = 0
        /\ UNCHANGED <<params, recorded>>
  /\ UNCHANGED <<request, data, shuffleVars, discreteVars, positions>>

-----------------------------------------------------------------------------
(* The sample of the PDF.                                                  *)

EventRow(event) == [c \in PdfColumns |-> [by |-> "pdf", of |-> event]]
EventRows(from, count) == [i \in 1..count |-> EventRow(from + i)]

NumRows == Len(data) + Len(part)

(* GenerateForPdf: the first sample as it is, the next to be appended.     *)
(* Without a PDF there have to be discrete variables.                      *)
GenerateForPdf ==
  /\ status = "continuous"
  /\ IF done = Len(request.parts)
     THEN /\ status' = IF request.discrete # <<>> THEN "discrete"
                       ELSE IF WithPdf THEN "done" ELSE "no_data"
          /\ UNCHANGED <<done, data, part, newOrder, choices>>
     ELSE /\ done' = done + 1
          /\ LET rows == EventRows(Len(data), request.parts[done + 1])
             IN  IF done = 0
                 THEN /\ data' = rows
                      /\ UNCHANGED <<status, part, newOrder, choices>>
                 ELSE /\ part' = rows
                      /\ newOrder' = IF Len(data) + Len(rows) > 0 THEN <<0>> ELSE <<>>
                      /\ choices' = <<>>
                      /\ status' = "shuffling"
                      /\ UNCHANGED data
  /\ UNCHANGED <<request, parameterVars, discreteVars, positions>>

(* Faulty variant: the two assignments are swapped.                        *)
BugSwapped(order, j) ==
  LET i == Len(order)
  IN  IF j = i THEN Append(order, i)
      ELSE [Append(order, i) EXCEPT ![j + 1] = i]

(* The inside-out shuffle of Fisher and Yates: element i goes to position  *)
(* j, and the one that was there to the end.                               *)
PutAt(order, j) ==
  LET i == Len(order)
  IN  IF j = i THEN Append(order, i)
      ELSE Append([order EXCEPT ![j + 1] = i], order[j + 1])

Appendable == done \notin request.foreign

Shuffle ==
  /\ status = "shuffling"
  /\ Appendable
  /\ Len(newOrder) < NumRows
  /\ \E j \in 0..Len(newOrder) :
       /\ newOrder' = PutAt(newOrder, j)
       /\ choices' = Append(choices, j)
  /\ UNCHANGED <<request, status, done, parameterVars, data, part, discreteVars,
                 positions>>

RowAt(drawn) ==
  IF drawn < Len(data) THEN data[drawn + 1] ELSE part[drawn - Len(data) + 1]

AppendDatasets ==
  /\ status = "shuffling"
  /\ Appendable
  /\ Len(newOrder) = NumRows
  /\ data' = [i \in 1..NumRows |-> RowAt(newOrder[i])]
  /\ part' = <<>>
  /\ newOrder' = <<>>
  /\ choices' = <<>>
  /\ status' = "continuous"
  /\ UNCHANGED <<request, done, parameterVars, discreteVars, positions>>

(* Two samples with different columns are not appended.                    *)
RefuseToAppend ==
  /\ status = "shuffling"
  /\ ~Appendable
  /\ status' = "not_appendable"
  /\ UNCHANGED <<request, done, parameterVars, data, shuffleVars, discreteVars,
                 positions>>

-----------------------------------------------------------------------------
(* The sample of the discrete variables.                                   *)

(* As many events as the PDF's sample has; without one, the yield asked    *)
(* for or a Poisson distributed one.                                       *)
DiscreteYield ==
  IF WithPdf THEN {Unit * Len(data)}
  ELSE IF request.fixed THEN {request.yield}
  ELSE {Unit * n : n \in 0..MaxDraw}

PrepareDiscrete ==
  /\ status = "discrete"
  /\ yield' \in DiscreteYield
  /\ status' = IF DiscreteVars \subseteq Observables THEN "drawing"
               ELSE "no_discrete"
  /\ UNCHANGED <<request, done, parameterVars, data, shuffleVars, current, turn,
                 sample, positions>>

AddsEvent(got) == got # {}

(* r < cum_probs[j] for some j.                                            *)
HasValue(v, r) == \E j \in DOMAIN Cumulative[v] : r < Cumulative[v][j]

(* The yield is converted to int.                                          *)
MoreTurns == (turn + 1) * Unit <= yield

(* A turn of the loop: every variable draws a number; one beyond its       *)
(* probabilities leaves its value alone.                                   *)
GenerateDiscreteSample ==
  /\ status = "drawing"
  /\ MoreTurns
  /\ turn' = turn + 1
  /\ \E r \in [DiscreteVars -> 0..ProbUnit - 1] :
       LET got == {v \in DiscreteVars : HasValue(v, r[v])}
       IN  /\ current' = [v \in Vars |->
                            IF v \in got THEN [by |-> "draw", of |-> turn']
                            ELSE current[v]]
           /\ sample' = IF AddsEvent(got)
                        THEN Append(sample, [v \in DiscreteVars |-> current'[v]])
                        ELSE sample
  /\ UNCHANGED <<request, status, done, parameterVars, data, shuffleVars, yield,
                 positions>>

EndOfDraws == status = "drawing" /\ ~MoreTurns

(* No PDF: fewer events than the yield end the program (a throw with no    *)
(* exception to throw again).                                              *)
TakeDiscrete ==
  /\ EndOfDraws
  /\ ~WithPdf
  /\ IF Len(sample) * Unit < yield
     THEN status' = "terminated" /\ UNCHANGED data
     ELSE status' = "done" /\ data' = sample
  /\ UNCHANGED <<request, done, parameterVars, shuffleVars, discreteVars, positions>>

(* After a merge Generate deletes the argument set that it had asked data  *)
(* for, which is a part of data: undefined, it may go unnoticed or end the *)
(* program or the use of the sample.                                       *)
AfterMerge == {"done", "argset_deleted"}

(* As many events as the PDF's: side by side, if no column is in both.     *)
MergeDatasets ==
  /\ EndOfDraws
  /\ WithPdf
  /\ Len(sample) >= Len(data)
  /\ IF request.columns \cap DiscreteVars = {} /\ Len(sample) = Len(data)
     THEN /\ data' = [i \in DOMAIN data |-> SideBySide(data[i], sample[i])]
          /\ status' \in AfterMerge
     ELSE /\ status' = "not_disjoint"
          /\ UNCHANGED data
  /\ UNCHANGED <<request, done, parameterVars, shuffleVars, discreteVars, positions>>

StartMixing ==
  /\ EndOfDraws
  /\ WithPdf
  /\ Len(sample) < Len(data)
  /\ status' = "positions"
  /\ UNCHANGED <<request, done, parameterVars, data, shuffleVars, discreteVars,
                 positions>>

(* Faulty variant: positions among the first ones, one too few.            *)
BugFewPositions == 0..Len(sample) - 2

PositionRange == 0..Len(data) - 1

(* A position that is taken is drawn again.                                *)
DrawPosition ==
  /\ status = "positions"
  /\ Cardinality(positions) < Len(sample)
  /\ \E pos \in PositionRange : positions' = positions \cup {pos}
  /\ UNCHANGED <<request, status, done, parameterVars, data, shuffleVars, discreteVars>>

(* Faulty variant: n_slave is not counted up.                              *)
BugSlaveNotAdvanced(i) == sample[1]

(* The slave entry for the position i.                                     *)
SlaveAt(i) == sample[Cardinality({p \in positions : p < i}) + 1]

(* Row i of the mixed sample goes after the rows that are done.            *)
AddMixed(rows, i) ==
  LET before == IF rows = <<>> THEN [c \in PdfColumns |-> NoCell] ELSE Last(rows)
  IN  Append(rows, IF i \in positions
                   THEN [c \in PdfColumns |->
                           IF c \in DiscreteVars THEN SlaveAt(i)[c] ELSE before[c]]
                   ELSE data[i + 1])

MixMergeDatasets ==
  /\ status = "positions"
  /\ Cardinality(positions) = Len(sample)
  /\ data' = FoldLeft(AddMixed, <<>>, [i \in DOMAIN data |-> i - 1])
  /\ status' = "done"
  /\ UNCHANGED <<request, done, parameterVars, shuffleVars, discreteVars, positions>>

-----------------------------------------------------------------------------
Next ==
  \/ ReadParametersFromFile \/ DrawConstrainedParameters
  \/ GenerateForPdf \/ Shuffle \/ AppendDatasets \/ RefuseToAppend
  \/ PrepareDiscrete \/ GenerateDiscreteSample \/ TakeDiscrete \/ MergeDatasets
  \/ StartMixing \/ DrawPosition \/ MixMergeDatasets

Spec == Init /\ [][Next]_vars

-----------------------------------------------------------------------------
(* The choices of a shuffle, read off its result from the last one back:   *)
(* each order comes from one sequence of choices, so that all orders are   *)
(* equally likely.                                                         *)
PositionOf(order, x) == CHOOSE j \in 0..Len(order) - 1 : order[j + 1] = x

(* The order before element i was put in.                                  *)
TakeBack(order, i) ==
  SubSeq([order EXCEPT ![PositionOf(order, i) + 1] = order[i + 1]], 1, i)

ChoicesOf(order) ==
  LET n == Len(order)
      undo[i \in 1..n] == IF i = n THEN order ELSE TakeBack(undo[i + 1], i)
  IN  [i \in 1..n - 1 |-> PositionOf(undo[i + 1], i)]

(* AppendDatasets draws every permutation of the rows with the same        *)
(* probability: none comes from two sequences of random numbers.           *)
ShuffleUniform ==
  newOrder # <<>> =>
    /\ {newOrder[i] : i \in DOMAIN newOrder} = 0..Len(newOrder) - 1
    /\ ChoicesOf(newOrder) = choices

(* The sample with its discrete variables: the rows that were not replaced *)
(* are whole events of the PDF, none of them twice, and without replaced   *)
(* rows all of them; of the others each has an event of the discrete       *)
(* sample, once and in order; and the values of such an event are of one   *)
(* turn, when it has a single variable or all always get a value.          *)
EventsAskedFor == FoldLeft(LAMBDA events, size : events + size, 0, request.parts)
Kept == {i \in DOMAIN data : i - 1 \notin positions}
EventOf(i) == data[i]["x"].of

WholeEvents ==
  (status = "done" /\ WithPdf) =>
    /\ \A i \in Kept : \A c \in PdfColumns : data[i][c] = [by |-> "pdf", of |-> EventOf(i)]
    /\ \A i, k \in Kept : i # k => EventOf(i) # EventOf(k)
    /\ positions = {} => {EventOf(i) : i \in Kept} = 1..EventsAskedFor

DrawsUsedOnce ==
  (status = "done" /\ DiscreteVars \subseteq request.columns /\ WithPdf) =>
    \E replaced \in [DOMAIN sample -> DOMAIN data] :
      /\ Range(replaced) = DOMAIN data \ Kept
      /\ \A k, l \in DOMAIN sample : k < l => replaced[k] < replaced[l]
      /\ \A k \in DOMAIN sample :
           [v \in DiscreteVars |-> data[replaced[k]][v]] = sample[k]

Certain(v) == \A r \in 0..ProbUnit - 1 : HasValue(v, r)

FreshValues ==
  (Cardinality(DiscreteVars) = 1 \/ \A v \in DiscreteVars : Certain(v)) =>
    \A i \in DOMAIN sample : \A v, w \in DiscreteVars :
      sample[i][v].by = "draw" /\ sample[i][v] = sample[i][w]

MixedRight == WholeEvents /\ DrawsUsedOnce /\ FreshValues

(* When events are generated, the drawn parameters have the values that    *)
(* set_constrained_parameters() tells of: unless a parameter is drawn by   *)
(* two PDFs, or read again from the file for one that comes later.         *)
DrawnBy(p) == {k \in DOMAIN request.constraints : p \in request.constraints[k].draws}
ReadLater(p) ==
  /\ request.file = "there"
  /\ \E k \in DrawnBy(p) : \E l \in DOMAIN request.constraints :
       l > k /\ p \in request.constraints[l].needs

ConstrainedAsRecorded ==
  status \notin {"parameters", "constraints"} =>
    \A p \in DOMAIN recorded :
      (Cardinality(DrawnBy(p)) = 1 /\ ~ReadLater(p)) => params[p] = recorded[p]

(* Generate ends, with data or with an exception, though it looks for      *)
(* positions until it has enough; and not in the merge when probabilities  *)
(* add up to 1 for variables that the PDF does not generate, except for a  *)
(* yield that is not a whole number and no PDF to round it.                *)
CertainToMerge ==
  /\ \A v \in DiscreteVars : Certain(v)
  /\ DiscreteVars \cap request.columns = {}
  /\ WithPdf \/ request.yield % Unit = 0 \/ ~request.fixed

GenerateEnds ==
  <>(/\ status \notin Working
     /\ CertainToMerge => status \notin {"not_disjoint", "terminated"})
=============================================================================
