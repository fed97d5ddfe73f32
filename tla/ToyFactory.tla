----------------------------- MODULE ToyFactory -----------------------------
(***************************************************************************)
(* Generation of a toy sample by toy::ToyFactoryStd: GenerateForPdf takes  *)
(* a tree of RooFit PDFs apart, generates a sample for each leaf and puts  *)
(* the samples together again.  The recursion is a stack of frames.        *)
(*                                                                         *)
(* A sample is its number of entries.  Yields are real numbers in the      *)
(* code; here they are integers that count 1/Unit events.  The random      *)
(* generator may give any value up to a bound.                             *)
(*                                                                         *)
(* External, modelled from their use: RooFit's PDFs and data sets.         *)
(***************************************************************************)
EXTENDS Integers, Sequences

CONSTANTS
  Unit,           \* parts of an event
  Kind,           \* Kind[p]: the class of PDF p
  Subs,           \* Subs[p]: its sub PDFs
  Coefs,          \* Coefs[p]: the coefficients of a RooAddPdf
  ExpectedEvents, \* ExpectedEvents[p]: what expectedEvents returns
  WithProto,      \* the PDFs that have a section in proto_sections
  ProtoOnly,      \* leaves whose observables all come from the proto data
  Requests,       \* Requests[p]: the values of expected_yield, and whether the
                  \* size is not fixed, that come with generation_pdf p
  MaxDraw,        \* bound: Poisson distributed numbers
  MayAbort,       \* does RooFit send SIGABRT?
  MaxCalls        \* bound: calls of Generate

Pdfs == DOMAIN Kind
Kinds == {"leaf", "extend", "add", "product", "simultaneous"}
None == -1

ConstantsOK ==
  /\ Unit \in Nat \ {0}
  /\ Kind \in [Pdfs -> Kinds]
  /\ Subs \in [Pdfs -> Seq(Pdfs)]
  /\ Coefs \in [Pdfs -> Seq(Int)]
  /\ ExpectedEvents \in [Pdfs -> Nat]
  /\ WithProto \subseteq Pdfs
  /\ ProtoOnly \subseteq Pdfs
  /\ Requests \in [Pdfs -> SUBSET [yield: Nat, extended: BOOLEAN]]
  /\ MaxDraw \in Nat
  /\ MayAbort \in BOOLEAN
  /\ MaxCalls \in Nat

VARIABLES
  status,       \* of the last call of Generate
  stack,        \* the open calls of GenerateForPdf, the innermost last
  last,         \* the call of GenerateForPdf that ended last
  signalCaught, \* signal_caught_
  calls         \* calls of Generate so far

vars == <<status, stack, last, signalCaught, calls>>

(* The arguments and the local variables of a call of GenerateForPdf and   *)
(* of the function for the PDF's kind; sizes of data sets, or None.        *)
Frame ==
  [pdf: Pdfs,
   requested: Int,         \* expected_yield as passed
   yield: Int,             \* expected_yield
   extended: BOOLEAN,
   proto: Nat \cup {None}, \* entries in each set of proto_data
   begun: BOOLEAN,         \* inside the function for the PDF's kind
   next: Nat,              \* sub PDFs done
   lost: Int,              \* yield_lost_due_rounding
   protoPos: Int,          \* proto_dataset_pos
   data: Nat \cup {None}]  \* data->numEntries()

TypeOK ==
  /\ status \in {"idle", "running", "done", "aborted", "merge_failed",
                 "past_proto", "assert_failed"}
  /\ stack \in Seq(Frame)
  /\ last \in [pdf: Pdfs, requested: Int, extended: BOOLEAN, inner: BOOLEAN,
               entries: Nat] \cup {<<>>}
  /\ signalCaught \in BOOLEAN
  /\ calls \in 0..MaxCalls

Init ==
  /\ status = "idle"
  /\ stack = <<>>
  /\ last = <<>>
  /\ signalCaught = FALSE
  /\ calls = 0

-----------------------------------------------------------------------------
(* Arithmetic.                                                             *)

(* boost::math::iround: to the nearest integer, halves away from zero.     *)
Iround(y) == IF y >= 0 THEN (2 * y + Unit) \div (2 * Unit)
             ELSE -((Unit - 2 * y) \div (2 * Unit))

(* Conversion of a double to int.                                          *)
Truncate(y) == IF y >= 0 THEN y \div Unit ELSE -((-y) \div Unit)

Sqrt(n) == CHOOSE r \in 0..n : r * r <= n /\ (r + 1) * (r + 1) > n

(* 5% more, up to the next whole event: the number of turns of the loop    *)
(* that copies the proto entries of a sub PDF.                             *)
SliceSize(y) == IF y <= 0 THEN 0
                ELSE (21 * y + 20 * Unit - 1) \div (20 * Unit)

(* Faulty variant: the proto data are as large as the yield.               *)
BugExactProtoSize(y) == y \div Unit

(* (yield + 10 sqrt(yield)) * 1.05 + 100.                                  *)
ProtoSize(y) ==
  (21 * (y + 10 * Sqrt(y * Unit))) \div (20 * Unit) + 100

Poisson(mean) ==
  IF mean <= 0 THEN {0} ELSE {Unit * n : n \in 0..MaxDraw}

-----------------------------------------------------------------------------
Top == stack[Len(stack)]
Pop == SubSeq(stack, 1, Len(stack) - 1)
SetTop(frame) == [stack EXCEPT ![Len(stack)] = frame]

NewFrame(pdf, yield, extended, proto) ==
  [pdf |-> pdf, requested |-> yield, yield |-> yield, extended |-> extended,
   proto |-> proto, begun |-> FALSE, next |-> 0, lost |-> 0, protoPos |-> 0,
   data |-> None]

Call(frame, sub, yield, extended, proto) ==
  stack' = Append(SetTop(frame), NewFrame(sub, yield, extended, proto))

At(kind) == status = "running" /\ stack # <<>> /\ Kind[Top.pdf] = kind
MoreSubs == Top.next < Len(Subs[Top.pdf])
NextSub == Subs[Top.pdf][Top.next + 1]

(* Another call on the same factory after the last one has ended.  Its     *)
(* caller may have changed the configuration in between.                   *)
Generate ==
  /\ status \in {"idle", "done", "aborted"}
  /\ calls < MaxCalls
  /\ calls' = calls + 1
  /\ \E p \in Pdfs : \E request \in Requests[p] :
       stack' = <<NewFrame(p, request.yield, request.extended, None)>>
  /\ status' = "running"
  /\ last' = <<>>
  /\ UNCHANGED signalCaught

(* A new factory forgets the signal of an old one.                         *)
NewFactory ==
  /\ status \in {"done", "aborted"}
  /\ status' = "idle"
  /\ signalCaught' = FALSE
  /\ UNCHANGED <<stack, last, calls>>

(* GenerateForPdf begins: with a section for this PDF it generates proto   *)
(* data of the size of those it was given, or large enough for the yield.  *)
(* GenerateProtoSample asserts that the size is positive and uses a        *)
(* factory of its own.                                                     *)
OwnProtoSize ==
  IF Top.proto # None THEN Top.proto
  ELSE ProtoSize(IF Top.yield = 0 THEN ExpectedEvents[Top.pdf] ELSE Top.yield)

GenerateForPdf ==
  /\ status = "running"
  /\ stack # <<>>
  /\ ~Top.begun
  /\ \/ /\ Top.pdf \notin WithProto
        /\ stack' = SetTop([Top EXCEPT !.begun = TRUE])
        /\ UNCHANGED <<status, signalCaught>>
     \/ /\ Top.pdf \in WithProto
        /\ OwnProtoSize > 0
        /\ stack' = SetTop([Top EXCEPT !.begun = TRUE, !.proto = OwnProtoSize])
        /\ signalCaught' = FALSE
        /\ UNCHANGED status
     \/ /\ Top.pdf \in WithProto
        /\ OwnProtoSize <= 0
        /\ status' = "assert_failed"
        /\ UNCHANGED <<stack, signalCaught>>
  /\ UNCHANGED <<last, calls>>

(* The call at the top ends with a data set of the given size, which its   *)
(* caller appends to its own, merges into it or passes on.                 *)
Return(entries) ==
  LET caller == stack[Len(stack) - 1]
      back(data) == [Pop EXCEPT ![Len(Pop)] =
                       [caller EXCEPT !.next = @ + 1, !.data = data]]
  IN /\ last' = [pdf |-> Top.pdf, requested |-> Top.requested,
                 extended |-> Top.extended, inner |-> Len(stack) > 1,
                 entries |-> entries]
     /\ \/ /\ Len(stack) = 1
           /\ stack' = <<>>
           /\ status' = "done"
        \/ /\ Len(stack) > 1
           /\ caller.data = None
           /\ stack' = back(entries)
           /\ UNCHANGED status
        \/ /\ Len(stack) > 1
           /\ caller.data # None
           /\ Kind[caller.pdf] \in {"add", "simultaneous"}
           /\ stack' = back(caller.data + entries)
           /\ UNCHANGED status
        \/ \* MergeDatasets takes data sets of the same size only
           /\ Len(stack) > 1
           /\ caller.data # None
           /\ Kind[caller.pdf] = "product"
           /\ IF caller.data = entries
              THEN stack' = back(entries) /\ UNCHANGED status
              ELSE stack' = <<>> /\ status' = "merge_failed"

-----------------------------------------------------------------------------
(* A PDF that is not decomposed.                                           *)

(* All observables are in the proto data: the first entries of those.      *)
TakeFromProto ==
  /\ At("leaf") /\ Top.begun
  /\ Top.pdf \in ProtoOnly /\ Top.proto # None
  /\ LET wanted == IF Top.yield < 0 THEN 0 ELSE Iround(Top.yield)
     IN  Return(IF wanted < Top.proto THEN wanted ELSE Top.proto)
  /\ UNCHANGED <<signalCaught, calls>>

NeedsRooFit ==
  /\ At("leaf") /\ Top.begun
  /\ ~(Top.pdf \in ProtoOnly /\ Top.proto # None)

GenerateEmpty ==
  /\ NeedsRooFit
  /\ Iround(Top.yield) <= 0
  /\ Return(0)
  /\ UNCHANGED <<signalCaught, calls>>

GenerateLeaf ==
  /\ NeedsRooFit
  /\ Iround(Top.yield) > 0
  /\ ~signalCaught
  /\ IF Top.extended
     THEN \E n \in 0..MaxDraw : Return(n)
     ELSE Return(Iround(Top.yield))
  /\ UNCHANGED <<signalCaught, calls>>

(* RooFit sends SIGABRT inside of generate: SignalHandler jumps back and   *)
(* the exception leaves all calls.                                         *)
CatchSigabrt ==
  /\ MayAbort
  /\ NeedsRooFit
  /\ Iround(Top.yield) > 0
  /\ ~signalCaught
  /\ signalCaught' = TRUE
  /\ status' = "aborted"
  /\ stack' = <<>>
  /\ UNCHANGED <<last, calls>>

(* The flag of an earlier SIGABRT is still set: the same exception.        *)
RefuseAfterSigabrt ==
  /\ NeedsRooFit
  /\ Iround(Top.yield) > 0
  /\ signalCaught
  /\ status' = "aborted"
  /\ stack' = <<>>
  /\ UNCHANGED <<last, signalCaught, calls>>

-----------------------------------------------------------------------------
(* RooExtendPdf: the sub PDF with the yield asked for, or with its own.    *)
DecomposeExtended ==
  /\ At("extend") /\ Top.begun
  /\ MoreSubs
  /\ Call(Top, NextSub,
          IF Top.yield > 0 THEN Top.yield ELSE ExpectedEvents[Top.pdf],
          Top.extended, Top.proto)
  /\ UNCHANGED <<status, last, signalCaught, calls>>

(* RooAddPdf.  Without coefficients the sub PDFs are extended themselves;  *)
(* with as many coefficients as sub PDFs the coefficients are yields; with *)
(* one less they are fractions, the last one being what is left to 1.      *)
SumOf(s) ==
  LET sum[i \in 0..Len(s)] == IF i = 0 THEN 0 ELSE sum[i - 1] + s[i]
  IN  sum[Len(s)]

AddedYield ==
  IF Top.yield = 0 /\ Coefs[Top.pdf] = <<>> THEN ExpectedEvents[Top.pdf]
  ELSE Top.yield

SubYield ==
  LET coefs == Coefs[Top.pdf]
      i == Top.next + 1
  IN  IF coefs = <<>>
      THEN (ExpectedEvents[NextSub] * AddedYield) \div ExpectedEvents[Top.pdf]
      ELSE IF Len(coefs) = Len(Subs[Top.pdf]) THEN coefs[i]
      ELSE IF i <= Len(coefs) THEN (coefs[i] * Top.yield) \div Unit
      ELSE ((Unit - SumOf(coefs)) * Top.yield) \div Unit

(* Faulty variant: nothing is carried over.                                *)
BugNothingCarried(lost) == 0

(* What was lost by rounding is added to the next yield when it exceeds    *)
(* half an event.                                                          *)
Carried(lost) == IF 2 * lost \in {Unit, -Unit} THEN 0 ELSE Iround(lost)

(* The slice of the proto data reaches beyond their end.                   *)
PastProto(drawn) ==
  /\ Top.proto # None
  /\ SliceSize(drawn) > 0
  /\ Top.protoPos + SliceSize(drawn) > Top.proto

GenerateForAddedPdf ==
  /\ At("add") /\ Top.begun
  /\ MoreSubs
  /\ \E drawn \in IF Top.extended THEN Poisson(SubYield) ELSE {SubYield} :
       LET lost  == Top.lost + drawn - Unit * Iround(drawn)
           carry == Carried(lost)
           frame == [Top EXCEPT
                       !.lost = lost - Unit * carry,
                       !.protoPos = IF Top.proto = None THEN @
                                    ELSE Truncate(Unit * @ + drawn)]
       IN  \/ /\ ~PastProto(drawn)
              /\ Call(frame, NextSub, drawn + Unit * carry, FALSE,
                      IF Top.proto = None THEN None ELSE SliceSize(drawn))
              /\ UNCHANGED status
           \/ /\ PastProto(drawn)
              /\ status' = "past_proto"
              /\ UNCHANGED stack
  /\ UNCHANGED <<last, signalCaught, calls>>

(* RooProdPdf: all sub PDFs with the same number of events.                *)
GenerateForProductPdf ==
  /\ At("product") /\ Top.begun
  /\ MoreSubs
  /\ \E yield \in IF Top.extended /\ Top.next = 0 THEN Poisson(Top.yield)
                  ELSE {Top.yield} :
       Call([Top EXCEPT !.yield = yield], NextSub, yield, FALSE, Top.proto)
  /\ UNCHANGED <<status, last, signalCaught, calls>>

(* RooSimultaneous: each category's PDF with the yield asked for.          *)
GenerateForSimultaneousPdf ==
  /\ At("simultaneous") /\ Top.begun
  /\ MoreSubs
  /\ Call(Top, NextSub, Top.yield, Top.extended, Top.proto)
  /\ UNCHANGED <<status, last, signalCaught, calls>>

ReturnDecomposed ==
  /\ \E kind \in Kinds \ {"leaf"} : At(kind)
  /\ Top.begun
  /\ ~MoreSubs
  /\ Return(Top.data)
  /\ UNCHANGED <<signalCaught, calls>>

-----------------------------------------------------------------------------
Next ==
  \/ Generate \/ NewFactory \/ GenerateForPdf
  \/ TakeFromProto \/ GenerateEmpty \/ GenerateLeaf
  \/ CatchSigabrt \/ RefuseAfterSigabrt
  \/ DecomposeExtended \/ GenerateForAddedPdf \/ GenerateForProductPdf
  \/ GenerateForSimultaneousPdf \/ ReturnDecomposed

Spec == Init /\ [][Next]_vars

-----------------------------------------------------------------------------
(* Every category of a RooSimultaneous gets the whole yield; a sum whose   *)
(* coefficients are yields disregards the one asked for.                   *)
KeepsYield(p) ==
  /\ Kind[p] # "simultaneous"
  /\ Kind[p] = "add" => Len(Coefs[p]) < Len(Subs[p])

(* A sample with a fixed size has the requested size, to the nearest whole *)
(* event, however the rounding errors of the sub samples add up ("in case  *)
(* it exceeds 0.5 additional events will be generated for the next PDF");  *)
(* the factors of a product have the same number of entries, so that       *)
(* MergeDatasets can put them side by side.  Of a yield of exactly half an *)
(* event, which a sum may pass on, a leaf generates one event and a sum    *)
(* may generate none.                                                      *)
HalfEvents(yield) == (2 * yield) % (2 * Unit) = Unit

SizesMatch ==
  /\ (last # <<>> /\ last.requested > 0 /\ ~last.extended /\ KeepsYield(last.pdf))
       => /\ 2 * (Unit * last.entries - last.requested) <= Unit
          /\ 2 * (last.requested - Unit * last.entries) <= Unit
  /\ status = "merge_failed" => HalfEvents(last.requested)

(* A slice is cut before the events that rounding lost are added to the    *)
(* yield: the slice of this call is that of a yield without them.          *)
CutBeforeCarry ==
  /\ Top.proto \in (SliceSize(Top.yield) - 2)..(SliceSize(Top.yield) - 1)
  /\ \E i \in 1..Len(stack) - 1 :
       Kind[stack[i].pdf] = "add" /\ stack[i].proto # None

(* The proto entries of all sub PDFs are in the proto data set, with two   *)
(* exceptions: a sum whose yields are not those asked for, and a sum in    *)
(* another one with proto data that got a carried event on top of the      *)
(* yield its slice was cut for, so that the slice is one or two short.     *)
ProtoSuffices ==
  status = "past_proto" => ~KeepsYield(Top.pdf) \/ CutBeforeCarry

(* What the comment at lines 778-781 says of the 5%: they make a slice     *)
(* large enough for the rounding in the sums below, too.                   *)
SlicesSuffice == status = "past_proto" => ~KeepsYield(Top.pdf)
=============================================================================
