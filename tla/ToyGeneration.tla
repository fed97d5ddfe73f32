---------------------------- MODULE ToyGeneration ----------------------------
(***************************************************************************)
(* A program that generates toys, seen from two sides.  Task "sizes": the  *)
(* recursion of GenerateForPdf over a tree of PDFs, for the numbers of     *)
(* events.  Task "events": Generate around it, for the events themselves,  *)
(* given the sizes of the samples that the recursion appends.              *)
(***************************************************************************)
EXTENDS ToySample

CONSTANTS EventParts, Kind, Subs, Coefs, ExpectedEvents, WithProto, ProtoOnly,
          Yields, MayAbort, MaxCalls, MaxPoisson

VARIABLES task, factoryStatus, stack, last, signalCaught, calls

Factory == INSTANCE ToyFactory
             WITH Unit <- EventParts, Requests <- Yields, MaxDraw <- MaxPoisson,
                  status <- factoryStatus

ASSUME GenerationAssumption == Factory!ConstantsOK

factoryVars == <<factoryStatus, stack, last, signalCaught, calls>>

allVars == <<task, vars, factoryVars>>

GenerationInit ==
  /\ Init /\ Factory!Init
  /\ \/ task = "events"
     \/ task = "sizes" /\ request = CHOOSE r \in Requests : TRUE

EventsNext == task = "events" /\ Next /\ UNCHANGED <<task, factoryVars>>

SizesNext == task = "sizes" /\ Factory!Next /\ UNCHANGED <<task, vars>>

GenerationNext == EventsNext \/ SizesNext

GenerationSpec == GenerationInit /\ [][GenerationNext]_allVars

(* Generate goes on, and its generator does not return taken positions     *)
(* forever.                                                                *)
FairGeneration == GenerationSpec /\ WF_allVars(EventsNext)

-----------------------------------------------------------------------------
(* A sample with a fixed size has the size asked for, to the nearest whole *)
(* event, and factors of a product have equal sizes.                       *)
SizesMatch == Factory!SizesMatch

(* The proto entries of all sub PDFs are in the proto data set, but for a  *)
(* sum that got a carried event after its slice had been cut; and the      *)
(* state of both sides stays within its types, the sizes of proto data     *)
(* among them, which are never negative (ToyFactoryStd.cpp:770-833).       *)
ProtoSuffices == TypeOK /\ Factory!TypeOK /\ Factory!ProtoSuffices

(* "Making the proto dataset slightly larger (5%) to avoid problems when   *)
(* proto dataset size in subroutines matters and could be a few events too *)
(* small due to rounding (see yield_lost_due_rounding below)"              *)
(* (ToyFactoryStd.cpp:778-781): it is never too small.  So it is for sums  *)
(* without sums, but not for every sum in a sum (see CutBeforeCarry).      *)
SlicesSuffice == Factory!SlicesSuffice

(* Generate ends, with data or with an exception, and with data for a      *)
(* request that is certain to get them.                                    *)
GenerationEnds == task = "events" => GenerateEnds
=============================================================================
