--------------------------- MODULE FitResultTree ---------------------------
(***************************************************************************)
(* EasyFitResult: a fit result without RooFit that takes in one fit after  *)
(* the other (ConvertRooFitResult) and is bound to branches of a TTree, so *)
(* that TTree::Fill writes it and TTree::GetEntry overwrites it.           *)
(*                                                                         *)
(* A value is the fit that it comes from, Blank for a default, Junk for    *)
(* one that was never set.  Title, unit and value of a parameter are its   *)
(* value here; its limits, errors and flags are the rest, which only the   *)
(* branches of the floating final parameters store.  There is one tree and *)
(* one prefix for the names of branches.                                   *)
(*                                                                         *)
(* External, modelled from their use: TTree and RooFitResult.  A second    *)
(* branch of one name is possible, and the first is found by its name.     *)
(***************************************************************************)
EXTENDS Naturals, SequencesExt

CONSTANTS
  Results,  \* EasyFitResult objects
  Fits,     \* Fits[f]: number of statuses and names of the constant and of
            \* the floating parameters of the RooFitResult f, as far as the
            \* loops over them get: they end at the first that is no
            \* RooRealVar, as if it were the last
  NumSlots, \* places for statuses, 10 in the code
  Blank, Junk, Nobody,
  MaxFits,     \* bound: fits that are taken in
  MaxRows,     \* bound: entries that are filled
  MaxBranches  \* bound: branches of one name

Ids == DOMAIN Fits

ConstantsOK ==
  /\ NumSlots \in Nat
  /\ \A f \in Ids : /\ Fits[f].statuses \in Nat
                    /\ IsFiniteSet(Fits[f].const) /\ IsFiniteSet(Fits[f].float)
  /\ {Blank, Junk} \cap Ids = {} /\ Blank # Junk
  /\ Nobody \notin Results
  /\ MaxFits \in Nat

VARIABLES
  obj,    \* the objects that exist
  tree,   \* the tree with its entries and the addresses of its branches
  fitOf,  \* not in the code: the fit that an object has taken in last, or
          \* read from an entry; Blank if an exception, a branch or an entry
          \* that is not there left it with a part of one at most
  taken   \* not in the code: fits taken in, for the bound

vars == <<obj, tree, fitOf, taken>>

(* A parameter is known under its name in one of three maps; the maps are  *)
(* filled from the fit in the order of Rank.                               *)
Rank == [const |-> 1, final |-> 2, init |-> 3]

Keys(f) == {<<"const", n>> : n \in Fits[f].const}
           \cup {<<kind, n>> : kind \in {"init", "final"}, n \in Fits[f].float}

AllKeys == UNION {Keys(f) : f \in Ids}

Values == Ids \cup {Blank, Junk}

Variable == [value: Values, rest: Values]

Fixed == [num: Nat, slots: [1..NumSlots -> Values], head: Values]

(* Only the branches of the floating final parameters store the rest.      *)
Stored(k, v) == IF k[1] = "final" THEN v ELSE [value |-> v.value]

TypeOK ==
  /\ DOMAIN obj \subseteq Results
  /\ \A o \in DOMAIN obj :
       /\ obj[o].fixed \in Fixed
       /\ DOMAIN obj[o].pars \subseteq AllKeys
       /\ \A k \in DOMAIN obj[o].pars : obj[o].pars[k] \in Variable
  /\ fitOf \in [DOMAIN obj -> Ids \cup {Blank}]
  /\ taken \in 0..MaxFits
  /\ Range(tree.fixed) \subseteq DOMAIN obj \cup {Nobody}
  /\ DOMAIN tree.pars \subseteq AllKeys
  /\ \A k \in DOMAIN tree.pars : \A a \in Range(tree.pars[k]) :
       a = Nobody \/ (a \in DOMAIN obj /\ k \in DOMAIN obj[a].pars)
  /\ \A row \in Range(tree.rows) :
       /\ Len(row.fixed) = Len(tree.fixed)
       /\ DOMAIN row.pars = DOMAIN tree.pars
       /\ \A k \in DOMAIN tree.pars : Len(row.pars[k]) = Len(tree.pars[k])

(* The tree is new, or has an entry and none of the branches.              *)
Init ==
  /\ obj = <<>> /\ fitOf = <<>> /\ taken = 0
  /\ \E rows \in {<<>>, <<[fixed |-> <<>>, pars |-> <<>>, fit |-> Blank]>>} :
       tree = [fixed |-> <<>>, pars |-> <<>>, rows |-> rows]

-----------------------------------------------------------------------------
(* Taking in a RooFitResult.                                               *)

(* The statuses of a fit fill the first slots and the others are cleared.  *)
(* The count is set with every status, so never for a fit without one.     *)
BugStatuses(f, fixed) ==
  [fixed EXCEPT
     !.head = f,
     !.num = IF Fits[f].statuses = 0 THEN @ ELSE Fits[f].statuses,
     !.slots = [i \in 1..NumSlots |-> IF i <= Fits[f].statuses THEN f ELSE @[i]]]

Statuses(f, fixed) ==
  [fixed EXCEPT
     !.head = f,
     !.num = IF Fits[f].statuses = 0 THEN @ ELSE Fits[f].statuses,
     !.slots = [i \in 1..NumSlots |-> IF i <= Fits[f].statuses THEN f ELSE Blank]]

NewFixed == [num |-> 0, slots |-> [i \in 1..NumSlots |-> Blank], head |-> Junk]

Whole(f) == [value |-> f, rest |-> f]

(* The objects with one more.                                              *)
With(objects, o, x) ==
  [p \in DOMAIN objects \cup {o} |-> IF p = o THEN x ELSE objects[p]]

(* The object is not there if there are more statuses than slots: an       *)
(* exception leaves the constructor.                                       *)
ConstructFromFit(o, f) ==
  /\ o \notin DOMAIN obj
  /\ taken < MaxFits
  /\ Fits[f].statuses <= NumSlots
  /\ obj' = With(obj, o, [fixed |-> Statuses(f, NewFixed),
                          pars |-> [k \in Keys(f) |-> Whole(f)]])
  /\ fitOf' = With(fitOf, o, f)
  /\ taken' = taken + 1
  /\ UNCHANGED tree

(* The parameters that are set before the exception at the unknown one     *)
(* stop: those of the maps before, and any of the same map.                *)
SetBefore(f, stop, known) ==
  {done \in SUBSET (Keys(f) \cap known) :
     \A k \in Keys(f) :
       /\ Rank[k[1]] < Rank[stop[1]] => k \in done
       /\ Rank[k[1]] > Rank[stop[1]] => k \notin done}

(* No exception: there is a place for each status and each parameter.      *)
Returns(f, known) == Fits[f].statuses <= NumSlots /\ Keys(f) \subseteq known

(* What a conversion may have set when it ends, by an exception or not:    *)
(* nothing of the parameters if the statuses do not fit.                   *)
Transfers(f, known) ==
  IF Fits[f].statuses > NumSlots THEN {{}}
  ELSE IF Returns(f, known) THEN {Keys(f)}
  ELSE UNION {SetBefore(f, stop, known) :
                stop \in {k \in Keys(f) \ known :
                            \A l \in Keys(f) \ known : Rank[k[1]] <= Rank[l[1]]}}

(* What the fit does not have, the object keeps from before.               *)
ConvertRooFitResult(o, f) ==
  /\ o \in DOMAIN obj
  /\ taken < MaxFits
  /\ \E done \in Transfers(f, DOMAIN obj[o].pars) :
       /\ obj' = [obj EXCEPT
                    ![o] = [fixed |-> Statuses(f, @.fixed),
                            pars  |-> [k \in DOMAIN @.pars |->
                                         IF k \in done THEN Whole(f) ELSE @.pars[k]]]]
       /\ fitOf' = [fitOf EXCEPT ![o] = IF Returns(f, DOMAIN obj[o].pars) THEN f ELSE Blank]
  /\ taken' = taken + 1
  /\ UNCHANGED tree

Copy(o, other) ==
  /\ o \notin DOMAIN obj /\ other \in DOMAIN obj
  /\ obj' = With(obj, o, obj[other])
  /\ fitOf' = With(fitOf, o, fitOf[other])
  /\ UNCHANGED <<tree, taken>>

-----------------------------------------------------------------------------
(* The tree.                                                               *)

(* In a tree without entries a branch is created, also if there is one of  *)
(* its name; in a tree with entries the first one is bound anew.           *)
RegisterBranch(addresses, o) ==
  IF Len(tree.rows) = 0 THEN Append(addresses, o)
  ELSE IF addresses = <<>> THEN addresses
  ELSE [addresses EXCEPT ![1] = o]

(* A parameter without a branch is set to defaults, a constant or an       *)
(* initial one only as far as its branches would have stored it.           *)
NoBranch(k, v) ==
  IF k[1] = "final" THEN Whole(Blank) ELSE [v EXCEPT !.value = Blank]

HasBranch(k) == Len(tree.rows) = 0 \/ k \in DOMAIN tree.pars

Registered(o, known) ==
  [tree EXCEPT
     !.fixed = RegisterBranch(@, o),
     !.pars = [k \in DOMAIN @ \cup {l \in known : HasBranch(l)} |->
                 LET old == IF k \in DOMAIN @ THEN @[k] ELSE <<>>
                 IN IF k \in known THEN RegisterBranch(old, o) ELSE old]]

MoreBranches == Len(tree.rows) > 0 \/ Len(tree.fixed) < MaxBranches

RegisterBranchesInTree(o) ==
  /\ o \in DOMAIN obj
  /\ MoreBranches
  /\ tree' = Registered(o, DOMAIN obj[o].pars)
  /\ obj' = [obj EXCEPT
               ![o].pars = [k \in DOMAIN @ |->
                              IF HasBranch(k) THEN @[k] ELSE NoBranch(k, @[k])]]
  /\ fitOf' = [fitOf EXCEPT
                 ![o] = IF @ # Blank /\ \A k \in Keys(@) : HasBranch(k)
                        THEN @ ELSE Blank]
  /\ UNCHANGED taken

(* The parameters are those the tree has branches for.                     *)
ConstructFromTree(o) ==
  /\ o \notin DOMAIN obj
  /\ MoreBranches
  /\ obj' = With(obj, o, [fixed |-> NewFixed,
                          pars |-> [k \in DOMAIN tree.pars |-> Whole(Blank)]])
  /\ tree' = Registered(o, DOMAIN tree.pars)
  /\ fitOf' = With(fitOf, o, Blank)
  /\ UNCHANGED taken

(* The tree has branches for all parameters of the fit.                    *)
Stores(f) == f # Blank /\ Keys(f) \subseteq DOMAIN tree.pars

(* External: TTree::Fill writes what the addresses point to.               *)
Fill ==
  LET bound == Range(tree.fixed) \cup UNION {Range(tree.pars[k]) : k \in DOMAIN tree.pars}
      Unset(k) == Stored(k, Whole(Junk))
      NoFixed == [NewFixed EXCEPT !.slots = [i \in 1..NumSlots |-> Junk]]
  IN
  /\ Cardinality({i \in DOMAIN tree.rows : tree.rows[i].fixed # <<>>}) < MaxRows
  /\ tree.fixed # <<>>
  /\ tree' = [tree EXCEPT !.rows = Append(@,
       [fixed |-> [i \in DOMAIN tree.fixed |->
                     IF tree.fixed[i] = Nobody THEN NoFixed
                     ELSE obj[tree.fixed[i]].fixed],
        pars  |-> [k \in DOMAIN tree.pars |->
                     [i \in DOMAIN tree.pars[k] |->
                        IF tree.pars[k][i] = Nobody THEN Unset(k)
                        ELSE Stored(k, obj[tree.pars[k][i]].pars[k])]],
        fit   |-> IF \E o \in DOMAIN obj : bound = {o} /\ Stores(fitOf[o])
                  THEN fitOf[CHOOSE o \in DOMAIN obj : bound = {o}]
                  ELSE Blank])]
  /\ UNCHANGED <<obj, fitOf, taken>>

(* Where the branch is that writes last to what o has there, 0 if none.    *)
LastBound(addresses, o) == Max({0} \cup {i \in DOMAIN addresses : addresses[i] = o})

(* What is not stored is left as it was.                                   *)
Overwritten(k, v, stored) ==
  IF k[1] = "final" THEN stored ELSE [v EXCEPT !.value = stored.value]

(* External: TTree::GetEntry overwrites what the addresses point to.       *)
GetEntry(i) ==
  LET row == tree.rows[i]
      AtFixed(o) == LastBound(tree.fixed, o)
      AtPar(k, o) == IF k \in DOMAIN tree.pars THEN LastBound(tree.pars[k], o) ELSE 0
      Read(k, o) == IF AtPar(k, o) = 0 THEN obj[o].pars[k]
                    ELSE Overwritten(k, obj[o].pars[k], row.pars[k][AtPar(k, o)])
      AllRead(o) == /\ row.fit # Blank
                    /\ AtFixed(o) # 0
                    /\ \A k \in Keys(row.fit) : k \in DOMAIN obj[o].pars /\ AtPar(k, o) # 0
      SomeRead(o) == AtFixed(o) # 0 \/ \E k \in DOMAIN obj[o].pars : AtPar(k, o) # 0
  IN
  /\ i \in DOMAIN tree.rows
  /\ row.fixed # <<>>
  /\ obj' = [o \in DOMAIN obj |->
               [fixed |-> IF AtFixed(o) = 0 THEN obj[o].fixed ELSE row.fixed[AtFixed(o)],
                pars  |-> [k \in DOMAIN obj[o].pars |-> Read(k, o)]]]
  /\ fitOf' = [o \in DOMAIN obj |->
                 IF ~SomeRead(o) THEN fitOf[o]
                 ELSE IF AllRead(o) THEN row.fit ELSE Blank]
  /\ UNCHANGED <<tree, taken>>

(* External: the file is read again; no branch of the tree has an address. *)
Reopen ==
  /\ tree.rows # <<>>
  /\ tree' = [tree EXCEPT
                !.fixed = [i \in DOMAIN @ |-> Nobody],
                !.pars = [k \in DOMAIN @ |-> [i \in DOMAIN @[k] |-> Nobody]]]
  /\ UNCHANGED <<obj, fitOf, taken>>

-----------------------------------------------------------------------------
Next ==
  \/ \E o \in Results, f \in Ids : ConstructFromFit(o, f) \/ ConvertRooFitResult(o, f)
  \/ \E o \in Results, other \in Results : Copy(o, other)
  \/ \E o \in Results : RegisterBranchesInTree(o) \/ ConstructFromTree(o)
  \/ Fill \/ Reopen
  \/ \E i \in DOMAIN tree.rows : GetEntry(i)

Spec == Init /\ [][Next]_vars

-----------------------------------------------------------------------------
(* Properties.                                                             *)

(* The slots are those of the fit, with nothing left of the fits before.   *)
SlotsOf(f, slots) ==
  \A i \in 1..NumSlots : slots[i] = IF i <= Fits[f].statuses THEN f ELSE Blank

(* Covariance quality, FCN and EDM, the statuses and their number are      *)
(* those of the fit; a fit without statuses leaves the number as it was.   *)
FixedOf(f, fixed) ==
  /\ fixed.head = f
  /\ SlotsOf(f, fixed.slots)
  /\ Fits[f].statuses > 0 => fixed.num = Fits[f].statuses

(* A fit that went into an object without an exception, on into an entry   *)
(* of the tree and from there into another object is there with all that   *)
(* it has: whatever was in the object before, and whatever the fit lacks   *)
(* of it, however often the tree was bound or read again, its statuses and *)
(* every parameter that it has, constant, initial and final, are there and *)
(* are its own.  Only the parameters that it does not have are those of    *)
(* other fits beside it, and the number of statuses if it has none         *)
(* (ConvertRooFitResult, RegisterBranchesInTree).                          *)
ValuesOfOneFit ==
  /\ \A o \in DOMAIN obj : fitOf[o] # Blank =>
       /\ FixedOf(fitOf[o], obj[o].fixed)
       /\ \A k \in Keys(fitOf[o]) :
            /\ k \in DOMAIN obj[o].pars
            /\ obj[o].pars[k].value = fitOf[o]
            /\ k[1] = "final" => obj[o].pars[k].rest = fitOf[o]
  /\ \A row \in Range(tree.rows) : row.fit # Blank =>
       /\ \A fixed \in Range(row.fixed) : FixedOf(row.fit, fixed)
       /\ \A k \in Keys(row.fit) :
            /\ k \in DOMAIN row.pars
            /\ \A v \in Range(row.pars[k]) : v = Stored(k, Whole(row.fit))

(* The limits and the errors of one fit are never left beside the value of *)
(* another: a final parameter is taken in, read and cleared as a whole, in *)
(* all of its members, also where an object is bound to some branches only *)
(* or a conversion ends by an exception (CreateBranchesForVariable,        *)
(* EasyFitVariable::operator=).                                            *)
FinalsAreWhole ==
  \A o \in DOMAIN obj : \A k \in DOMAIN obj[o].pars :
    k[1] = "final" => obj[o].pars[k].rest = obj[o].pars[k].value

=============================================================================
