------------------------------ MODULE Blueprint ------------------------------
(***************************************************************************)
(* numerobis::blueprint::Blueprint: elements (parameters, dimensions and   *)
(* formulas) and PDFs are declared by name in any order; registering one   *)
(* checks that all it depends on is declared and puts it, what it depends  *)
(* on first, on a RooWorkspace.  Dimensions and components group them.     *)
(*                                                                         *)
(* The two registrars look names up in maps of their own; here a name is   *)
(* used for one kind of thing only.                                        *)
(*                                                                         *)
(* External, modelled from its use: RooWorkspace.                          *)
(***************************************************************************)
EXTENDS Naturals, Sequences, FiniteSets
LOCAL INSTANCE SequencesExt
LOCAL INSTANCE TLC

CONSTANTS
  Elements,     \* names of elements
  Pdfs,         \* names of PDFs
  Declarations, \* Declarations[name]: the lists of dependants it may come
                \* with; those of parameters and dimensions are empty
  Dimensions,   \* Dimensions[d]: the element and the PDF of dimension d
  Components,   \* Components[c]: dimensions, and name of the yield or ""
  Order,        \* all names in the order of the keys of a map
  Workspaces

Names == Elements \cup Pdfs

ASSUME BlueprintAssumption ==
  /\ Elements \cap Pdfs = {}
  /\ Declarations \in [Names -> SUBSET Seq(Names)]
  /\ \A d \in DOMAIN Dimensions :
       Dimensions[d].element \in Elements /\ Dimensions[d].pdf \in Pdfs
  /\ \A c \in DOMAIN Components :
       /\ Components[c].dimensions \in Seq(DOMAIN Dimensions)
       /\ Components[c].yield \in Elements \cup {""}
  /\ DOMAIN Dimensions \cup DOMAIN Components \subseteq {Order[i] : i \in DOMAIN Order}

VARIABLES
  declared,  \* elements_ and pdfs_: the dependants of each declared name
  assembled, \* dimensions_ and comps_
  objects,   \* flags of the declared objects and the workspaces, see below
  result     \* the last call of a registering function and what it returned

vars == <<declared, assembled, objects, result>>

(* ready: names with ready_ set; on: those with onworkspace_ set; imports: *)
(* what each workspace holds, in order; fault: how the program died.       *)
Objects ==
  [ready: SUBSET Names,
   on: SUBSET (Names \cup DOMAIN Components),
   imports: [Workspaces -> Seq(Names \cup DOMAIN Components)],
   fault: {"none", "recursion", "null", "unexpected", "deleted"}]

Results == [what: {"element", "pdf", "dimensions", "components"},
            name: Names \cup {""}, ws: Workspaces, is: BOOLEAN]

TypeOK ==
  /\ DOMAIN declared \subseteq Names
  /\ \A name \in DOMAIN declared : declared[name] \in Declarations[name]
  /\ assembled \subseteq DOMAIN Dimensions \cup DOMAIN Components
  /\ objects \in Objects
  /\ objects.on \ DOMAIN Components \subseteq objects.ready
  /\ objects.ready \subseteq DOMAIN declared
  /\ result \in Results \cup {<<>>}
  /\ (result # <<>> /\ result.is /\ result.name # "") => result.name \in objects.on

Init ==
  /\ declared = <<>>
  /\ assembled = {}
  /\ objects = [ready |-> {}, on |-> {}, imports |-> [w \in Workspaces |-> <<>>],
                fault |-> "none"]
  /\ result = <<>>

-----------------------------------------------------------------------------
(* The registrars.  An operator takes the objects o and gives the objects  *)
(* after the call and what it returns.                                     *)

Alive(o) == o.fault = "none"
Dies(o, fault) == [o |-> [o EXCEPT !.fault = fault], is |-> FALSE]

ElementIsDeclared(name) == name \in Elements \cap DOMAIN declared
IsDeclared(name) == name \in DOMAIN declared

(* A formula finds elements only, a PDF finds elements and PDFs.           *)
Finds(name, dependant) ==
  IF name \in Elements THEN ElementIsDeclared(dependant) ELSE IsDeclared(dependant)

AllReady(before, one) == before /\ one

(* Faulty variant: an object is ready as soon as it has been asked.         *)
BugReadyAnyway(o, name, is) == o.ready \cup {name}

NowReady(o, name, is) == IF is THEN o.ready \cup {name} ELSE o.ready

Also(done, one) == [o |-> one.o, is |-> AllReady(done.is, one.is)]

Remember(name, asked) ==
  LET ready == NowReady(asked.o, name, asked.is /\ Alive(asked.o))
  IN  [o |-> [asked.o EXCEPT !.ready = ready], is |-> name \in ready]

(* CheckReady of both registrars: not ready yet, an object asks all its    *)
(* dependants and remembers when they are ready.  calls: the names whose   *)
(* call is still open; a name among them recurs until the stack is full.   *)
CheckReady[o \in Objects, name \in Names, calls \in SUBSET Names] ==
  IF ~Alive(o) \/ ~IsDeclared(name) THEN [o |-> o, is |-> FALSE]
  ELSE IF name \in o.ready THEN [o |-> o, is |-> TRUE]
  ELSE IF name \in calls THEN Dies(o, "recursion")
  ELSE LET ask(done, dependant) ==
             Also(done, IF Finds(name, dependant)
                        THEN CheckReady[done.o, dependant, calls \cup {name}]
                        ELSE [o |-> done.o, is |-> FALSE])
       IN  Remember(name, FoldLeft(ask, [o |-> o, is |-> TRUE], declared[name]))

OnWorkspace(o, name, ws) == \E i \in DOMAIN o.imports[ws] : o.imports[ws][i] = name

NowOn(o, name) == o.on \cup {name}

(* AddToWorkspace of elements, PDFs and components: once in the life of an *)
(* object it is created from its dependants, of which none may be null,    *)
(* and imported.  Returns whether it is found on this workspace.           *)
AddToWorkspace(o, name, ws, dependants) ==
  IF name \notin o.on /\ ~dependants THEN Dies(o, "null")
  ELSE LET after == IF name \in o.on THEN o
                    ELSE [o EXCEPT !.imports[ws] = Append(@, name),
                                   !.on = NowOn(o, name)]
       IN  [o |-> after, is |-> OnWorkspace(after, name, ws)]

(* The end of Register, when the dependants are done.                      *)
RegisterItself(done, name, ws) ==
  IF ~Alive(done.o) THEN [done EXCEPT !.is = FALSE]
  ELSE AddToWorkspace(done.o, name, ws, done.is)

(* Register of both registrars, for all dependants and then for itself.    *)
Register[o \in Objects, name \in Names, ws \in Workspaces] ==
  LET step(done, dependant) ==
        IF ~Alive(done.o) THEN done
        ELSE IF ~Finds(name, dependant) \/ (name \in Pdfs /\
                                            ~CheckReady[done.o, dependant, {}].is)
        THEN Dies(done.o, "unexpected")
        ELSE Also(done, Register[done.o, dependant, ws])
      go(checked) ==
        IF ~checked.is THEN checked
        ELSE RegisterItself(
               FoldLeft(step, [o |-> checked.o, is |-> TRUE], declared[name]), name, ws)
  IN  go(CheckReady[o, name, {}])

-----------------------------------------------------------------------------
(* Dimensions and components.                                              *)

(* Faulty variant: only the dimension element counts.                      *)
BugPdfIgnored(element, pdf) == element

BothThere(element, pdf) == element /\ pdf

RegisterDimension(o, d, ws) ==
  LET both(element, pdf) == [o |-> pdf.o, is |-> BothThere(element.is, pdf.is)]
      then(element) == both(element, Register[element.o, Dimensions[d].pdf, ws])
  IN  IF d \notin assembled THEN [o |-> o, is |-> FALSE]
      ELSE then(Register[o, Dimensions[d].element, ws])

(* The PDF of a dimension is registered again to get its object.           *)
RegisterAgain(dimension, d, ws) ==
  IF d \notin assembled THEN dimension
  ELSE [dimension EXCEPT !.o = Register[dimension.o, Dimensions[d].pdf, ws].o]

(* The component, made of the PDFs and the yield, once in its life.         *)
AddComponentToWorkspace(o, c, ws) == AddToWorkspace(o, c, ws, TRUE)

RegisterWhole(all, c, ws) ==
  IF all.is /\ Alive(all.o) THEN AddComponentToWorkspace(all.o, c, ws)
  ELSE [o |-> all.o, is |-> FALSE]

(* The yield, if there is one, then each dimension with its PDF.           *)
RegisterComponent(o, c, ws) ==
  LET yield == IF Components[c].yield = "" THEN [o |-> o, is |-> TRUE]
               ELSE Register[o, Components[c].yield, ws]
      step(done, d) ==
        Also(done, RegisterAgain(RegisterDimension(done.o, d, ws), d, ws))
  IN  RegisterWhole(FoldLeft(step, yield, Components[c].dimensions), c, ws)

(* One after the other, in the order of the map; a failure does not stop   *)
(* the loop.                                                               *)
InOrder(among) == SelectSeq(Order, LAMBDA name : name \in among \cap assembled)

RegisterAll(among, ws) ==
  LET step(done, name) ==
        Also(done, IF name \in DOMAIN Dimensions
                   THEN RegisterDimension(done.o, name, ws)
                   ELSE RegisterComponent(done.o, name, ws))
  IN  FoldLeft(step, [o |-> objects, is |-> TRUE], InOrder(among))

-----------------------------------------------------------------------------
(* Actions.                                                                *)

(* A new name; the element or PDF knows the names it depends on.           *)
Declare(name) ==
  /\ Alive(objects)
  /\ ~IsDeclared(name)
  /\ \E dependants \in Declarations[name] :
       declared' = declared @@ (name :> dependants)
  /\ result' = <<>>
  /\ UNCHANGED <<assembled, objects>>

(* A name that is declared already: the map keeps the old object and       *)
(* deletes the new one.  For an element Declare then asks the deleted      *)
(* object for its name, with whatever outcome.                             *)
DeclareAgain(name) ==
  /\ Alive(objects)
  /\ IsDeclared(name)
  /\ \/ UNCHANGED objects
     \/ /\ name \in Elements
        /\ objects' = [objects EXCEPT !.fault = "deleted"]
  /\ result' = <<>>
  /\ UNCHANGED <<declared, assembled>>

(* AssembleDimension, AssembleComponent.                                   *)
Assemble(name) ==
  /\ Alive(objects)
  /\ name \notin assembled
  /\ assembled' = assembled \cup {name}
  /\ result' = <<>>
  /\ UNCHANGED <<declared, objects>>

Returns(what, name, ws, done) ==
  /\ objects' = done.o
  /\ result' = [what |-> what, name |-> name, ws |-> ws,
                is |-> done.is /\ Alive(done.o)]
  /\ UNCHANGED <<declared, assembled>>

RegisterElement(name, ws) ==
  /\ Alive(objects)
  /\ Returns("element", name, ws, Register[objects, name, ws])

RegisterPdf(name, ws) ==
  /\ Alive(objects)
  /\ Returns("pdf", name, ws, Register[objects, name, ws])

RegisterDimensions(ws) ==
  /\ Alive(objects)
  /\ Returns("dimensions", "", ws, RegisterAll(DOMAIN Dimensions, ws))

RegisterComponents(ws) ==
  /\ Alive(objects)
  /\ Returns("components", "", ws, RegisterAll(DOMAIN Components, ws))

Next ==
  \/ \E name \in Names : Declare(name) \/ DeclareAgain(name)
  \/ \E name \in DOMAIN Dimensions \cup DOMAIN Components : Assemble(name)
  \/ \E ws \in Workspaces :
       \/ \E name \in Elements : RegisterElement(name, ws)
       \/ \E name \in Pdfs : RegisterPdf(name, ws)
       \/ RegisterDimensions(ws)
       \/ RegisterComponents(ws)

Spec == Init /\ [][Next]_vars

-----------------------------------------------------------------------------
(* What has to be true, told without the registrars' recursion.            *)

DependantsOf(names) ==
  UNION {{declared[name][i] : i \in DOMAIN declared[name]} :
           name \in names \cap DOMAIN declared}

(* All that name depends on, in any number of steps.                       *)
Below(name) ==
  LET reach[n \in 0..Cardinality(Names)] ==
        IF n = 0 THEN {name} ELSE reach[n - 1] \cup DependantsOf(reach[n - 1])
  IN  DependantsOf(reach[Cardinality(Names)])

Cyclic(name) == \E other \in {name} \cup Below(name) : other \in Below(other)

Complete(name) ==
  /\ {name} \cup Below(name) \subseteq DOMAIN declared
  /\ name \in Elements => Below(name) \subseteq Elements
  /\ \A other \in Below(name) \cap Elements : Below(other) \subseteq Elements
  /\ ~Cyclic(name)

DimensionComplete(d) ==
  /\ d \in assembled
  /\ Complete(Dimensions[d].element)
  /\ Complete(Dimensions[d].pdf)

DimensionsOf(c) == {Components[c].dimensions[i] : i \in DOMAIN Components[c].dimensions}

YieldOf(c) == {Components[c].yield} \ {""}

ComponentComplete(c) ==
  /\ \A name \in YieldOf(c) : Complete(name)
  /\ \A d \in DimensionsOf(c) : DimensionComplete(d)

(* All that a component or a name needs on its workspace before itself.    *)
Needs(name) ==
  IF name \in Names THEN DependantsOf({name})
  ELSE YieldOf(name) \cup UNION {{Dimensions[d].element, Dimensions[d].pdf} :
                                   d \in DimensionsOf(name)}

(* A registering call succeeds if and only if what it asks for is complete *)
(* at the time of the call, whatever calls failed half way before, and as  *)
(* long as one workspace is in use.  This is what blueprint.h promises of  *)
(* RegisterDimensions and RegisterComponents: "If all dimensions could be  *)
(* registered properly, it will return true".                              *)
RegisteredIffComplete ==
  (/\ result # <<>>
   /\ Alive(objects)
   /\ \A ws \in Workspaces \ {result.ws} : objects.imports[ws] = <<>>) =>
  (result.is <=>
     CASE result.what \in {"element", "pdf"} -> Complete(result.name)
       [] result.what = "dimensions" ->
            \A d \in assembled \cap DOMAIN Dimensions : DimensionComplete(d)
       [] result.what = "components" ->
            \A c \in assembled \cap DOMAIN Components : ComponentComplete(c))

(* Each object is imported at most once, into one workspace, and after all *)
(* that it is made of; onworkspace_ says of which objects this is true.    *)
DependantsFirst ==
  /\ \A ws \in Workspaces : \A i \in DOMAIN objects.imports[ws] :
       \A name \in Needs(objects.imports[ws][i]) :
         \E j \in 1..(i - 1) : objects.imports[ws][j] = name
  /\ \A ws, other \in Workspaces :
       \A i \in DOMAIN objects.imports[ws], j \in DOMAIN objects.imports[other] :
         objects.imports[ws][i] = objects.imports[other][j] => ws = other /\ i = j
  /\ objects.on = UNION {{objects.imports[ws][i] : i \in DOMAIN objects.imports[ws]} :
                           ws \in Workspaces}

(* How registering can end the program: by a recursion without end only if *)
(* what is registered depends on a cycle, and always if it is an element   *)
(* that depends on elements alone; on a null pointer only when another     *)
(* workspace holds a part of it; and never by the exception that           *)
(* registrar.h calls "Unexpected exception that should not even occur".    *)
(* Until then what is ready and on a workspace fits together (TypeOK).     *)
FaultsExplained ==
  /\ TypeOK
  /\ objects.fault # "unexpected"
  /\ objects.fault = "recursion" => \E name \in DOMAIN declared : Cyclic(name)
  /\ (result # <<>> /\ result.what = "element" /\ Alive(objects)
      /\ Below(result.name) \subseteq Elements) => ~Cyclic(result.name)
  /\ objects.fault = "null" =>
       \E ws \in Workspaces \ {result.ws} : objects.imports[ws] # <<>>
=============================================================================
