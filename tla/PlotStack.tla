----------------------------- MODULE PlotStack -----------------------------
(***************************************************************************)
(* The plots of doofit::plotting and the file AllPlots.pdf they are        *)
(* stacked in.  Every Plot prints each of its pages into a file of its own *)
(* and into the stack of its PlotConfig; PlotSimultaneous makes a Plot for *)
(* each category, for each slice and for the sum, with a title page before *)
(* it.  ToyStudyStd::PlotEvaluatedParameters has an AllPlots.pdf too.      *)
(*                                                                         *)
(* External, modelled from its use: what TCanvas::Print of ROOT does with  *)
(* names that end in "[", in ".pdf" and in "]".                            *)
(***************************************************************************)
EXTENDS Integers, FiniteSets, SequencesExt

CONSTANTS
  Dir,        \* Dir[c]: plot directory of the PlotConfig c
  ToyDir,     \* plot directory of the toy study
  Appendices, \* appendices of the name AllPlots, with the empty one
  Plots,      \* Plots[p]: config, name and pdf of a Plot; a PlotSimultaneous
              \* has types of its category as well, those withPdf, and the
              \* inputs of a super category with their types
  Scalings,   \* pairs of scale types that are asked for
  Nobody,
  MaxCalls,   \* bound: calls that plot
  MaxToys,    \* bound: calls of PlotEvaluatedParameters
  MaxEmpty    \* bound: types without data

Configs == DOMAIN Dir

IsSimultaneous(p) == "types" \in DOMAIN Plots[p]

ASSUME PlotStackAssumption ==
  /\ "" \in Appendices
  /\ Nobody \notin Configs
  /\ Scalings \subseteq {"linear", "log", "both"} \X {"linear", "log", "both"}
  /\ MaxCalls \in Nat /\ MaxToys \in Nat
  /\ \A p \in DOMAIN Plots :
       /\ Plots[p].config \in Configs
       /\ Plots[p].name \in STRING
       /\ IF IsSimultaneous(p)
          THEN /\ Plots[p].types \in Seq(STRING)
               /\ Plots[p].inputs \in Seq([name: STRING, types: Seq(STRING)])
          ELSE Plots[p].pdf \in BOOLEAN

VARIABLES
  config,  \* plot_stack_open_ and plot_appendix_ of the PlotConfigs
  disk,    \* pages of the files, and the files that ROOT has open
  history  \* not in the code: see History

vars == <<config, disk, history>>

Stack(c) == <<Dir[c], config[c].appendix>>
Stacks   == {Dir[c] : c \in Configs} \cup {ToyDir}

IsPlot(page) == page.kind \in {"simple", "pull"}

(* made: the plots of each configuration in the order they were made, and  *)
(* before which of them its stack was opened; owner: who alone wrote to a  *)
(* file since it was opened; calls, toys: counted for the bounds.          *)
Init ==
  /\ config = [c \in Configs |-> [open |-> FALSE, appendix |-> ""]]
  /\ disk = [files |-> [f \in Stacks \X Appendices |-> <<>>], open |-> {}]
  /\ history = [made |-> [c \in Configs |-> <<>>], from |-> [c \in Configs |-> 0],
                owner |-> [f \in Stacks \X Appendices |-> Nobody],
                last |-> {}, calls |-> 0, toys |-> 0]

TypeOK ==
  /\ config \in [Configs -> [open: BOOLEAN, appendix: Appendices]]
  /\ disk.open \subseteq Stacks \X Appendices
  /\ Stacks \X Appendices \subseteq DOMAIN disk.files
  /\ history.owner \in [Stacks \X Appendices -> Configs \cup {Nobody}]
  /\ \A c \in Configs : history.from[c] <= Len(history.made[c])

-----------------------------------------------------------------------------
(* What ROOT does (external).                                              *)

(* A page goes to the end of a file that is open; a file that is not is    *)
(* written anew with the one page.                                         *)
PrintPage(d, f, page) ==
  LET pages == IF f \in d.open THEN Append(d.files[f], page) ELSE <<page>>
  IN  [files |-> [g \in DOMAIN d.files \cup {f} |-> IF g = f THEN pages ELSE d.files[g]],
       open |-> d.open]

EmptyPage == [kind |-> "empty"]

OpenFile(d, f) ==
  IF f \in d.open THEN PrintPage(d, f, EmptyPage)
  ELSE [files |-> [d.files EXCEPT ![f] = <<>>], open |-> d.open \cup {f}]

CloseFile(d, f) ==
  IF f \in d.open THEN [files |-> d.files, open |-> d.open \ {f}]
  ELSE PrintPage(d, f, EmptyPage)

-----------------------------------------------------------------------------
(* The pages of a plot.                                                    *)

(* Those of s that are wanted, in their order.                             *)
Chosen(s, among) ==
  FoldLeft(LAMBDA before, x : IF x \in among THEN Append(before, x) ELSE before, <<>>, s)

Axes(scale) == IF scale = "both" THEN {"linear", "log"} ELSE {scale}

AllScales ==
  << <<"linear", "linear">>, <<"log", "linear">>, <<"linear", "log">>, <<"log", "log">> >>

Scales(sc) == Chosen(AllScales, Axes(sc[1]) \X Axes(sc[2]))

(* The plots without pulls in all scales, then those with pulls if there   *)
(* is a PDF.  Name, kind and scale make the name of the file, of is what   *)
(* data is plotted.                                                        *)
Sheets(name, of, pdf, sc) ==
  LET Kind(kind) == [i \in DOMAIN Scales(sc) |->
                       [kind |-> kind, name |-> name, scale |-> Scales(sc)[i], of |-> of]]
  IN IF pdf THEN Kind("simple") \o Kind("pull") ELSE Kind("simple")

Title(name, of) == [kind |-> "title", name |-> name, of |-> of]

Concat(seqs) == FoldLeft(LAMBDA before, s : before \o s, <<>>, seqs)

PartName(p, type) == <<Plots[p].name, type>>

(* One title and one plot for each of the types.                           *)
BugParts(p, group, types, no, sc) ==
  Concat([i \in DOMAIN types |->
            LET of == <<no, group, types[i]>>
            IN Sheets(PartName(p, types[i]), of, TRUE, sc)
               \o <<Title(PartName(p, types[i]), of)>>])

Parts(p, group, types, no, sc) ==
  Concat([i \in DOMAIN types |->
            LET of == <<no, group, types[i]>>
            IN <<Title(PartName(p, types[i]), of)>>
               \o Sheets(PartName(p, types[i]), of, TRUE, sc)])

(* The types of the category that have a PDF, if categories are plotted.   *)
Categories(p, allCategories, withData) ==
  IF allCategories THEN Chosen(Plots[p].types, Plots[p].withPdf \cap withData) ELSE <<>>

(* The input categories are found while the types that have a PDF are gone *)
(* through.                                                                *)
Slices(p, allSlices, withData) ==
  IF allSlices /\ Plots[p].withPdf # {}
  THEN [i \in DOMAIN Plots[p].inputs |->
          Chosen(Plots[p].inputs[i].types, withData)]
  ELSE <<>>

-----------------------------------------------------------------------------
(* Printing.                                                               *)

(* A title goes to the stack, a plot to its own file and to the stack.     *)
FileOf(page) == <<page.name, page.kind, page.scale>>

PrintPages(d, f, pages) ==
  FoldLeft(LAMBDA e, page :
             PrintPage(IF IsPlot(page) THEN PrintPage(e, FileOf(page), page) ELSE e, f, page),
           d, pages)

(* The plots among pages.                                                  *)
PlotsOf(pages) ==
  FoldLeft(LAMBDA before, page : IF IsPlot(page) THEN Append(before, page) ELSE before,
           <<>>, pages)

OnDemandOpenPlotStack(d, c) ==
  IF config[c].open THEN d ELSE OpenFile(d, Stack(c))

(* What a call leaves: the stack of c is taken to be open.                 *)
Printed(c, d, plots) ==
  LET fresh == ~config[c].open /\ Stack(c) \notin disk.open
  IN
  /\ disk' = d
  /\ config' = [config EXCEPT ![c].open = TRUE]
  /\ history' = [history EXCEPT
       !.made[c] = @ \o plots,
       !.from[c] = IF fresh THEN Len(history.made[c]) ELSE @,
       !.owner[Stack(c)] = IF fresh \/ @ = c THEN c ELSE Nobody,
       !.last = {plots[i] : i \in DOMAIN plots},
       !.calls = @ + 1]

PlotHandler(p, sc) ==
  LET c == Plots[p].config
      pages == Sheets(<<Plots[p].name>>, <<history.calls, "all">>, Plots[p].pdf, sc)
  IN
  /\ ~IsSimultaneous(p)
  /\ history.calls < MaxCalls
  /\ Printed(c, PrintPages(OnDemandOpenPlotStack(disk, c), Stack(c), pages), pages)

(* The sum is left out if just one category was plotted, slices do not     *)
(* count.  Its title has the name of the plot before, and is printed       *)
(* before its plot opens the stack.                                        *)
PlotSimultaneousHandler(p, sc, allCategories, allSlices, withData) ==
  LET c == Plots[p].config
      no == history.calls
      categories == Categories(p, allCategories, withData)
      slices == Slices(p, allSlices, withData)
      parts == Parts(p, "category", categories, no, sc)
               \o Concat([i \in DOMAIN slices |->
                            Parts(p, Plots[p].inputs[i].name, slices[i], no, sc)])
      sum == IF Len(categories) = 1 THEN <<>>
             ELSE Sheets(<<Plots[p].name, "summed">>, <<no, "all">>, TRUE, sc)
      title == IF sum = <<>> THEN <<>>
               ELSE <<Title(IF parts = <<>> THEN <<>> ELSE Last(parts).name, <<no, "all">>)>>
      f == Stack(c)
  IN
  /\ IsSimultaneous(p)
  /\ history.calls < MaxCalls
  /\ Printed(c,
       IF parts # <<>>
       THEN PrintPages(OnDemandOpenPlotStack(disk, c), f, parts \o title \o sum)
       ELSE PrintPages(OnDemandOpenPlotStack(PrintPages(disk, f, title), c), f, sum),
       PlotsOf(parts) \o sum)

-----------------------------------------------------------------------------
BugClosePlotStack(c) ==
  /\ config[c].open
  /\ disk' = CloseFile(disk, Stack(c))
  /\ history' = [history EXCEPT !.owner[Stack(c)] = IF @ = c THEN c ELSE Nobody]
  /\ UNCHANGED config

(* Closing the stack, by a call or by the destructor of the PlotConfig.    *)
ClosePlotStack(c) ==
  /\ config[c].open
  /\ disk' = CloseFile(disk, Stack(c))
  /\ config' = [config EXCEPT ![c].open = FALSE]
  /\ history' = [history EXCEPT !.owner[Stack(c)] = IF @ = c THEN c ELSE Nobody]

set_plot_appendix(c, appendix) ==
  /\ config[c].appendix # appendix
  /\ config' = [config EXCEPT ![c].appendix = appendix]
  /\ history' = [history EXCEPT
       !.owner = [f \in DOMAIN @ |-> IF @[f] = c THEN Nobody ELSE @[f]]]
  /\ UNCHANGED disk

(* The page stands for the plots of all parameters.                        *)
PlotEvaluatedParameters ==
  LET f == <<ToyDir, "">>
      page == [kind |-> "toys"]
  IN
  /\ history.toys < MaxToys
  /\ disk' = CloseFile(PrintPage(OpenFile(disk, f), f, page), f)
  /\ history' = [history EXCEPT !.owner[f] = Nobody, !.toys = @ + 1]
  /\ UNCHANGED config

TypeNames(p) ==
  {Plots[p].types[i] : i \in DOMAIN Plots[p].types}
  \cup UNION {Range(Plots[p].inputs[i].types) : i \in DOMAIN Plots[p].inputs}

EmptyTypes(p) == {empty \in SUBSET TypeNames(p) : Cardinality(empty) <= MaxEmpty}

Next ==
  \/ \E p \in DOMAIN Plots, sc \in Scalings : PlotHandler(p, sc)
  \/ \E p \in {q \in DOMAIN Plots : IsSimultaneous(q)}, sc \in Scalings,
        allCategories, allSlices \in BOOLEAN : \E empty \in EmptyTypes(p) :
          PlotSimultaneousHandler(p, sc, allCategories, allSlices, TypeNames(p) \ empty)
  \/ \E c \in Configs : ClosePlotStack(c)
  \/ \E c \in Configs, appendix \in Appendices : set_plot_appendix(c, appendix)
  \/ PlotEvaluatedParameters

Spec == Init /\ [][Next]_vars

-----------------------------------------------------------------------------
(* Properties.                                                             *)

(* As long as no other configuration and no toy study has written to the   *)
(* file, the stack has all plots that were made since it was opened, each  *)
(* once and in their order, also after it was closed                       *)
(* (OnDemandOpenPlotStack at each of the places that print, ClosePlotStack *)
(* under the name the stack was opened with).                              *)
StackHasThePlots ==
  \A c \in Configs : history.owner[Stack(c)] = c =>
    PlotsOf(disk.files[Stack(c)])
      = SubSeq(history.made[c], history.from[c] + 1, Len(history.made[c]))

(* The types of the category and of its inputs all have different names.   *)
DifferentNames(p) ==
  LET types == <<Plots[p].types>>
               \o [i \in DOMAIN Plots[p].inputs |-> Plots[p].inputs[i].types]
  IN  \A i, j \in DOMAIN types : \A k \in DOMAIN types[i], l \in DOMAIN types[j] :
        types[i][k] # "summed" /\ (types[i][k] = types[j][l] => i = j /\ k = l)

(* No plot of a call overwrites another one of the same call: the file of  *)
(* each has that plot in the end, if the names allow it.                   *)
EveryPlotHasItsFile ==
  (\A p \in DOMAIN Plots : IsSimultaneous(p) => DifferentNames(p)) =>
    \A page \in history.last : disk.files[FileOf(page)] = <<page>>

(* Every plot is kept in both places it is printed to, its own file and    *)
(* the stack, which belongs to a directory and an appendix that exist      *)
(* (TypeOK).                                                               *)
PlotsAreKept == TypeOK /\ StackHasThePlots /\ EveryPlotHasItsFile

IsPartTitle(page) == page.kind = "title" /\ Len(page.of) = 3
IsPartPlot(page)  == IsPlot(page) /\ Len(page.of) = 3

(* The pages after the title are the plots it announces, all of them.      *)
BeforeItsPlots(pages, i) ==
  \E sc \in Scalings :
    LET sheets == Sheets(pages[i].name, pages[i].of, TRUE, sc)
        last   == i + Len(sheets)
    IN  /\ last <= Len(pages)
        /\ \A k \in 1..Len(sheets) : pages[i + k] = sheets[k]
        /\ last < Len(pages) => ~IsPartPlot(pages[last + 1])

(* Between the plot and the title of its part are plots of that part only. *)
BehindItsTitle(pages, j) ==
  \E i \in 1..j - 1 :
    /\ IsPartTitle(pages[i])
    /\ \A k \in i + 1..j : IsPlot(pages[k]) /\ pages[k].of = pages[i].of

TitledParts(pages) ==
  \A i \in 1..Len(pages) :
    /\ IsPartTitle(pages[i]) => BeforeItsPlots(pages, i)
    /\ IsPartPlot(pages[i]) => BehindItsTitle(pages, i)

(* In such a stack all the plots of a category or a slice, without and     *)
(* with pulls in each of the scales asked for, stand one after the other   *)
(* behind the title of these data and under the name it gives, none        *)
(* elsewhere and no others between (PlotSimultaneous.cpp:193-208, 345-363; *)
(* Plot.cpp prints them one by one).  Plots of other calls may come after  *)
(* them without a title.                                                   *)
TitlesLeadTheirPlots ==
  \A c \in Configs : history.owner[Stack(c)] = c => TitledParts(disk.files[Stack(c)])
=============================================================================
