----------------------------- MODULE FitsProofs -----------------------------
(***************************************************************************)
(* Proofs about Fits, for any number of EasyFits, SPlotFit2s and           *)
(* EasyFitResults and any fits: what an EasyFit gives out is of the setup  *)
(* it still has and stays what it is, sWeights come from the right shape   *)
(* but for the situations that are named, and the values of a fit stay     *)
(* together on their way through EasyFitResults and a tree, in any order   *)
(* of calls.                                                               *)
(*                                                                         *)
(* The argument for the last one: every address of a branch is that of a   *)
(* result that has the parameter (AddressesIn), every entry has a value    *)
(* for each of the branches, and where the entry is of one fit it has all  *)
(* that the fit has (RowOf), besides what was left of other fits.  So a    *)
(* result that reads these branches reads all of the fit.                  *)
(***************************************************************************)
EXTENDS Fits, SequenceTheorems, TLAPS

(* Of the facts in FoldFacts only those about numbers are needed.          *)
FirstOf(p, before, x) == before

Facts == INSTANCE FoldFacts WITH op <- FirstOf

-----------------------------------------------------------------------------
(* EasyFit.                                                                *)
AllArgs == {Args(o) : o \in Options}

AllResults == [pdf: Pdfs, data: Datas, args: AllArgs, free: SUBSET Params]

FitRec == [prepared: BOOLEAN, fitted: BOOLEAN, finalized: BOOLEAN,
           pdf: Pdfs \cup {Nothing}, data: Datas \cup {Nothing},
           options: Options, args: AllArgs \cup {Nothing},
           result: AllResults \cup {Nothing}]

(* The options are frozen into the arguments when the fit is prepared; a   *)
(* fit needs PDF and dataset, which then are fixed, and only a fit leaves  *)
(* a result.                                                               *)
GoodFit(f) ==
  /\ f.prepared => f.args = Args(f.options)
  /\ f.fitted => f.prepared /\ PdfAndDataReady(f)
  /\ f.finalized => f.fitted
  /\ f.result # Nothing =>
       /\ f.fitted
       /\ f.result.pdf = f.pdf /\ f.result.data = f.data /\ f.result.args = f.args

Good == {f \in FitRec : GoodFit(f)}

(* What a step may do with an object.                                      *)
Keeps(f, g) == GetFitResult(f) # Nothing => GetFitResult(g) = GetFitResult(f)

FitInv == fit \in [EasyFits -> Good]

-----------------------------------------------------------------------------
(* The three parts of Fit.                                                 *)
LEMMA PrepareGood ==
  ASSUME NEW f \in Good
  PROVE  PrepareFit(f) \in Good /\ Keeps(f, PrepareFit(f))
<1>1. CASE f.prepared \/ f.fitted \/ f.finalized
  BY <1>1 DEF PrepareFit, Keeps
<1>2. CASE ~(f.prepared \/ f.fitted \/ f.finalized)
  <2> DEFINE g == [f EXCEPT !.args = Args(f.options), !.prepared = TRUE]
  <2>1. PrepareFit(f) = g
    BY <1>2 DEF PrepareFit
  <2>2. Args(f.options) \in AllArgs
    BY DEF Good, FitRec, AllArgs
  <2>3. g \in FitRec
    BY <2>2 DEF Good, FitRec
  <2>4. GoodFit(g)
    BY <1>2 DEF Good, FitRec, GoodFit
  <2>5. Keeps(f, g)
    BY <1>2 DEF Keeps, GetFitResult
  <2> QED BY <2>1, <2>3, <2>4, <2>5 DEF Good
<1> QED BY <1>1, <1>2

LEMMA ExecuteGood ==
  ASSUME NEW f \in Good
  PROVE  ExecuteFit(f) \in Good /\ Keeps(f, ExecuteFit(f))
<1>1. CASE ~Executes(f)
  BY <1>1 DEF ExecuteFit, Keeps
<1>2. CASE Executes(f)
  <2> DEFINE g == [f EXCEPT !.result = Result(f), !.fitted = TRUE]
  <2>1. ExecuteFit(f) = g
    BY <1>2 DEF ExecuteFit
  <2>2. /\ f.prepared /\ ~f.fitted /\ ~f.finalized /\ PdfAndDataReady(f)
        /\ f.pdf \in Pdfs /\ f.data \in Datas
    BY <1>2 DEF Executes, PdfAndDataReady, Good, FitRec
  <2>3. f.args \in AllArgs /\ f.args = Args(f.options)
    BY <2>2 DEF Good, GoodFit, FitRec, AllArgs
  <2>4. {q \in Shape[f.pdf] : ~pars[q].constant} \in SUBSET Params
    BY <2>2, EasyFitAssumption
  <2>5. /\ Result(f) \in AllResults \cup {Nothing}
        /\ Result(f) # Nothing =>
             Result(f).pdf = f.pdf /\ Result(f).data = f.data /\ Result(f).args = f.args
    BY <2>2, <2>3, <2>4 DEF Result, AllResults
  <2>6. g \in FitRec
    BY <2>5 DEF Good, FitRec
  <2>7. GoodFit(g)
    BY <2>2, <2>3, <2>5 DEF Good, FitRec, GoodFit, PdfAndDataReady
  <2>8. Keeps(f, g)
    BY <2>2 DEF Keeps, GetFitResult
  <2> QED BY <2>1, <2>6, <2>7, <2>8 DEF Good
<1> QED BY <1>1, <1>2

LEMMA FinalizeGood ==
  ASSUME NEW f \in Good
  PROVE  FinalizeFit(f) \in Good /\ Keeps(f, FinalizeFit(f))
<1>1. CASE ~(f.prepared /\ f.fitted)
  BY <1>1 DEF FinalizeFit, Keeps
<1>2. CASE f.prepared /\ f.fitted
  <2> DEFINE g == [f EXCEPT !.finalized = TRUE]
  <2>1. FinalizeFit(f) = g
    BY <1>2 DEF FinalizeFit
  <2>2. g \in FitRec
    BY DEF Good, FitRec
  <2>3. GoodFit(g)
    BY <1>2 DEF Good, FitRec, GoodFit, PdfAndDataReady
  <2>4. Keeps(f, g)
    BY <1>2 DEF Keeps, GetFitResult, Good, FitRec
  <2> QED BY <2>1, <2>2, <2>3, <2>4 DEF Good
<1> QED BY <1>1, <1>2

LEMMA FittedGood ==
  ASSUME NEW f \in Good
  PROVE  Fitted(f) \in Good /\ Keeps(f, Fitted(f))
<1> DEFINE g == PrepareFit(f)
           h == ExecuteFit(g)
<1>1. g \in Good /\ Keeps(f, g)
  BY PrepareGood
<1>2. h \in Good /\ Keeps(g, h)
  BY <1>1, ExecuteGood
<1>3. FinalizeFit(h) \in Good /\ Keeps(h, FinalizeFit(h))
  BY <1>2, FinalizeGood
<1> QED BY <1>1, <1>2, <1>3 DEF Fitted, Keeps

-----------------------------------------------------------------------------
(* Setters: the options before the fit is prepared, the PDF and dataset    *)
(* before both are known.                                                  *)
LEMMA OptionsGood ==
  ASSUME NEW f \in Good, NEW o \in Options, CheckSettingOptionsOk(f)
  PROVE  [f EXCEPT !.options = o] \in Good /\ Keeps(f, [f EXCEPT !.options = o])
<1> DEFINE g == [f EXCEPT !.options = o]
<1>1. ~f.prepared
  BY DEF CheckSettingOptionsOk
<1>2. g \in FitRec
  BY DEF Good, FitRec
<1>3. GoodFit(g)
  BY <1>1 DEF Good, FitRec, GoodFit, PdfAndDataReady
<1>4. Keeps(f, g)
  BY <1>1 DEF Keeps, GetFitResult
<1> QED BY <1>2, <1>3, <1>4 DEF Good

LEMMA SetupGood ==
  ASSUME NEW f \in Good, NEW p \in Pdfs \cup {Nothing}, NEW d \in Datas \cup {Nothing},
         ~PdfAndDataReady(f)
  PROVE  /\ [f EXCEPT !.pdf = p, !.data = d] \in Good
         /\ Keeps(f, [f EXCEPT !.pdf = p, !.data = d])
<1> DEFINE g == [f EXCEPT !.pdf = p, !.data = d]
<1>1. ~f.fitted
  BY DEF Good, GoodFit
<1>2. g \in FitRec
  BY DEF Good, FitRec
<1>3. GoodFit(g)
  BY <1>1 DEF Good, FitRec, GoodFit
<1>4. Keeps(f, g)
  BY <1>1 DEF Keeps, GetFitResult
<1> QED BY <1>2, <1>3, <1>4 DEF Good

-----------------------------------------------------------------------------
(* A step changes at most one EasyFit, into a good one that keeps a result *)
(* that was given out.                                                     *)
OneStep(e, g) == g \in Good /\ Keeps(fit[e], g) /\ fit' = [fit EXCEPT ![e] = g]

LEMMA OptionStep ==
  ASSUME FitInv, NEW e \in EasyFits, NEW o \in Options, CheckSettingOptionsOk(fit[e]),
         fit' = [fit EXCEPT ![e].options = o]
  PROVE  \E g \in Good : OneStep(e, g)
<1> DEFINE g == [fit[e] EXCEPT !.options = o]
<1>1. fit[e] \in Good
  BY DEF FitInv
<1>2. g \in Good /\ Keeps(fit[e], g)
  BY <1>1, OptionsGood
<1>3. fit' = [fit EXCEPT ![e] = g]
  BY DEF FitInv
<1> QED BY <1>2, <1>3 DEF OneStep

LEMMA EasyStep ==
  ASSUME FitInv, FitNext
  PROVE  \E e \in EasyFits : \E g \in Good : OneStep(e, g)
<1>1. PICK e \in EasyFits :
        \/ \E p \in Pdfs \cup {Nothing}, d \in Datas \cup {Nothing} : SetPdfAndDataSet(e, p, d)
        \/ \E strategy \in Strategies : SetStrategy(e, strategy)
        \/ \E save \in BOOLEAN : SetSave(e, save)
        \/ \E minos \in BOOLEAN : SetMinos(e, minos)
        \/ SetMinosPars(e)
        \/ Fit(e)
  BY EasyFitAssumption DEF FitNext
<1>2. fit[e] \in Good /\ fit[e].options \in Options
  BY DEF FitInv, Good, FitRec
<1>3. CASE \E p \in Pdfs \cup {Nothing}, d \in Datas \cup {Nothing} : SetPdfAndDataSet(e, p, d)
  <2>1. PICK p \in Pdfs \cup {Nothing}, d \in Datas \cup {Nothing} : SetPdfAndDataSet(e, p, d)
    BY <1>3
  <2> DEFINE g == [fit[e] EXCEPT !.pdf = p, !.data = d]
  <2>2. g \in Good /\ Keeps(fit[e], g)
    BY <1>2, <2>1, SetupGood DEF SetPdfAndDataSet
  <2>3. fit' = [fit EXCEPT ![e] = g]
    BY <2>1 DEF FitInv, SetPdfAndDataSet
  <2> QED BY <2>2, <2>3 DEF OneStep
<1>4. CASE \E strategy \in Strategies : SetStrategy(e, strategy)
  <2>1. PICK strategy \in Strategies : SetStrategy(e, strategy)
    BY <1>4
  <2> DEFINE o == [fit[e].options EXCEPT !.strategy = strategy]
  <2>2. strategy \in 0..2
    BY <2>1, EasyFitAssumption DEF SetStrategy
  <2>3. o \in Options
    BY <1>2, <2>2 DEF Options
  <2>4. CheckSettingOptionsOk(fit[e]) /\ fit' = [fit EXCEPT ![e].options = o]
    BY <2>1 DEF SetStrategy, SetOption
  <2> QED BY <2>3, <2>4, OptionStep
<1>5. CASE \E save \in BOOLEAN : SetSave(e, save)
  <2>1. PICK save \in BOOLEAN : SetSave(e, save)
    BY <1>5
  <2> DEFINE o == [fit[e].options EXCEPT !.save = save]
  <2>2. o \in Options
    BY <1>2 DEF Options
  <2>3. CheckSettingOptionsOk(fit[e]) /\ fit' = [fit EXCEPT ![e].options = o]
    BY <2>1 DEF SetSave, SetOption
  <2> QED BY <2>2, <2>3, OptionStep
<1>6. CASE \E minos \in BOOLEAN : SetMinos(e, minos)
  <2>1. PICK minos \in BOOLEAN : SetMinos(e, minos)
    BY <1>6
  <2> DEFINE o == [fit[e].options EXCEPT !.minos = minos]
  <2>2. o \in Options
    BY <1>2 DEF Options
  <2>3. CheckSettingOptionsOk(fit[e]) /\ fit' = [fit EXCEPT ![e].options = o]
    BY <2>1 DEF SetMinos, SetOption
  <2> QED BY <2>2, <2>3, OptionStep
<1>7. CASE SetMinosPars(e)
  <2> DEFINE o == [fit[e].options EXCEPT !.minos = TRUE, !.minosPars = TRUE]
  <2>1. o \in Options
    BY <1>2 DEF Options
  <2>2. CheckSettingOptionsOk(fit[e]) /\ fit' = [fit EXCEPT ![e].options = o]
    BY <1>7 DEF SetMinosPars, FitInv
  <2> QED BY <2>1, <2>2, OptionStep
<1>8. CASE Fit(e)
  <2>1. Fitted(fit[e]) \in Good /\ Keeps(fit[e], Fitted(fit[e]))
    BY <1>2, FittedGood
  <2>2. fit' = [fit EXCEPT ![e] = Fitted(fit[e])]
    BY <1>8 DEF Fit
  <2> QED BY <2>1, <2>2 DEF OneStep
<1> QED BY <1>1, <1>3, <1>4, <1>5, <1>6, <1>7, <1>8

(* SPlotFit2::Fit has the result saved, if it still may.                   *)
LEMMA SavingGood ==
  ASSUME NEW f \in Good
  PROVE  Saving(f) \in Good /\ Keeps(f, Saving(f))
<1>1. CASE CheckSettingOptionsOk(f)
  <2> DEFINE o == [f.options EXCEPT !.save = TRUE]
  <2>1. o \in Options
    BY DEF Good, FitRec, Options
  <2>2. Saving(f) = [f EXCEPT !.options = o]
    BY <1>1 DEF Saving, Good, FitRec
  <2> QED BY <1>1, <2>1, <2>2, OptionsGood
<1>2. CASE ~CheckSettingOptionsOk(f)
  BY <1>2 DEF Saving, Keeps
<1> QED BY <1>1, <1>2

LEMMA SPlotStep ==
  ASSUME FitInv, NEW s \in SPlots, FitWithEasyFit(s)
  PROVE  fit' = fit \/ \E e \in EasyFits : \E g \in Good : OneStep(e, g)
<1> DEFINE e == splot[s].easyfitter
           before == Saving(fit[e])
<1>1. fit' = [fit EXCEPT ![e] = Fitted(before)]
  BY DEF FitWithEasyFit
<1>2. CASE e \notin EasyFits
  BY <1>1, <1>2 DEF FitInv
<1>3. CASE e \in EasyFits
  <2>1. fit[e] \in Good
    BY <1>3 DEF FitInv
  <2>2. before \in Good /\ Keeps(fit[e], before)
    BY <2>1, SavingGood
  <2>3. Fitted(before) \in Good /\ Keeps(before, Fitted(before))
    BY <2>2, FittedGood
  <2>4. Keeps(fit[e], Fitted(before))
    BY <2>2, <2>3 DEF Keeps
  <2> QED BY <1>1, <1>3, <2>3, <2>4 DEF OneStep
<1> QED BY <1>2, <1>3

LEMMA AnyStep ==
  ASSUME FitInv, [Next]_vars
  PROVE  fit' = fit \/ \E e \in EasyFits : \E g \in Good : OneStep(e, g)
<1>1. CASE FitNext
  BY <1>1, EasyStep
<1>2. CASE \E s \in SPlots : SPlotFit(s)
  <2>1. PICK s \in SPlots : SPlotFit(s)
    BY <1>2
  <2>2. CASE FitWithEasyFit(s)
    BY <2>2, SPlotStep
  <2>3. CASE ~FitWithEasyFit(s)
    BY <2>1, <2>3 DEF SPlotFit, FitWithoutEasyFit, FitCrashes
  <2> QED BY <2>2, <2>3
<1>3. CASE ~FitNext /\ ~\E s \in SPlots : SPlotFit(s)
  BY <1>3 DEF Next, vars, Construct, ConstructFromEasyFit, ConstructFromPdf,
              set_easyfitter, set_input_data, WriteParametersFile
<1> QED BY <1>1, <1>2, <1>3

LEMMA InitGood == Init => FitInv
<1> SUFFICES ASSUME Init PROVE FitInv
  OBVIOUS
<1>1. Defaults \in Options
  BY EasyFitAssumption DEF Defaults, Options
<1>2. New \in FitRec
  BY <1>1 DEF New, FitRec
<1>3. GoodFit(New)
  BY DEF New, GoodFit
<1> QED BY <1>2, <1>3 DEF Init, FitInit, FitInv, Good

LEMMA StepGood == FitInv /\ [Next]_vars => FitInv'
<1> SUFFICES ASSUME FitInv, [Next]_vars PROVE FitInv'
  OBVIOUS
<1>1. CASE fit' = fit
  BY <1>1 DEF FitInv, Good, GoodFit, FitRec, PdfAndDataReady, Args, Options,
              AllArgs, AllResults
<1>2. CASE \E e \in EasyFits : \E g \in Good : OneStep(e, g)
  BY <1>2 DEF FitInv, OneStep, Good, GoodFit, FitRec, PdfAndDataReady, Args, Options,
              AllArgs, AllResults
<1> QED BY <1>1, <1>2, AnyStep

LEMMA AlwaysGood == Spec => []FitInv
<1> QED BY InitGood, StepGood, PTL DEF Spec

(* A result that is given out is that of the PDF, the dataset and the      *)
(* options the EasyFit still has, for any number of EasyFits, SPlotFit2s,  *)
(* PDFs and datasets and any order of calls.                               *)
THEOREM ResultOfTheSetup == Spec => []ResultIsOfTheSetup
<1>1. FitInv => ResultIsOfTheSetup
  <2> SUFFICES ASSUME FitInv, NEW e \in EasyFits, GetFitResult(fit[e]) # Nothing
               PROVE  /\ GetFitResult(fit[e]).pdf = fit[e].pdf
                      /\ GetFitResult(fit[e]).data = fit[e].data
                      /\ GetFitResult(fit[e]).args = Args(fit[e].options)
    BY DEF ResultIsOfTheSetup
  <2>1. GoodFit(fit[e])
    BY DEF FitInv, Good
  <2>2. /\ fit[e].prepared /\ fit[e].result # Nothing
        /\ GetFitResult(fit[e]) = fit[e].result
    BY DEF GetFitResult
  <2> QED BY <2>1, <2>2 DEF GoodFit
<1> QED BY <1>1, AlwaysGood, PTL

(* No later call fits again or replaces a result that was given out.       *)
THEOREM ResultStays == Spec => GivenResultStays
<1>1. FitInv /\ [Next]_vars =>
        [\A e \in EasyFits : GetFitResult(fit[e]) # Nothing =>
           GetFitResult(fit'[e]) = GetFitResult(fit[e])]_vars
  <2> SUFFICES ASSUME FitInv, [Next]_vars, NEW e \in EasyFits,
                      GetFitResult(fit[e]) # Nothing
               PROVE  GetFitResult(fit'[e]) = GetFitResult(fit[e])
    OBVIOUS
  <2>1. CASE fit' = fit
    BY <2>1
  <2>2. CASE \E d \in EasyFits : \E g \in Good : OneStep(d, g)
    <3>1. PICK d \in EasyFits, g \in Good : OneStep(d, g)
      BY <2>2
    <3>2. CASE d = e
      BY <3>1, <3>2 DEF OneStep, Keeps, FitInv
    <3>3. CASE d # e
      BY <3>1, <3>3 DEF OneStep, FitInv
    <3> QED BY <3>2, <3>3
  <2> QED BY <2>1, <2>2, AnyStep
<1> QED BY <1>1, AlwaysGood, PTL DEF Spec, GivenResultStays

-----------------------------------------------------------------------------
(* The types of the rest of the state.                                     *)
Origins == (Pdfs \X Datas) \cup {Start}

AllWeights ==
  UNION {[pdf: {p}, data: Datas, shape: [Shape[p] -> Origins],
          why: [Shape[p] -> SUBSET Reasons]] : p \in Pdfs}

SPlotRec == [easyfitter: EasyFits \cup {Nothing}, pdf: Pdfs \cup {Nothing},
             data: Datas \cup {Nothing}, parameters: (SUBSET Params) \cup {Nothing},
             weights: AllWeights \cup {Nothing}]

ParsInv == pars \in [Params -> Parameter]

FileInv == DOMAIN file \subseteq Params /\ file \in [DOMAIN file -> Parameter]

(* Each parameter behind weights that were computed has its explanation.   *)
Explained(w) ==
  w # Nothing =>
    \A q \in Shape[w.pdf] : w.shape[q] = <<w.pdf, w.data>> \/ w.why[q] # {}

GoodSPlot == {r \in SPlotRec : Explained(r.weights)}

SPlotInv ==
  /\ DOMAIN splot \subseteq SPlots
  /\ splot \in [DOMAIN splot -> GoodSPlot]
  /\ running \in BOOLEAN

Inv == FitInv /\ ParsInv /\ FileInv /\ SPlotInv

LEMMA FitToType ==
  ASSUME NEW p \in Pdfs, NEW d \in Datas, NEW ps \in [Params -> Parameter]
  PROVE  /\ FitTo(p, d, ps) \in [Params -> Parameter]
         /\ \A q \in Shape[p] : ~ps[q].constant => FitTo(p, d, ps)[q].from = <<p, d>>
<1>1. Shape[p] \subseteq Params
  BY EasyFitAssumption
<1>2. \A q \in Params : [ps[q] EXCEPT !.from = <<p, d>>] \in Parameter
  BY DEF Parameter
<1>3. FitTo(p, d, ps) \in [Params -> Parameter]
  BY <1>2 DEF FitTo
<1>4. ASSUME NEW q \in Shape[p], ~ps[q].constant
      PROVE  FitTo(p, d, ps)[q].from = <<p, d>>
  BY <1>1, <1>4 DEF FitTo, Parameter
<1> QED BY <1>3, <1>4

LEMMA SetConstantType ==
  ASSUME NEW p \in Pdfs, NEW ps \in [Params -> Parameter]
  PROVE  /\ SetConstant(p, ps) \in [Params -> Parameter]
         /\ \A q \in Params : SetConstant(p, ps)[q].from = ps[q].from
<1>1. \A q \in Params : /\ [ps[q] EXCEPT !.constant = TRUE] \in Parameter
                        /\ [ps[q] EXCEPT !.constant = TRUE].from = ps[q].from
  BY DEF Parameter
<1> QED BY <1>1 DEF SetConstant

LEMMA ParsFittedType ==
  ASSUME ParsInv, NEW f \in Good
  PROVE  /\ ParsFitted(f) \in [Params -> Parameter]
         /\ ~f.fitted /\ PdfAndDataReady(f) =>
              \A q \in Shape[f.pdf] :
                ~pars[q].constant => ParsFitted(f)[q].from = <<f.pdf, f.data>>
<1> DEFINE g == PrepareFit(f)
<1>1. /\ g.pdf = f.pdf /\ g.data = f.data /\ g.fitted = f.fitted
      /\ g.finalized = f.finalized
      /\ ~f.fitted /\ ~f.finalized => g.prepared
  BY DEF PrepareFit, Good, FitRec
<1>2. f.finalized => f.fitted
  BY DEF Good, GoodFit
<1>3. CASE Executes(g)
  <2>1. f.pdf \in Pdfs /\ f.data \in Datas
    BY <1>1, <1>3 DEF Executes, PdfAndDataReady, Good, FitRec
  <2>2. ParsFitted(f) = FitTo(f.pdf, f.data, pars)
    BY <1>3 DEF ParsFitted
  <2> QED BY <2>1, <2>2, FitToType DEF ParsInv
<1>4. CASE ~Executes(g)
  <2>1. ParsFitted(f) = pars
    BY <1>4 DEF ParsFitted
  <2>2. ~(~f.fitted /\ PdfAndDataReady(f))
    BY <1>1, <1>2, <1>4 DEF Executes, PdfAndDataReady
  <2> QED BY <2>1, <2>2 DEF ParsInv
<1> QED BY <1>3, <1>4

(* Weights from parameters that are explained, one by one.                 *)
LEMMA WeightsGood ==
  ASSUME NEW s \in DOMAIN splot, splot[s] \in GoodSPlot, Complete(s),
         NEW ps \in [Params -> Parameter],
         NEW why \in [Shape[splot[s].pdf] -> SUBSET Reasons],
         \A q \in Shape[splot[s].pdf] :
           why[q] = {} => ps[q].from = <<splot[s].pdf, splot[s].data>>,
         NEW p \in Pdfs
  PROVE  [splot[s] EXCEPT !.parameters = Shape[p], !.weights = Weights(s, ps, why)]
           \in GoodSPlot
<1> DEFINE r == splot[s].pdf
           w == Weights(s, ps, why)
<1>1. r \in Pdfs /\ splot[s].data \in Datas /\ Shape[r] \subseteq Params
      /\ Shape[p] \subseteq Params
  BY EasyFitAssumption DEF Complete, GoodSPlot, SPlotRec
<1>2. w = [pdf |-> r, data |-> splot[s].data,
           shape |-> [q \in Shape[r] |-> ps[q].from], why |-> why]
  BY DEF Weights
<1>3. [q \in Shape[r] |-> ps[q].from] \in [Shape[r] -> Origins]
  BY <1>1 DEF Parameter, Origins
<1>4. w \in AllWeights
  <2>1. w \in [pdf: {r}, data: Datas, shape: [Shape[r] -> Origins],
               why: [Shape[r] -> SUBSET Reasons]]
    BY <1>1, <1>2, <1>3
  <2> QED BY <1>1, <2>1 DEF AllWeights
<1>5. Explained(w)
  <2> SUFFICES ASSUME NEW q \in Shape[r], why[q] = {}
               PROVE  ps[q].from = <<r, splot[s].data>>
    BY <1>2 DEF Explained
  <2> QED OBVIOUS
<1> HIDE DEF w
<1> DEFINE x == [splot[s] EXCEPT !.parameters = Shape[p], !.weights = w]
<1>6. splot[s] \in SPlotRec
  BY DEF GoodSPlot
<1>7. x \in SPlotRec /\ x.weights = w
  BY <1>1, <1>4, <1>6 DEF SPlotRec
<1> QED BY <1>5, <1>7 DEF GoodSPlot, w

(* One of the objects is replaced.                                         *)
LEMMA SPlotReplaced ==
  ASSUME SPlotInv, NEW s \in DOMAIN splot, NEW r \in GoodSPlot,
         splot' = [splot EXCEPT ![s] = r], running' = running
  PROVE  SPlotInv'
<1>1. DOMAIN splot' = DOMAIN splot
  OBVIOUS
<1>2. splot' \in [DOMAIN splot' -> GoodSPlot]
  BY DEF SPlotInv
<1> QED BY <1>1, <1>2 DEF SPlotInv, GoodSPlot, SPlotRec, Explained, AllWeights, Origins

-----------------------------------------------------------------------------
(* The two ways to fit and get weights.                                    *)
LEMMA EasyWeights ==
  ASSUME Inv, NEW s \in DOMAIN splot, FitWithEasyFit(s)
  PROVE  ParsInv' /\ FileInv' /\ SPlotInv'
<1> DEFINE e == splot[s].easyfitter
           before == Saving(fit[e])
           ps == SetConstant(before.pdf, ParsFitted(before))
           why == EasyWhy(s, before)
<1>1. /\ before.pdf # Nothing /\ Complete(s) /\ e # Nothing
      /\ pars' = ps
      /\ splot' = WithWeights(s, before.pdf, Weights(s, ps, why))
      /\ file' = file /\ running' = running
  BY DEF FitWithEasyFit
<1>2. splot[s] \in GoodSPlot /\ splot[s] \in SPlotRec /\ e \in EasyFits
  BY <1>1 DEF Inv, SPlotInv, GoodSPlot, SPlotRec
<1>3. before \in Good
  BY <1>2, SavingGood DEF Inv, FitInv
<1> HIDE DEF before
<1>4. /\ before.pdf \in Pdfs /\ splot[s].pdf \in Pdfs /\ splot[s].data \in Datas
      /\ splot[s].data # Nothing
  BY <1>1, <1>2, <1>3 DEF Good, FitRec, Complete, SPlotRec
<1>5. ParsFitted(before) \in [Params -> Parameter]
  BY <1>3, ParsFittedType DEF Inv
<1>6. ps \in [Params -> Parameter] /\ \A q \in Params : ps[q].from = ParsFitted(before)[q].from
  BY <1>4, <1>5, SetConstantType
<1>7. why \in [Shape[splot[s].pdf] -> SUBSET Reasons]
  BY DEF EasyWhy
<1>8. ASSUME NEW q \in Shape[splot[s].pdf], why[q] = {}
      PROVE  ps[q].from = <<splot[s].pdf, splot[s].data>>
  <2>1. /\ before.data = splot[s].data /\ before.pdf = splot[s].pdf
        /\ ~before.fitted /\ ~pars[q].constant
    BY <1>8 DEF EasyWhy, Reasons
  <2>2. PdfAndDataReady(before)
    BY <1>1, <1>4, <2>1 DEF PdfAndDataReady
  <2>3. ParsFitted(before)[q].from = <<before.pdf, before.data>>
    BY <1>3, <2>1, <2>2, ParsFittedType DEF Inv
  <2>4. q \in Params
    BY <1>4, EasyFitAssumption
  <2> QED BY <1>6, <2>1, <2>3, <2>4
<1> HIDE DEF ps, why
<1> DEFINE r == [splot[s] EXCEPT !.parameters = Shape[before.pdf],
                                 !.weights = Weights(s, ps, why)]
<1>9. r \in GoodSPlot
  BY <1>1, <1>2, <1>4, <1>6, <1>7, <1>8, WeightsGood
<1>10. splot' = [splot EXCEPT ![s] = r]
  BY <1>1 DEF WithWeights
<1> HIDE DEF r
<1>11. SPlotInv'
  BY <1>1, <1>9, <1>10, SPlotReplaced DEF Inv
<1> QED BY <1>1, <1>6, <1>11 DEF Inv, ParsInv, FileInv, Parameter

LEMMA OwnWeights ==
  ASSUME Inv, NEW s \in DOMAIN splot, NEW named \in BOOLEAN,
         FitWithoutEasyFit(s, named)
  PROVE  ParsInv' /\ FileInv' /\ SPlotInv'
<1> DEFINE p == splot[s].pdf
           d == splot[s].data
           start == IF named THEN ReadFromFile(p) ELSE pars
           ps == SetConstant(p, FitTo(p, d, start))
           why == OwnWhy(p, start, named)
<1>1. /\ Complete(s) /\ pars' = ps /\ running' = running /\ file' = file
      /\ splot' = WithWeights(s, p, Weights(s, ps, why))
  BY DEF FitWithoutEasyFit
<1>2. splot[s] \in GoodSPlot /\ splot[s] \in SPlotRec
  BY DEF Inv, SPlotInv, GoodSPlot
<1>3. p \in Pdfs /\ d \in Datas /\ Shape[p] \subseteq Params
  BY <1>1, <1>2, EasyFitAssumption DEF Complete, SPlotRec
<1>4. start \in [Params -> Parameter]
  BY DEF Inv, ParsInv, FileInv, ReadFromFile
<1>5. ASSUME NEW q \in Shape[p], why[q] = {}
      PROVE  ~start[q].constant
  <2>1. /\ ~(named /\ q \in DOMAIN file /\ file[q].constant)
        /\ ~(pars[q].constant /\ start[q].constant)
    BY <1>5 DEF OwnWhy, Reasons
  <2>2. CASE named /\ q \in DOMAIN file
    BY <1>3, <2>1, <2>2 DEF ReadFromFile
  <2>3. CASE ~(named /\ q \in DOMAIN file)
    BY <1>3, <2>1, <2>3 DEF ReadFromFile
  <2> QED BY <2>2, <2>3
<1>6. why \in [Shape[p] -> SUBSET Reasons]
  BY DEF OwnWhy
<1> HIDE DEF start
<1>7. /\ FitTo(p, d, start) \in [Params -> Parameter]
      /\ \A q \in Shape[p] : ~start[q].constant => FitTo(p, d, start)[q].from = <<p, d>>
  BY <1>3, <1>4, FitToType
<1>8. /\ ps \in [Params -> Parameter]
      /\ \A q \in Params : ps[q].from = FitTo(p, d, start)[q].from
  BY <1>3, <1>7, SetConstantType
<1>9. \A q \in Shape[p] : why[q] = {} => ps[q].from = <<p, d>>
  BY <1>3, <1>5, <1>7, <1>8
<1> HIDE DEF ps, why
<1> DEFINE r == [splot[s] EXCEPT !.parameters = Shape[p], !.weights = Weights(s, ps, why)]
<1>10. r \in GoodSPlot
  BY <1>1, <1>2, <1>3, <1>6, <1>8, <1>9, WeightsGood
<1>11. splot' = [splot EXCEPT ![s] = r]
  BY <1>1 DEF WithWeights
<1> HIDE DEF r
<1>12. SPlotInv'
  BY <1>1, <1>10, <1>11, SPlotReplaced DEF Inv
<1> QED BY <1>1, <1>8, <1>12 DEF Inv, ParsInv, FileInv, Parameter

(* A step that leaves the parameters, or the file, alone.                  *)
LEMMA StateUnchanged ==
  /\ ParsInv /\ pars' = pars => ParsInv'
  /\ FileInv /\ file' = file => FileInv'
<1>1. ASSUME ParsInv, pars' = pars PROVE ParsInv'
  BY <1>1 DEF ParsInv, Parameter
<1>2. ASSUME FileInv, file' = file PROVE FileInv'
  <2>1. DOMAIN file' = DOMAIN file /\ DOMAIN file \subseteq Params
    BY <1>2 DEF FileInv
  <2>2. file' \in [DOMAIN file -> Parameter]
    BY <1>2 DEF FileInv
  <2>3. file' \in [DOMAIN file' -> Parameter]
    BY <2>1, <2>2
  <2> QED BY <2>1, <2>3 DEF FileInv, Parameter
<1> QED BY <1>1, <1>2

LEMMA UnchangedKeeps ==
  ASSUME SPlotInv, splot' = splot, running' \in BOOLEAN
  PROVE  SPlotInv'
BY DEF SPlotInv, GoodSPlot, SPlotRec, Explained, AllWeights, Origins

(* The file gets parameters as they are.                                   *)
LEMMA FileWritten ==
  ASSUME Inv, NEW s \in DOMAIN splot, WriteParametersFile(s)
  PROVE  ParsInv' /\ FileInv' /\ SPlotInv'
<1>1. splot' = splot /\ pars' = pars
  BY DEF WriteParametersFile
<1>2. running' \in BOOLEAN /\ FileInv'
  <2>1. CASE splot[s].parameters = Nothing
    <3>1. running' = FALSE /\ file' = file
      BY <2>1 DEF WriteParametersFile
    <3> QED BY <3>1, StateUnchanged DEF Inv
  <2>2. CASE splot[s].parameters # Nothing
    <3>1. splot[s].parameters \subseteq Params
      BY <2>2 DEF Inv, SPlotInv, GoodSPlot, SPlotRec
    <3>2. file' = [q \in splot[s].parameters |-> pars[q]] /\ running' = running
      BY <2>2 DEF WriteParametersFile
    <3>3. DOMAIN file' \subseteq Params
      BY <3>1, <3>2
    <3>4. file' \in [DOMAIN file' -> Parameter]
      BY <3>1, <3>2 DEF Inv, ParsInv
    <3> QED BY <3>2, <3>3, <3>4 DEF FileInv, Parameter, Inv, SPlotInv
  <2> QED BY <2>1, <2>2
<1> QED BY <1>1, <1>2, StateUnchanged, UnchangedKeeps DEF Inv

(* An object without weights comes into being, or is given another         *)
(* EasyFit or other data.                                                  *)
LEMMA ConstructKeeps ==
  ASSUME Inv, NEW s \in SPlots, NEW e \in EasyFits \cup {Nothing},
         NEW p \in Pdfs \cup {Nothing}, NEW d \in Datas \cup {Nothing},
         Construct(s, e, p, d)
  PROVE  ParsInv' /\ FileInv' /\ SPlotInv'
<1> DEFINE r == [easyfitter |-> e, pdf |-> p, data |-> d, parameters |-> Nothing,
                 weights |-> Nothing]
<1>1. /\ splot' = [x \in DOMAIN splot \cup {s} |-> IF x = s THEN r ELSE splot[x]]
      /\ pars' = pars /\ file' = file /\ running' = running
  BY DEF Construct
<1>2. r \in GoodSPlot
  BY DEF GoodSPlot, SPlotRec, Explained
<1> HIDE DEF r
<1>3. DOMAIN splot' = DOMAIN splot \cup {s}
  BY <1>1
<1>4. splot' \in [DOMAIN splot' -> GoodSPlot]
  BY <1>1, <1>2, <1>3 DEF Inv, SPlotInv
<1> QED BY <1>1, <1>3, <1>4 DEF Inv, ParsInv, FileInv, SPlotInv, GoodSPlot, SPlotRec, Explained,
                                AllWeights, Origins, Parameter

LEMMA SetterKeeps ==
  ASSUME Inv, NEW s \in SPlots,
         \/ \E e \in EasyFits : set_easyfitter(s, e)
         \/ \E d \in Datas : set_input_data(s, d)
  PROVE  ParsInv' /\ FileInv' /\ SPlotInv'
<1>1. s \in DOMAIN splot /\ pars' = pars /\ file' = file /\ running' = running
  BY DEF set_easyfitter, set_input_data
<1>2. splot[s] \in GoodSPlot
  BY <1>1 DEF Inv, SPlotInv
<1>3. \E r \in GoodSPlot : splot' = [splot EXCEPT ![s] = r]
  <2>1. CASE \E e \in EasyFits : set_easyfitter(s, e)
    <3>1. PICK e \in EasyFits : set_easyfitter(s, e)
      BY <2>1
    <3>2. [splot[s] EXCEPT !.easyfitter = e] \in GoodSPlot
      BY <1>2 DEF GoodSPlot, SPlotRec
    <3>3. splot' = [splot EXCEPT ![s] = [splot[s] EXCEPT !.easyfitter = e]]
      BY <3>1 DEF set_easyfitter
    <3> QED BY <3>2, <3>3
  <2>2. CASE \E d \in Datas : set_input_data(s, d)
    <3>1. PICK d \in Datas : set_input_data(s, d)
      BY <2>2
    <3>2. [splot[s] EXCEPT !.data = d] \in GoodSPlot
      BY <1>2 DEF GoodSPlot, SPlotRec
    <3>3. splot' = [splot EXCEPT ![s] = [splot[s] EXCEPT !.data = d]]
      BY <3>1 DEF set_input_data
    <3> QED BY <3>2, <3>3
  <2> QED BY <2>1, <2>2
<1> QED BY <1>1, <1>2, <1>3, SPlotReplaced, StateUnchanged DEF Inv

(* A call of an EasyFit leaves the SPlotFit2s alone.                       *)
LEMMA EasyPars ==
  ASSUME Inv, FitNext
  PROVE  ParsInv'
<1>1. PICK e \in EasyFits :
        \/ \E p \in Pdfs \cup {Nothing}, d \in Datas \cup {Nothing} : SetPdfAndDataSet(e, p, d)
        \/ \E strategy \in Strategies : SetStrategy(e, strategy)
        \/ \E save \in BOOLEAN : SetSave(e, save)
        \/ \E minos \in BOOLEAN : SetMinos(e, minos)
        \/ SetMinosPars(e)
        \/ Fit(e)
  BY EasyFitAssumption DEF FitNext
<1>2. CASE Fit(e)
  <2>1. fit[e] \in Good
    BY DEF Inv, FitInv
  <2> QED BY <1>2, <2>1, ParsFittedType DEF Inv, Fit, ParsInv, Parameter
<1>3. CASE ~Fit(e)
  <2>1. pars' = pars
    BY <1>1, <1>3 DEF SetPdfAndDataSet, SetStrategy, SetSave, SetMinos,
                      SetMinosPars, SetOption
  <2> QED BY <2>1 DEF Inv, ParsInv, Parameter
<1> QED BY <1>2, <1>3

LEMMA InitInv == Init => Inv
<1> SUFFICES ASSUME Init PROVE Inv
  OBVIOUS
<1>1. FitInv
  BY InitGood
<1>2. ParsInv
  BY DEF Init, FitInit, ParsInv, Parameter
<1>3. FileInv
  BY SPlotAssumption DEF Init, FileInv, Parameter
<1>4. SPlotInv
  <2>1. splot = <<>> /\ DOMAIN splot = {}
    BY DEF Init
  <2>2. splot \in [{} -> GoodSPlot]
    BY <2>1
  <2> QED BY <2>1, <2>2 DEF Init, SPlotInv
<1> QED BY <1>1, <1>2, <1>3, <1>4 DEF Inv

LEMMA StepInv == Inv /\ [Next]_vars => Inv'
<1> SUFFICES ASSUME Inv, [Next]_vars PROVE Inv'
  OBVIOUS
<1>1. FitInv'
  BY StepGood DEF Inv
<1>2. ParsInv' /\ FileInv' /\ SPlotInv'
  <2>1. CASE FitNext /\ UNCHANGED <<splot, file, running>>
    BY <2>1, EasyPars, UnchangedKeeps, StateUnchanged DEF Inv, SPlotInv
  <2>2. CASE \E s \in SPlots : SPlotFit(s)
    <3>1. PICK s \in SPlots : SPlotFit(s)
      BY <2>2
    <3>2. s \in DOMAIN splot
      BY <3>1 DEF SPlotFit
    <3>3. CASE FitWithEasyFit(s)
      BY <3>2, <3>3, EasyWeights
    <3>4. CASE \E named \in BOOLEAN : FitWithoutEasyFit(s, named)
      BY <3>2, <3>4, OwnWeights
    <3>5. CASE FitCrashes(s)
      <4>1. pars' = pars /\ file' = file /\ splot' = splot /\ running' = FALSE
        BY <3>5 DEF FitCrashes
      <4> QED BY <4>1, UnchangedKeeps, StateUnchanged DEF Inv
    <3> QED BY <3>1, <3>3, <3>4, <3>5 DEF SPlotFit
  <2>3. CASE \E s \in SPlots, e \in EasyFits, d \in Datas : ConstructFromEasyFit(s, e, d)
    <3>1. PICK s \in SPlots, e \in EasyFits, d \in Datas : ConstructFromEasyFit(s, e, d)
      BY <2>3
    <3>2. fit[e].pdf \in Pdfs \cup {Nothing}
      BY DEF Inv, FitInv, Good, FitRec
    <3> QED BY <3>1, <3>2, ConstructKeeps DEF ConstructFromEasyFit
  <2>4. CASE \E s \in SPlots, p \in Pdfs, d \in Datas \cup {Nothing} : ConstructFromPdf(s, p, d)
    BY <2>4, ConstructKeeps DEF ConstructFromPdf
  <2>5. CASE \E s \in SPlots : \/ \E e \in EasyFits : set_easyfitter(s, e)
                              \/ \E d \in Datas : set_input_data(s, d)
    BY <2>5, SetterKeeps
  <2>6. CASE UNCHANGED vars
    <3>1. pars' = pars /\ file' = file /\ splot' = splot /\ running' = running
      BY <2>6 DEF vars
    <3> QED BY <3>1, UnchangedKeeps, StateUnchanged DEF Inv, SPlotInv
  <2>7. CASE \E s \in SPlots : WriteParametersFile(s)
    BY <2>7, FileWritten DEF WriteParametersFile
  <2> QED BY <2>1, <2>2, <2>3, <2>4, <2>5, <2>6, <2>7 DEF Next
<1> QED BY <1>1, <1>2 DEF Inv

LEMMA AlwaysInv == Spec => []Inv
<1> QED BY InitInv, StepInv, PTL DEF Spec

(* The state keeps its types: no call leaves an option out of its range or *)
(* weights of a shape that no dataset and no start gave.                   *)
THEOREM SPlotTypes == Spec => []TypeOK
<1>1. Inv => TypeOK
  <2> SUFFICES ASSUME Inv PROVE TypeOK
    OBVIOUS
  <2>1. FitTypeOK
    BY DEF Inv, ParsInv, FitInv, Good, FitRec, FitTypeOK
  <2>2. /\ running \in BOOLEAN
        /\ DOMAIN splot \subseteq SPlots
        /\ \A s \in DOMAIN splot : splot[s] \in SPlotRec
    BY DEF Inv, SPlotInv, GoodSPlot
  <2>3. ASSUME NEW s \in DOMAIN splot
        PROVE  /\ splot[s].easyfitter \in EasyFits \cup {Nothing}
               /\ splot[s].pdf \in Pdfs \cup {Nothing}
               /\ splot[s].data \in Datas \cup {Nothing}
               /\ splot[s].parameters \in (SUBSET Params) \cup {Nothing}
               /\ splot[s].weights # Nothing => splot[s].weights \in AllWeights
    BY <2>2 DEF SPlotRec
  <2>4. ASSUME NEW w \in AllWeights
        PROVE  /\ w.data \in Datas /\ w.pdf \in Pdfs
               /\ w.shape \in [Shape[w.pdf] -> Origins]
               /\ w.why \in [Shape[w.pdf] -> SUBSET Reasons]
    BY DEF AllWeights
  <2>5. FileInv
    BY DEF Inv
  <2> QED BY <2>1, <2>2, <2>3, <2>4, <2>5 DEF TypeOK, FileInv, Origins
<1> QED BY <1>1, AlwaysInv, PTL

(* Each parameter of the shape behind weights was fitted with their PDF to *)
(* the data they are for, or is in one of the five situations that the     *)
(* code does not notice, for any PDFs with or without common parameters.   *)
THEOREM WeightsAreExplained == Spec => []WeightsExplained
<1>1. Inv => WeightsExplained
  BY DEF Inv, SPlotInv, GoodSPlot, Explained, WeightsExplained
<1> QED BY <1>1, AlwaysInv, PTL


-----------------------------------------------------------------------------
(* The results and their tree.                                             *)
IsWhole(k, v) == k[1] = "final" => v.rest = v.value

(* What a branch of a parameter may store.                                 *)
StoredOf(k) == {Tree!Stored(k, v) : v \in {w \in Tree!Variable : IsWhole(k, w)}}

IsResult(x) ==
  /\ x = [fixed |-> x.fixed, pars |-> x.pars]
  /\ x.fixed \in Tree!Fixed
  /\ DOMAIN x.pars \subseteq Tree!AllKeys
  /\ \A k \in DOMAIN x.pars : x.pars[k] \in Tree!Variable /\ IsWhole(k, x.pars[k])

OfFit(x, f) ==
  /\ Tree!FixedOf(f, x.fixed)
  /\ \A k \in Tree!Keys(f) :
       /\ k \in DOMAIN x.pars
       /\ x.pars[k].value = f
       /\ k[1] = "final" => x.pars[k].rest = f

GoodResult(x, f) ==
  /\ IsResult(x)
  /\ f \in Tree!Ids \cup {Blank}
  /\ f # Blank => OfFit(x, f)

ResultsInv ==
  /\ DOMAIN obj \subseteq Results
  /\ fitOf \in [DOMAIN obj -> Tree!Ids \cup {Blank}]
  /\ \A o \in DOMAIN obj : GoodResult(obj[o], fitOf[o])

Row == [fixed: Seq(Tree!Fixed),
        pars: UNION {[D -> Seq(UNION {StoredOf(k) : k \in Tree!AllKeys})] :
                       D \in SUBSET Tree!AllKeys},
        fit: Tree!Ids \cup {Blank}]

(* All objects that have a parameter.                                      *)
Having(objects, k) == {o \in DOMAIN objects : k \in DOMAIN objects[o].pars}

(* Branches only have addresses in objects that are there.                 *)
AddressesIn(t, objects) ==
  /\ t.fixed \in Seq(DOMAIN objects \cup {Nobody})
  /\ DOMAIN t.pars \subseteq Tree!AllKeys
  /\ \A k \in DOMAIN t.pars : t.pars[k] \in Seq(Having(objects, k) \cup {Nobody})

(* An entry has a value for each of the branches; if they are of one fit,  *)
(* then it is all of the fit.                                              *)
RowOf(t, row) ==
  /\ Len(row.fixed) = Len(t.fixed)
  /\ DOMAIN row.pars = DOMAIN t.pars
  /\ \A k \in DOMAIN t.pars :
       /\ Len(row.pars[k]) = Len(t.pars[k])
       /\ row.pars[k] \in Seq(StoredOf(k))
  /\ row.fit # Blank =>
       /\ Tree!Keys(row.fit) \subseteq DOMAIN row.pars
       /\ \A i \in DOMAIN row.fixed : Tree!FixedOf(row.fit, row.fixed[i])
       /\ \A k \in Tree!Keys(row.fit) : \A i \in DOMAIN row.pars[k] :
            row.pars[k][i] = Tree!Stored(k, Tree!Whole(row.fit))

RowsOf(t) ==
  /\ t.rows \in Seq(Row)
  /\ \A i \in DOMAIN t.rows : RowOf(t, t.rows[i])

IsTree(t) == t = [fixed |-> t.fixed, pars |-> t.pars, rows |-> t.rows]

GoodTree(t, objects) == IsTree(t) /\ AddressesIn(t, objects) /\ RowsOf(t)

TreeInv == ResultsInv /\ GoodTree(tree, obj) /\ taken \in 0..MaxFits

LEMMA KeysKnown ==
  ASSUME NEW f \in Tree!Ids
  PROVE  Tree!Keys(f) \subseteq Tree!AllKeys
BY DEF Tree!AllKeys

LEMMA WholeOfFit ==
  ASSUME NEW f \in Tree!Values, NEW k
  PROVE  /\ Tree!Whole(f) \in Tree!Variable /\ IsWhole(k, Tree!Whole(f))
         /\ Tree!Whole(f).value = f /\ Tree!Whole(f).rest = f
         /\ Tree!Stored(k, Tree!Whole(f)) \in StoredOf(k)
<1>1. Tree!Whole(f) \in Tree!Variable /\ IsWhole(k, Tree!Whole(f))
  BY DEF Tree!Whole, Tree!Variable, IsWhole
<1>2. Tree!Stored(k, Tree!Whole(f)) \in StoredOf(k)
  BY <1>1 DEF StoredOf
<1> QED BY <1>1, <1>2 DEF Tree!Whole

(* The statuses of a fit replace all that were there before.               *)
LEMMA StatusesOfFit ==
  ASSUME NEW f \in Tree!Ids, NEW fixed \in Tree!Fixed
  PROVE  /\ Tree!Statuses(f, fixed) \in Tree!Fixed
         /\ Tree!FixedOf(f, Tree!Statuses(f, fixed))
<1>1. Given[f].statuses \in Nat
  BY FitsAssumption DEF Tree!ConstantsOK, Tree!Ids
<1>2. f \in Tree!Values /\ Blank \in Tree!Values
  BY DEF Tree!Values
<1> DEFINE num == IF Given[f].statuses = 0 THEN fixed.num ELSE Given[f].statuses
           slots == [i \in 1..NumSlots |-> IF i <= Given[f].statuses THEN f ELSE Blank]
<1>3. Tree!Statuses(f, fixed) = [num |-> num, slots |-> slots, head |-> f]
  <2>1. Tree!Statuses(f, fixed) = [fixed EXCEPT !.head = f, !.num = num, !.slots = slots]
    BY Zenon DEF Tree!Statuses
  <2> HIDE DEF num, slots
  <2> QED BY <2>1 DEF Tree!Fixed
<1>4. num \in Nat /\ (Given[f].statuses > 0 => num = Given[f].statuses)
  BY <1>1 DEF Tree!Fixed
<1>5. slots \in [1..NumSlots -> Tree!Values]
  BY <1>2
<1>6. Tree!SlotsOf(f, slots)
  BY DEF Tree!SlotsOf
<1> HIDE DEF num, slots
<1> QED BY <1>2, <1>3, <1>4, <1>5, <1>6 DEF Tree!Fixed, Tree!FixedOf

LEMMA NewIsFixed == Tree!NewFixed \in Tree!Fixed
BY DEF Tree!NewFixed, Tree!Fixed, Tree!Values

(* Reading a branch replaces what it stores, and a final parameter as a    *)
(* whole.                                                                  *)
LEMMA ReadParameter ==
  ASSUME NEW k, NEW v \in Tree!Variable, IsWhole(k, v), NEW stored \in StoredOf(k)
  PROVE  /\ Tree!Overwritten(k, v, stored) \in Tree!Variable
         /\ IsWhole(k, Tree!Overwritten(k, v, stored))
         /\ \A f : stored = Tree!Stored(k, Tree!Whole(f)) =>
              /\ Tree!Overwritten(k, v, stored).value = f
              /\ k[1] = "final" => Tree!Overwritten(k, v, stored).rest = f
<1>1. PICK w \in Tree!Variable : IsWhole(k, w) /\ stored = Tree!Stored(k, w)
  BY DEF StoredOf
<1>2. CASE k[1] = "final"
  <2>1. Tree!Overwritten(k, v, stored) = stored
    BY <1>2 DEF Tree!Overwritten
  <2>2. stored = w
    BY <1>1, <1>2 DEF Tree!Stored
  <2>3. \A f : Tree!Stored(k, Tree!Whole(f)) = Tree!Whole(f)
    BY <1>2 DEF Tree!Stored
  <2> QED BY <1>1, <2>1, <2>2, <2>3 DEF Tree!Whole
<1>3. CASE k[1] # "final"
  <2>1. Tree!Overwritten(k, v, stored) = [v EXCEPT !.value = stored.value]
    BY <1>3 DEF Tree!Overwritten
  <2>2. stored = [value |-> w.value]
    BY <1>1, <1>3 DEF Tree!Stored
  <2>3. \A f : Tree!Stored(k, Tree!Whole(f)) = [value |-> f]
    BY <1>3 DEF Tree!Stored, Tree!Whole
  <2> QED BY <1>3, <2>1, <2>2, <2>3 DEF Tree!Variable, IsWhole
<1> QED BY <1>2, <1>3

(* A result more leaves the others and the addresses as they were.         *)
LEMMA AddResult ==
  ASSUME ResultsInv, NEW o \in Results, o \notin DOMAIN obj, NEW x, NEW f, GoodResult(x, f),
         obj' = Tree!With(obj, o, x), fitOf' = Tree!With(fitOf, o, f)
  PROVE  /\ ResultsInv'
         /\ DOMAIN obj' = DOMAIN obj \cup {o} /\ obj'[o] = x
         /\ \A p \in DOMAIN obj : obj'[p] = obj[p]
<1>1. /\ DOMAIN obj' = DOMAIN obj \cup {o} /\ obj'[o] = x
      /\ \A p \in DOMAIN obj : obj'[p] = obj[p]
  BY DEF Tree!With
<1>2. /\ DOMAIN fitOf' = DOMAIN obj \cup {o} /\ fitOf'[o] = f
      /\ \A p \in DOMAIN obj : fitOf'[p] = fitOf[p]
  BY DEF Tree!With, ResultsInv
<1>3. f \in Tree!Ids \cup {Blank}
  BY DEF GoodResult
<1>4. fitOf' \in [DOMAIN obj' -> Tree!Ids \cup {Blank}]
  BY <1>1, <1>2, <1>3 DEF Tree!With, ResultsInv
<1>5. \A p \in DOMAIN obj' : GoodResult(obj'[p], fitOf'[p])
  BY <1>1, <1>2 DEF ResultsInv
<1>6. ResultsInv'
  <2>1. DOMAIN obj' \subseteq Results
    BY <1>1 DEF ResultsInv
  <2> QED BY <1>4, <1>5, <2>1 DEF ResultsInv, GoodResult, IsResult, OfFit,
             Tree!FixedOf, Tree!SlotsOf, Tree!Keys, IsWhole
<1> QED BY <1>1, <1>6

LEMMA SeqOfMore ==
  ASSUME NEW A, NEW B, A \subseteq B, NEW s \in Seq(A)
  PROVE  s \in Seq(B)
<1>1. \A i \in 1..Len(s) : s[i] \in B
  BY ElementOfSeq
<1> QED BY <1>1, IsASeq, LenProperties

(* Results that keep their parameters keep their addresses.                *)
LEMMA AddressesStay ==
  ASSUME NEW t, NEW objects, AddressesIn(t, objects), NEW others,
         DOMAIN objects \subseteq DOMAIN others,
         \A o \in DOMAIN objects : DOMAIN objects[o].pars \subseteq DOMAIN others[o].pars
  PROVE  AddressesIn(t, others)
<1>1. t.fixed \in Seq(DOMAIN others \cup {Nobody})
  BY DEF AddressesIn
<1>2. ASSUME NEW k \in DOMAIN t.pars
      PROVE  t.pars[k] \in Seq(Having(others, k) \cup {Nobody})
  <2>1. Having(objects, k) \subseteq Having(others, k)
    BY DEF Having
  <2>2. /\ Having(objects, k) \cup {Nobody} \subseteq Having(others, k) \cup {Nobody}
        /\ t.pars[k] \in Seq(Having(objects, k) \cup {Nobody})
    BY <2>1 DEF AddressesIn
  <2> QED BY <2>2, SeqOfMore
<1> QED BY <1>1, <1>2 DEF AddressesIn

(* A branch more where there are no entries, or the first one bound anew.  *)
LEMMA RegisterOne ==
  ASSUME NEW A, NEW s \in Seq(A), NEW o \in A
  PROVE  /\ Tree!RegisterBranch(s, o) \in Seq(A)
         /\ Len(tree.rows) # 0 => Len(Tree!RegisterBranch(s, o)) = Len(s)
<1>1. CASE s = <<>>
  BY <1>1 DEF Tree!RegisterBranch
<1>2. CASE s # <<>>
  <2>1. [s EXCEPT ![1] = o] \in Seq(A) /\ Len([s EXCEPT ![1] = o]) = Len(s)
    BY <1>2, ExceptSeq
  <2>2. Append(s, o) \in Seq(A)
    OBVIOUS
  <2>3. /\ Len(tree.rows) = 0 => Tree!RegisterBranch(s, o) = Append(s, o)
        /\ Len(tree.rows) # 0 => Tree!RegisterBranch(s, o) = [s EXCEPT ![1] = o]
    BY <1>2 DEF Tree!RegisterBranch
  <2> QED BY <2>1, <2>2, <2>3
<1> QED BY <1>1, <1>2

LEMMA RegisterAll ==
  ASSUME IsTree(tree), RowsOf(tree), NEW objects, AddressesIn(tree, objects),
         NEW o \in DOMAIN objects, NEW known, known \subseteq DOMAIN objects[o].pars,
         known \subseteq Tree!AllKeys
  PROVE  GoodTree(Tree!Registered(o, known), objects)
<1> DEFINE t == Tree!Registered(o, known)
           new == DOMAIN tree.pars \cup {l \in known : Tree!HasBranch(l)}
           Old(k) == IF k \in DOMAIN tree.pars THEN tree.pars[k] ELSE <<>>
<1> SUFFICES GoodTree(t, objects)
  OBVIOUS
<1>1. /\ t = [fixed |-> t.fixed, pars |-> t.pars, rows |-> t.rows]
      /\ t.fixed = Tree!RegisterBranch(tree.fixed, o)
      /\ t.rows = tree.rows
      /\ DOMAIN t.pars = new
      /\ \A k \in new :
           t.pars[k] = IF k \in known THEN Tree!RegisterBranch(Old(k), o) ELSE Old(k)
  <2> DEFINE after == [k \in new |-> IF k \in known THEN Tree!RegisterBranch(Old(k), o)
                                    ELSE Old(k)]
             first == Tree!RegisterBranch(tree.fixed, o)
  <2>1. t = [tree EXCEPT !.fixed = first, !.pars = after]
    BY DEF Tree!Registered
  <2> HIDE DEF after, first
  <2>2. t = [fixed |-> first, pars |-> after, rows |-> tree.rows]
    BY <2>1 DEF IsTree
  <2> HIDE DEF t
  <2> QED BY <2>2 DEF after, first
<1> HIDE DEF t
<1>2. /\ t.fixed \in Seq(DOMAIN objects \cup {Nobody})
      /\ Len(tree.rows) # 0 => Len(t.fixed) = Len(tree.fixed)
  BY <1>1, RegisterOne DEF AddressesIn
<1>3. ASSUME NEW k \in new
      PROVE  /\ t.pars[k] \in Seq(Having(objects, k) \cup {Nobody})
             /\ Len(tree.rows) # 0 => k \in DOMAIN tree.pars /\ Len(t.pars[k]) = Len(tree.pars[k])
  <2>1. Old(k) \in Seq(Having(objects, k) \cup {Nobody})
    BY DEF AddressesIn
  <2>2. CASE k \in known
    <3>1. o \in Having(objects, k) \cup {Nobody}
      BY <2>2 DEF Having
    <3>2. /\ Tree!RegisterBranch(Old(k), o) \in Seq(Having(objects, k) \cup {Nobody})
          /\ Len(tree.rows) # 0 => Len(Tree!RegisterBranch(Old(k), o)) = Len(Old(k))
      BY <2>1, <3>1, RegisterOne
    <3>3. Len(tree.rows) # 0 => k \in DOMAIN tree.pars
      BY DEF Tree!HasBranch
    <3> QED BY <1>1, <2>2, <3>2, <3>3
  <2>3. CASE k \notin known
    BY <1>1, <2>1, <2>3
  <2> QED BY <2>2, <2>3
<1>4. AddressesIn(t, objects)
  BY <1>1, <1>2, <1>3 DEF AddressesIn
<1>5. RowsOf(t)
  <2>1. CASE Len(tree.rows) = 0
    <3>1. DOMAIN t.rows = {}
      BY <1>1, <2>1 DEF RowsOf
    <3> QED BY <1>1, <3>1 DEF RowsOf
  <2>2. CASE Len(tree.rows) # 0
    <3>1. DOMAIN t.pars = DOMAIN tree.pars
      BY <1>1, <1>3, <2>2
    <3>2. ASSUME NEW i \in DOMAIN tree.rows
          PROVE  RowOf(t, tree.rows[i])
      <4>1. RowOf(tree, tree.rows[i])
        BY DEF RowsOf
      <4> QED BY <1>1, <1>2, <1>3, <2>2, <3>1, <4>1 DEF RowOf
    <3> QED BY <1>1, <3>2 DEF RowsOf
  <2> QED BY <2>1, <2>2
<1> QED BY <1>1, <1>4, <1>5 DEF GoodTree, IsTree

-----------------------------------------------------------------------------
LEMMA ConstructFromFitGood ==
  ASSUME TreeInv, NEW o \in Results, NEW f \in Tree!Ids, Tree!ConstructFromFit(o, f)
  PROVE  TreeInv'
<1> DEFINE x == [fixed |-> Tree!Statuses(f, Tree!NewFixed),
                 pars |-> [k \in Tree!Keys(f) |-> Tree!Whole(f)]]
<1>1. f \in Tree!Values /\ f \in Tree!Ids \cup {Blank}
  BY DEF Tree!Values
<1>2. GoodResult(x, f)
  <2>1. IsResult(x)
    BY <1>1, NewIsFixed, StatusesOfFit, KeysKnown, WholeOfFit DEF IsResult
  <2>2. OfFit(x, f)
    BY <1>1, NewIsFixed, StatusesOfFit, WholeOfFit DEF OfFit
  <2> QED BY <1>1, <2>1, <2>2 DEF GoodResult
<1>3. obj' = Tree!With(obj, o, x) /\ fitOf' = Tree!With(fitOf, o, f) /\ o \notin DOMAIN obj
  BY DEF Tree!ConstructFromFit
<1> HIDE DEF x
<1>4. /\ ResultsInv'
      /\ DOMAIN obj' = DOMAIN obj \cup {o}
      /\ \A p \in DOMAIN obj : obj'[p] = obj[p]
  BY <1>2, <1>3, AddResult DEF TreeInv
<1>5. GoodTree(tree, obj')
  BY <1>4, AddressesStay DEF TreeInv, GoodTree
<1>6. tree' = tree /\ taken' = taken + 1 /\ taken < MaxFits
  BY DEF Tree!ConstructFromFit
<1>7. taken' \in 0..MaxFits
  BY <1>6, FitsAssumption DEF TreeInv, Tree!ConstantsOK
<1> QED BY <1>4, <1>5, <1>6, <1>7 DEF TreeInv

LEMMA CopyGood ==
  ASSUME TreeInv, NEW o \in Results, NEW other \in Results, Tree!Copy(o, other)
  PROVE  TreeInv'
<1>1. /\ obj' = Tree!With(obj, o, obj[other]) /\ fitOf' = Tree!With(fitOf, o, fitOf[other])
      /\ o \notin DOMAIN obj /\ other \in DOMAIN obj
      /\ tree' = tree /\ taken' = taken
  BY DEF Tree!Copy
<1>2. GoodResult(obj[other], fitOf[other])
  BY <1>1 DEF TreeInv, ResultsInv
<1>3. /\ ResultsInv'
      /\ DOMAIN obj' = DOMAIN obj \cup {o}
      /\ \A p \in DOMAIN obj : obj'[p] = obj[p]
  BY <1>1, <1>2, AddResult DEF TreeInv
<1>4. GoodTree(tree, obj')
  BY <1>3, AddressesStay DEF TreeInv, GoodTree
<1> QED BY <1>1, <1>3, <1>4 DEF TreeInv

LEMMA ConstructFromTreeGood ==
  ASSUME TreeInv, NEW o \in Results, Tree!ConstructFromTree(o)
  PROVE  TreeInv'
<1> DEFINE x == [fixed |-> Tree!NewFixed,
                 pars |-> [k \in DOMAIN tree.pars |-> Tree!Whole(Blank)]]
<1>1. /\ obj' = Tree!With(obj, o, x) /\ fitOf' = Tree!With(fitOf, o, Blank)
      /\ o \notin DOMAIN obj
      /\ tree' = Tree!Registered(o, DOMAIN tree.pars) /\ taken' = taken
  BY DEF Tree!ConstructFromTree
<1>2. Blank \in Tree!Values /\ DOMAIN tree.pars \subseteq Tree!AllKeys
  BY DEF Tree!Values, TreeInv, GoodTree, AddressesIn
<1>3. GoodResult(x, Blank)
  BY <1>2, NewIsFixed, WholeOfFit DEF GoodResult, IsResult
<1>4. DOMAIN x.pars = DOMAIN tree.pars
  OBVIOUS
<1> HIDE DEF x
<1>5. /\ ResultsInv'
      /\ DOMAIN obj' = DOMAIN obj \cup {o} /\ obj'[o] = x
      /\ \A p \in DOMAIN obj : obj'[p] = obj[p]
  BY <1>1, <1>3, AddResult DEF TreeInv
<1>6. AddressesIn(tree, obj')
  BY <1>5, AddressesStay DEF TreeInv, GoodTree
<1>7. GoodTree(tree', obj')
  <2>1. o \in DOMAIN obj' /\ DOMAIN tree.pars \subseteq DOMAIN obj'[o].pars
    BY <1>4, <1>5
  <2>2. IsTree(tree) /\ RowsOf(tree)
    BY DEF TreeInv, GoodTree
  <2> QED BY <1>1, <1>2, <1>6, <2>1, <2>2, RegisterAll
<1> QED BY <1>1, <1>5, <1>7 DEF TreeInv

(* A result that is changed keeps its parameters.                          *)
LEMMA ChangeResult ==
  ASSUME ResultsInv, NEW o \in DOMAIN obj, NEW x, NEW f, GoodResult(x, f),
         obj' = [obj EXCEPT ![o] = x], fitOf' = [fitOf EXCEPT ![o] = f],
         DOMAIN x.pars = DOMAIN obj[o].pars
  PROVE  /\ ResultsInv'
         /\ DOMAIN obj' = DOMAIN obj
         /\ \A p \in DOMAIN obj : DOMAIN obj'[p].pars = DOMAIN obj[p].pars
<1>1. /\ DOMAIN obj' = DOMAIN obj
      /\ \A p \in DOMAIN obj : obj'[p] = IF p = o THEN x ELSE obj[p]
  OBVIOUS
<1>2. /\ fitOf' \in [DOMAIN obj' -> Tree!Ids \cup {Blank}]
      /\ \A p \in DOMAIN obj : fitOf'[p] = IF p = o THEN f ELSE fitOf[p]
  BY <1>1 DEF ResultsInv, GoodResult
<1>3. \A p \in DOMAIN obj' : GoodResult(obj'[p], fitOf'[p])
  BY <1>1, <1>2 DEF ResultsInv
<1>4. ResultsInv'
  BY <1>1, <1>2, <1>3 DEF ResultsInv, GoodResult, IsResult, OfFit, Tree!FixedOf,
             Tree!SlotsOf, Tree!Keys, IsWhole
<1> QED BY <1>1, <1>4

LEMMA ConvertGood ==
  ASSUME TreeInv, NEW o \in Results, NEW f \in Tree!Ids, Tree!ConvertRooFitResult(o, f)
  PROVE  TreeInv'
<1>1. PICK done \in Tree!Transfers(f, DOMAIN obj[o].pars) :
        /\ o \in DOMAIN obj /\ taken < MaxFits
        /\ obj' = [obj EXCEPT
                     ![o] = [fixed |-> Tree!Statuses(f, @.fixed),
                             pars  |-> [k \in DOMAIN @.pars |->
                                          IF k \in done THEN Tree!Whole(f) ELSE @.pars[k]]]]
        /\ fitOf' = [fitOf EXCEPT
                       ![o] = IF Tree!Returns(f, DOMAIN obj[o].pars) THEN f ELSE Blank]
        /\ taken' = taken + 1 /\ tree' = tree
  BY DEF Tree!ConvertRooFitResult
<1> DEFINE ps == [k \in DOMAIN obj[o].pars |->
                    IF k \in done THEN Tree!Whole(f) ELSE obj[o].pars[k]]
           x == [fixed |-> Tree!Statuses(f, obj[o].fixed), pars |-> ps]
           g == IF Tree!Returns(f, DOMAIN obj[o].pars) THEN f ELSE Blank
<1>2. IsResult(obj[o])
  BY <1>1 DEF TreeInv, ResultsInv, GoodResult
<1>3. obj' = [obj EXCEPT ![o] = x]
  BY <1>1
<1>4. f \in Tree!Values
  BY DEF Tree!Values
<1>5. IsResult(x)
  <2>1. Tree!Statuses(f, obj[o].fixed) \in Tree!Fixed
    BY <1>2, StatusesOfFit DEF IsResult
  <2>2. \A k \in DOMAIN ps : ps[k] \in Tree!Variable /\ IsWhole(k, ps[k])
    BY <1>2, <1>4, WholeOfFit DEF IsResult
  <2>3. DOMAIN ps \subseteq Tree!AllKeys
    BY <1>2 DEF IsResult
  <2> QED BY <2>1, <2>2, <2>3 DEF IsResult
<1>6. GoodResult(x, g)
  <2>1. CASE Tree!Returns(f, DOMAIN obj[o].pars)
    <3>1. Tree!Keys(f) \subseteq DOMAIN obj[o].pars
      BY <2>1 DEF Tree!Returns
    <3>2. done = Tree!Keys(f)
      <4>1. Given[f].statuses \in Nat /\ NumSlots \in Nat
        BY FitsAssumption DEF Tree!ConstantsOK, Tree!Ids
      <4>2. ~(Given[f].statuses > NumSlots)
        BY <2>1, <4>1 DEF Tree!Returns
      <4> QED BY <2>1, <4>2 DEF Tree!Transfers
    <3>3. \A k \in Tree!Keys(f) : k \in DOMAIN ps /\ ps[k] = Tree!Whole(f)
      BY <3>1, <3>2
    <3>4. Tree!FixedOf(f, Tree!Statuses(f, obj[o].fixed))
      BY <1>2, StatusesOfFit DEF IsResult
    <3> HIDE DEF ps
    <3>5. OfFit(x, f)
      BY <1>4, <3>3, <3>4, WholeOfFit DEF OfFit
    <3> QED BY <1>5, <3>5 DEF GoodResult
  <2>2. CASE ~Tree!Returns(f, DOMAIN obj[o].pars)
    BY <1>5, <2>2 DEF GoodResult
  <2> QED BY <2>1, <2>2
<1>7. fitOf' = [fitOf EXCEPT ![o] = g] /\ DOMAIN x.pars = DOMAIN obj[o].pars
  BY <1>1
<1> HIDE DEF x, g
<1>8. /\ ResultsInv'
      /\ DOMAIN obj' = DOMAIN obj
      /\ \A p \in DOMAIN obj : DOMAIN obj'[p].pars = DOMAIN obj[p].pars
  BY <1>1, <1>3, <1>6, <1>7, ChangeResult DEF TreeInv
<1>9. GoodTree(tree, obj')
  BY <1>8, AddressesStay DEF TreeInv, GoodTree
<1>10. taken' \in 0..MaxFits
  BY <1>1, FitsAssumption DEF TreeInv, Tree!ConstantsOK
<1> QED BY <1>1, <1>8, <1>9, <1>10 DEF TreeInv

LEMMA RegisterGood ==
  ASSUME TreeInv, NEW o \in Results, Tree!RegisterBranchesInTree(o)
  PROVE  TreeInv'
<1> DEFINE ps == [k \in DOMAIN obj[o].pars |->
                    IF Tree!HasBranch(k) THEN obj[o].pars[k]
                    ELSE Tree!NoBranch(k, obj[o].pars[k])]
           x == [fixed |-> obj[o].fixed, pars |-> ps]
           Whole == fitOf[o] # Blank /\ \A k \in Tree!Keys(fitOf[o]) : Tree!HasBranch(k)
           g == IF Whole THEN fitOf[o] ELSE Blank
<1>1. /\ o \in DOMAIN obj
      /\ tree' = Tree!Registered(o, DOMAIN obj[o].pars) /\ taken' = taken
      /\ obj' = [obj EXCEPT ![o].pars = ps]
      /\ fitOf' = [fitOf EXCEPT ![o] = g]
  BY DEF Tree!RegisterBranchesInTree
<1>2. GoodResult(obj[o], fitOf[o])
  BY <1>1 DEF TreeInv, ResultsInv
<1>3. IsResult(obj[o])
  BY <1>2 DEF GoodResult
<1>4. IsResult(x)
  <2>1. ASSUME NEW k \in DOMAIN ps
        PROVE  ps[k] \in Tree!Variable /\ IsWhole(k, ps[k])
    <3>1. obj[o].pars[k] \in Tree!Variable /\ IsWhole(k, obj[o].pars[k]) /\ Blank \in Tree!Values
      BY <1>3 DEF IsResult, Tree!Values
    <3>2. /\ Tree!NoBranch(k, obj[o].pars[k]) \in Tree!Variable
          /\ IsWhole(k, Tree!NoBranch(k, obj[o].pars[k]))
      BY <3>1 DEF Tree!NoBranch, Tree!Whole, Tree!Variable, IsWhole
    <3> QED BY <3>1, <3>2
  <2>2. x.fixed \in Tree!Fixed /\ DOMAIN x.pars \subseteq Tree!AllKeys
    BY <1>3 DEF IsResult
  <2> QED BY <2>1, <2>2 DEF IsResult
<1>5. GoodResult(x, g)
  <2>1. CASE Whole
    <3>1. OfFit(obj[o], fitOf[o])
      BY <1>2, <2>1 DEF GoodResult
    <3>2. \A k \in Tree!Keys(fitOf[o]) : k \in DOMAIN ps /\ ps[k] = obj[o].pars[k]
      BY <2>1, <3>1 DEF OfFit
    <3>3. g = fitOf[o]
      BY <2>1
    <3> HIDE DEF ps, g, Whole
    <3> QED BY <1>2, <1>4, <3>1, <3>2, <3>3 DEF GoodResult, OfFit
  <2>2. CASE ~Whole
    BY <1>4, <2>2 DEF GoodResult
  <2> QED BY <2>1, <2>2
<1>6. DOMAIN x.pars = DOMAIN obj[o].pars
  OBVIOUS
<1>7. obj' = [obj EXCEPT ![o] = x]
  <2> HIDE DEF ps
  <2>1. obj[o] = [fixed |-> obj[o].fixed, pars |-> obj[o].pars]
    BY <1>3 DEF IsResult
  <2>2. [obj[o] EXCEPT !.pars = ps] = x
    BY <2>1
  <2>3. obj' = [obj EXCEPT ![o] = [obj[o] EXCEPT !.pars = ps]]
    BY <1>1
  <2> QED BY <2>2, <2>3
<1> HIDE DEF x, g
<1>8. /\ ResultsInv'
      /\ DOMAIN obj' = DOMAIN obj
      /\ \A p \in DOMAIN obj : DOMAIN obj'[p].pars = DOMAIN obj[p].pars
  BY <1>1, <1>5, <1>6, <1>7, ChangeResult DEF TreeInv
<1>9. GoodTree(tree', obj')
  <2>1. AddressesIn(tree, obj')
    BY <1>8, AddressesStay DEF TreeInv, GoodTree
  <2>2. IsTree(tree) /\ RowsOf(tree)
    BY DEF TreeInv, GoodTree
  <2>3. DOMAIN obj[o].pars \subseteq Tree!AllKeys
    BY <1>3 DEF IsResult
  <2>4. o \in DOMAIN obj' /\ DOMAIN obj[o].pars \subseteq DOMAIN obj'[o].pars
    BY <1>1, <1>8
  <2>5. GoodTree(Tree!Registered(o, DOMAIN obj[o].pars), obj')
    BY <2>1, <2>2, <2>3, <2>4, RegisterAll
  <2> QED BY <1>1, <2>5
<1> QED BY <1>1, <1>8, <1>9 DEF TreeInv

(* The file is read again: the entries stay, the addresses are gone.       *)
LEMMA ReopenGood ==
  ASSUME TreeInv, Tree!Reopen
  PROVE  TreeInv'
<1>1. UNCHANGED <<obj, fitOf, taken>>
  BY DEF Tree!Reopen
<1>2. /\ tree' = [fixed |-> tree'.fixed, pars |-> tree'.pars, rows |-> tree'.rows]
      /\ tree'.rows = tree.rows
      /\ tree'.fixed = [i \in DOMAIN tree.fixed |-> Nobody]
      /\ DOMAIN tree'.pars = DOMAIN tree.pars
      /\ \A k \in DOMAIN tree.pars : tree'.pars[k] = [i \in DOMAIN tree.pars[k] |-> Nobody]
  <2>1. tree' = [fixed |-> [i \in DOMAIN tree.fixed |-> Nobody],
                 pars |-> [k \in DOMAIN tree.pars |-> [i \in DOMAIN tree.pars[k] |-> Nobody]],
                 rows |-> tree.rows]
    BY DEF Tree!Reopen, TreeInv, GoodTree, IsTree
  <2> QED BY <2>1
<1>3. /\ tree.fixed \in Seq(DOMAIN obj \cup {Nobody})
      /\ \A k \in DOMAIN tree.pars : tree.pars[k] \in Seq(Having(obj, k) \cup {Nobody})
  BY DEF TreeInv, GoodTree, AddressesIn
<1>4. ASSUME NEW A, NEW s \in Seq(A \cup {Nobody})
      PROVE  /\ [i \in DOMAIN s |-> Nobody] \in Seq(A \cup {Nobody})
             /\ Len([i \in DOMAIN s |-> Nobody]) = Len(s)
  <2>1. DOMAIN s = 1..Len(s) /\ Len(s) \in Nat
    OBVIOUS
  <2> QED BY <2>1
<1>5. /\ tree'.fixed \in Seq(DOMAIN obj \cup {Nobody}) /\ Len(tree'.fixed) = Len(tree.fixed)
      /\ \A k \in DOMAIN tree.pars : /\ tree'.pars[k] \in Seq(Having(obj, k) \cup {Nobody})
                                     /\ Len(tree'.pars[k]) = Len(tree.pars[k])
  <2>1. /\ [i \in DOMAIN tree.fixed |-> Nobody] \in Seq(DOMAIN obj \cup {Nobody})
        /\ Len([i \in DOMAIN tree.fixed |-> Nobody]) = Len(tree.fixed)
    BY <1>3, <1>4
  <2>2. ASSUME NEW k \in DOMAIN tree.pars
        PROVE  /\ [i \in DOMAIN tree.pars[k] |-> Nobody] \in Seq(Having(obj, k) \cup {Nobody})
               /\ Len([i \in DOMAIN tree.pars[k] |-> Nobody]) = Len(tree.pars[k])
    BY <1>3, <1>4
  <2> QED BY <1>2, <2>1, <2>2
<1>6. AddressesIn(tree', obj)
  BY <1>2, <1>5 DEF TreeInv, GoodTree, AddressesIn
<1>7. RowsOf(tree')
  <2>1. RowsOf(tree)
    BY DEF TreeInv, GoodTree
  <2>2. ASSUME NEW i \in DOMAIN tree.rows
        PROVE  RowOf(tree', tree.rows[i])
    <3>1. RowOf(tree, tree.rows[i])
      BY <2>1 DEF RowsOf
    <3> QED BY <1>2, <1>5, <3>1 DEF RowOf
  <2> QED BY <1>2, <2>1, <2>2 DEF RowsOf
<1>8. GoodTree(tree', obj')
  BY <1>1, <1>2, <1>6, <1>7 DEF GoodTree, IsTree
<1>9. ResultsInv'
  BY <1>1 DEF TreeInv, ResultsInv, GoodResult, IsResult, OfFit, Tree!FixedOf,
             Tree!SlotsOf, Tree!Keys, IsWhole
<1> QED BY <1>1, <1>8, <1>9 DEF TreeInv

(* The last branch with an address is one of that address.                 *)
LEMMA LastBoundIs ==
  ASSUME NEW A, NEW s \in Seq(A), NEW o
  PROVE  \/ Tree!LastBound(s, o) = 0 /\ \A i \in DOMAIN s : s[i] # o
         \/ Tree!LastBound(s, o) \in DOMAIN s /\ s[Tree!LastBound(s, o)] = o
<1> DEFINE n == Len(s)
           S == {0} \cup {i \in DOMAIN s : s[i] = o}
           Back == {n - i : i \in S}
<1>1. n \in Nat /\ DOMAIN s = 1..n
  OBVIOUS
<1>2. S \subseteq 0..n /\ 0 \in S
  BY <1>1
<1>3. Back \subseteq Nat /\ Back # {}
  BY <1>1, <1>2
<1>4. PICK b \in Back : \A c \in Back : b <= c
  BY <1>3, Facts!NatLeast
<1>5. PICK m \in S : b = n - m
  OBVIOUS
<1>6. ASSUME NEW y \in S
      PROVE  m >= y
  <2>1. n - y \in Back
    OBVIOUS
  <2>2. b <= n - y
    BY <1>4, <2>1
  <2>3. m \in 0..n /\ y \in 0..n
    BY <1>2
  <2> QED BY <1>1, <1>5, <2>2, <2>3
<1>7. Tree!LastBound(s, o) = Tree!Max(S)
  BY DEF Tree!LastBound
<1>8. Tree!Max(S) \in S /\ \A y \in S : Tree!Max(S) >= y
  <2> HIDE DEF S
  <2> QED BY <1>6 DEF Tree!Max
<1> QED BY <1>1, <1>7, <1>8

(* What Fill writes for the branches.                                      *)
FixedIn(a) ==
  IF a = Nobody THEN [Tree!NewFixed EXCEPT !.slots = [i \in 1..NumSlots |-> Junk]]
  ELSE obj[a].fixed

StoredIn(k, a) ==
  IF a = Nobody THEN Tree!Stored(k, Tree!Whole(Junk)) ELSE Tree!Stored(k, obj[a].pars[k])

Bound == Tree!Range(tree.fixed) \cup UNION {Tree!Range(tree.pars[k]) : k \in DOMAIN tree.pars}

Filled ==
  [fixed |-> [i \in DOMAIN tree.fixed |-> FixedIn(tree.fixed[i])],
   pars  |-> [k \in DOMAIN tree.pars |->
                [i \in DOMAIN tree.pars[k] |-> StoredIn(k, tree.pars[k][i])]],
   fit   |-> IF \E o \in DOMAIN obj : Bound = {o} /\ Tree!Stores(fitOf[o])
             THEN fitOf[CHOOSE o \in DOMAIN obj : Bound = {o}]
             ELSE Blank]

LEMMA FillIs == Tree!Fill => /\ tree' = [tree EXCEPT !.rows = Append(@, Filled)]
                             /\ UNCHANGED <<obj, fitOf, taken>>
<1> SUFFICES ASSUME Tree!Fill
             PROVE  /\ tree' = [tree EXCEPT !.rows = Append(@, Filled)]
                    /\ UNCHANGED <<obj, fitOf, taken>>
  OBVIOUS
<1> QED BY Zenon DEF Tree!Fill, Filled, FixedIn, StoredIn, Bound

LEMMA MapSeq ==
  ASSUME NEW A, NEW s \in Seq(A), NEW B, NEW g \in [DOMAIN s -> B]
  PROVE  g \in Seq(B) /\ Len(g) = Len(s)
<1>1. DOMAIN s = 1..Len(s) /\ Len(s) \in Nat
  OBVIOUS
<1>2. g \in [1..Len(s) -> B]
  BY <1>1
<1> QED BY <1>1, <1>2, IsASeq, LenProperties

LEMMA FilledIsGood ==
  ASSUME TreeInv
  PROVE  Filled \in Row /\ RowOf(tree, Filled)
<1>1. /\ tree.fixed \in Seq(DOMAIN obj \cup {Nobody})
      /\ DOMAIN tree.pars \subseteq Tree!AllKeys
      /\ \A k \in DOMAIN tree.pars : tree.pars[k] \in Seq(Having(obj, k) \cup {Nobody})
  BY DEF TreeInv, GoodTree, AddressesIn
<1>2. Junk \in Tree!Values
  BY DEF Tree!Values
<1>3. \A o \in DOMAIN obj : GoodResult(obj[o], fitOf[o])
  BY DEF TreeInv, ResultsInv
<1> DEFINE F == Filled.fixed
           P == Filled.pars
           g == Filled.fit
<1>4. /\ F = [i \in DOMAIN tree.fixed |-> FixedIn(tree.fixed[i])]
      /\ DOMAIN P = DOMAIN tree.pars
      /\ \A k \in DOMAIN P : P[k] = [i \in DOMAIN tree.pars[k] |-> StoredIn(k, tree.pars[k][i])]
      /\ P = [k \in DOMAIN tree.pars |-> P[k]]
      /\ g = IF \E o \in DOMAIN obj : Bound = {o} /\ Tree!Stores(fitOf[o])
             THEN fitOf[CHOOSE o \in DOMAIN obj : Bound = {o}]
             ELSE Blank
      /\ Filled = [fixed |-> F, pars |-> P, fit |-> g]
  BY DEF Filled
<1> HIDE DEF F, P, g
<1>5. F \in Seq(Tree!Fixed) /\ Len(F) = Len(tree.fixed)
  <2>1. ASSUME NEW i \in DOMAIN tree.fixed
        PROVE  FixedIn(tree.fixed[i]) \in Tree!Fixed
    <3>1. tree.fixed[i] \in DOMAIN obj \cup {Nobody}
      BY <1>1
    <3>2. CASE tree.fixed[i] = Nobody
      BY <1>2, <3>2, NewIsFixed DEF FixedIn, Tree!Fixed
    <3>3. CASE tree.fixed[i] # Nobody
      BY <1>3, <3>1, <3>3 DEF FixedIn, GoodResult, IsResult
    <3> QED BY <3>2, <3>3
  <2>2. F \in [DOMAIN tree.fixed -> Tree!Fixed]
    BY <1>4, <2>1
  <2>3. tree.fixed \in Seq(DOMAIN obj \cup {Nobody})
    BY <1>1
  <2> QED BY ONLY <2>2, <2>3, MapSeq
<1>6. ASSUME NEW k \in DOMAIN tree.pars
      PROVE  P[k] \in Seq(StoredOf(k)) /\ Len(P[k]) = Len(tree.pars[k])
  <2>0. tree.pars[k] \in Seq(Having(obj, k) \cup {Nobody})
    BY <1>1
  <2>1. ASSUME NEW i \in DOMAIN tree.pars[k]
        PROVE  StoredIn(k, tree.pars[k][i]) \in StoredOf(k)
    <3>1. tree.pars[k][i] \in Having(obj, k) \cup {Nobody}
      BY <2>0
    <3>2. CASE tree.pars[k][i] = Nobody
      BY <1>2, <3>2, WholeOfFit DEF StoredIn
    <3>3. CASE tree.pars[k][i] # Nobody
      BY <1>3, <3>1, <3>3 DEF StoredIn, GoodResult, IsResult, Having, StoredOf
    <3> QED BY <3>2, <3>3
  <2>2. P[k] \in [DOMAIN tree.pars[k] -> StoredOf(k)]
    BY <1>4, <2>1
  <2> QED BY ONLY <2>0, <2>2, MapSeq
<1>7. P \in UNION {[D -> Seq(UNION {StoredOf(k) : k \in Tree!AllKeys})] : D \in SUBSET Tree!AllKeys}
  <2> DEFINE All == UNION {StoredOf(k) : k \in Tree!AllKeys}
  <2>1. ASSUME NEW k \in DOMAIN tree.pars
        PROVE  P[k] \in Seq(All)
    <3>1. StoredOf(k) \subseteq All
      BY <1>1
    <3> QED BY <1>6, <3>1, SeqOfMore
  <2> HIDE DEF All
  <2>2. P \in [DOMAIN tree.pars -> Seq(All)]
    BY <1>4, <2>1
  <2>3. DOMAIN tree.pars \in SUBSET Tree!AllKeys
    BY <1>1
  <2>4. P \in UNION {[D -> Seq(All)] : D \in SUBSET Tree!AllKeys}
    BY <2>2, <2>3
  <2> QED BY <2>4 DEF All
<1>8. CASE g = Blank
  BY <1>4, <1>5, <1>6, <1>7, <1>8 DEF Row, RowOf
<1>9. CASE g # Blank
  <2>1. PICK o \in DOMAIN obj : Bound = {o} /\ Tree!Stores(fitOf[o])
    BY <1>4, <1>9
  <2>2. (CHOOSE p \in DOMAIN obj : Bound = {p}) = o
    BY <2>1
  <2>3. g = fitOf[o]
    BY <1>4, <2>1, <2>2
  <2>4. g \in Tree!Ids \cup {Blank} /\ OfFit(obj[o], g)
    BY <1>3, <1>9, <2>3 DEF GoodResult
  <2>5. o # Nobody
    BY FitsAssumption DEF Tree!ConstantsOK, TreeInv, ResultsInv
  <2>6. Tree!Keys(g) \subseteq DOMAIN P
    BY <1>4, <2>1, <2>3 DEF Tree!Stores
  <2>7. \A i \in DOMAIN F : Tree!FixedOf(g, F[i])
    <3>1. ASSUME NEW i \in DOMAIN tree.fixed
          PROVE  tree.fixed[i] = o
      <4>1. tree.fixed[i] \in Bound
        BY DEF Bound, Tree!Range
      <4> QED BY <2>1, <4>1
    <3>2. \A i \in DOMAIN F : F[i] = obj[o].fixed
      BY <1>4, <2>5, <3>1 DEF FixedIn
    <3> QED BY <2>4, <3>2 DEF OfFit
  <2>8. ASSUME NEW k \in Tree!Keys(g), NEW i \in DOMAIN P[k]
        PROVE  P[k][i] = Tree!Stored(k, Tree!Whole(g))
    <3>1. k \in DOMAIN tree.pars /\ i \in DOMAIN tree.pars[k]
      BY <1>4, <2>6
    <3>2. tree.pars[k][i] = o
      <4>1. tree.pars[k][i] \in Bound
        BY <3>1 DEF Bound, Tree!Range
      <4> QED BY <2>1, <4>1
    <3>3. P[k][i] = Tree!Stored(k, obj[o].pars[k])
      <4>1. P[k] = [j \in DOMAIN tree.pars[k] |-> StoredIn(k, tree.pars[k][j])]
        BY <1>4, <2>6
      <4>2. P[k][i] = StoredIn(k, o)
        BY <3>1, <3>2, <4>1
      <4> QED BY <2>5, <4>2 DEF StoredIn
    <3>4. /\ obj[o].pars[k].value = g
          /\ k[1] = "final" => obj[o].pars[k].rest = g
          /\ obj[o].pars[k] \in Tree!Variable
      BY <1>3, <2>4 DEF OfFit, GoodResult, IsResult
    <3> QED BY <3>3, <3>4 DEF Tree!Stored, Tree!Whole, Tree!Variable
  <2>9. /\ g \in Tree!Ids
        /\ Filled.fit = g /\ Filled.fixed = F /\ Filled.pars = P
    BY <1>4, <1>9, <2>4
  <2>10. Filled \in Row
    BY <1>4, <1>5, <1>7, <2>9 DEF Row
  <2> QED BY <1>4, <1>5, <1>6, <2>6, <2>7, <2>8, <2>9, <2>10 DEF RowOf
<1> QED BY <1>8, <1>9

LEMMA FillGood ==
  ASSUME TreeInv, Tree!Fill
  PROVE  TreeInv'
<1>1. UNCHANGED <<obj, fitOf, taken>>
  BY FillIs
<1>2. /\ tree' = [fixed |-> tree'.fixed, pars |-> tree'.pars, rows |-> tree'.rows]
      /\ tree'.fixed = tree.fixed /\ tree'.pars = tree.pars
      /\ tree'.rows = Append(tree.rows, Filled)
  BY FillIs DEF TreeInv, GoodTree, IsTree
<1>3. RowsOf(tree) /\ AddressesIn(tree, obj)
  BY DEF TreeInv, GoodTree
<1>4. RowsOf(tree')
  <2>1. tree.rows \in Seq(Row) /\ Filled \in Row
    BY <1>3, FilledIsGood DEF RowsOf
  <2>2. tree'.rows \in Seq(Row)
    BY <1>2, <2>1
  <2>3. ASSUME NEW i \in DOMAIN tree'.rows
        PROVE  RowOf(tree, tree'.rows[i])
    <3>1. i \in 1..Len(tree.rows) + 1
      BY <1>2, <2>1
    <3>2. CASE i = Len(tree.rows) + 1
      <4>1. tree'.rows[i] = Filled
        BY <1>2, <2>1, <3>2
      <4> QED BY <4>1, FilledIsGood
    <3>3. CASE i # Len(tree.rows) + 1
      <4>1. i \in DOMAIN tree.rows /\ tree'.rows[i] = tree.rows[i]
        BY <1>2, <2>1, <3>1, <3>3
      <4> QED BY <1>3, <4>1 DEF RowsOf
    <3> QED BY <3>2, <3>3
  <2>4. \A row : RowOf(tree, row) => RowOf(tree', row)
    BY <1>2 DEF RowOf
  <2> QED BY <2>2, <2>3, <2>4 DEF RowsOf
<1>5. GoodTree(tree', obj')
  BY <1>1, <1>2, <1>3, <1>4 DEF GoodTree, IsTree, AddressesIn
<1>6. ResultsInv'
  BY <1>1 DEF TreeInv, ResultsInv, GoodResult, IsResult, OfFit, Tree!FixedOf,
             Tree!SlotsOf, Tree!Keys, IsWhole
<1> QED BY <1>1, <1>5, <1>6 DEF TreeInv

-----------------------------------------------------------------------------
(* What GetEntry leaves of a result.                                       *)
AtPar(k, o) == IF k \in DOMAIN tree.pars THEN Tree!LastBound(tree.pars[k], o) ELSE 0

AllRead(row, o) ==
  /\ row.fit # Blank
  /\ Tree!LastBound(tree.fixed, o) # 0
  /\ \A k \in Tree!Keys(row.fit) : k \in DOMAIN obj[o].pars /\ AtPar(k, o) # 0

SomeRead(o) ==
  Tree!LastBound(tree.fixed, o) # 0 \/ \E k \in DOMAIN obj[o].pars : AtPar(k, o) # 0

ReadFrom(row, o) ==
  [fixed |-> IF Tree!LastBound(tree.fixed, o) = 0 THEN obj[o].fixed
             ELSE row.fixed[Tree!LastBound(tree.fixed, o)],
   pars  |-> [k \in DOMAIN obj[o].pars |->
                IF AtPar(k, o) = 0 THEN obj[o].pars[k]
                ELSE Tree!Overwritten(k, obj[o].pars[k], row.pars[k][AtPar(k, o)])]]

FitRead(row, o) ==
  IF ~SomeRead(o) THEN fitOf[o]
  ELSE IF AllRead(row, o) THEN row.fit ELSE Blank

LEMMA GetEntryIs ==
  ASSUME NEW i, Tree!GetEntry(i)
  PROVE  /\ i \in DOMAIN tree.rows
         /\ obj' = [o \in DOMAIN obj |-> ReadFrom(tree.rows[i], o)]
         /\ fitOf' = [o \in DOMAIN obj |-> FitRead(tree.rows[i], o)]
         /\ UNCHANGED <<tree, taken>>
BY Zenon DEF Tree!GetEntry, ReadFrom, FitRead, AllRead, SomeRead, AtPar

LEMMA ReadIsGood ==
  ASSUME TreeInv, NEW i \in DOMAIN tree.rows, NEW o \in DOMAIN obj
  PROVE  GoodResult(ReadFrom(tree.rows[i], o), FitRead(tree.rows[i], o))
<1> DEFINE row == tree.rows[i]
           at == Tree!LastBound(tree.fixed, o)
           x == ReadFrom(row, o)
           f == FitRead(row, o)
<1> SUFFICES GoodResult(x, f)
  OBVIOUS
<1>1. /\ tree.fixed \in Seq(DOMAIN obj \cup {Nobody})
      /\ DOMAIN tree.pars \subseteq Tree!AllKeys
      /\ \A k \in DOMAIN tree.pars : tree.pars[k] \in Seq(Having(obj, k) \cup {Nobody})
  BY DEF TreeInv, GoodTree, AddressesIn
<1>2. row \in Row /\ RowOf(tree, row)
  BY DEF TreeInv, GoodTree, RowsOf
<1>3. GoodResult(obj[o], fitOf[o])
  BY DEF TreeInv, ResultsInv
<1>4. /\ x.fixed = IF at = 0 THEN obj[o].fixed ELSE row.fixed[at]
      /\ DOMAIN x.pars = DOMAIN obj[o].pars
      /\ \A k \in DOMAIN x.pars :
           x.pars[k] = IF AtPar(k, o) = 0 THEN obj[o].pars[k]
                       ELSE Tree!Overwritten(k, obj[o].pars[k], row.pars[k][AtPar(k, o)])
      /\ x = [fixed |-> x.fixed, pars |-> x.pars]
  BY DEF ReadFrom
<1>5. f = IF ~SomeRead(o) THEN fitOf[o]
          ELSE IF AllRead(row, o) THEN row.fit ELSE Blank
  BY DEF FitRead
<1>6. at # 0 => at \in DOMAIN row.fixed
  <2>1. at # 0 => at \in DOMAIN tree.fixed
    BY <1>1, LastBoundIs
  <2>2. row.fixed \in Seq(Tree!Fixed) /\ Len(row.fixed) = Len(tree.fixed)
    BY <1>2 DEF Row, RowOf
  <2>3. DOMAIN row.fixed = DOMAIN tree.fixed
    BY <1>1, <2>2
  <2> QED BY <2>1, <2>3
<1>7. ASSUME NEW k \in DOMAIN obj[o].pars, AtPar(k, o) # 0
      PROVE  /\ k \in DOMAIN tree.pars
             /\ AtPar(k, o) \in DOMAIN row.pars[k]
             /\ row.pars[k][AtPar(k, o)] \in StoredOf(k)
  <2>1. k \in DOMAIN tree.pars /\ AtPar(k, o) = Tree!LastBound(tree.pars[k], o)
    BY <1>7 DEF AtPar
  <2>2. tree.pars[k] \in Seq(Having(obj, k) \cup {Nobody})
    BY <1>1, <2>1
  <2>3. AtPar(k, o) \in DOMAIN tree.pars[k]
    BY <1>7, <2>1, <2>2, LastBoundIs
  <2>4. row.pars[k] \in Seq(StoredOf(k)) /\ Len(row.pars[k]) = Len(tree.pars[k])
    BY <1>2, <2>1 DEF RowOf
  <2>5. DOMAIN row.pars[k] = DOMAIN tree.pars[k]
    BY <2>2, <2>4
  <2> QED BY <2>1, <2>3, <2>4, <2>5
<1> HIDE DEF x, f, row, at
<1>8. IsResult(x)
  <2>1. x.fixed \in Tree!Fixed
    <3>1. CASE at = 0
      BY <1>3, <1>4, <3>1 DEF GoodResult, IsResult
    <3>2. CASE at # 0
      <4>1. row.fixed \in Seq(Tree!Fixed)
        BY <1>2 DEF Row
      <4> QED BY <1>4, <1>6, <3>2, <4>1
    <3> QED BY <3>1, <3>2
  <2>2. ASSUME NEW k \in DOMAIN x.pars
        PROVE  x.pars[k] \in Tree!Variable /\ IsWhole(k, x.pars[k])
    <3>1. obj[o].pars[k] \in Tree!Variable /\ IsWhole(k, obj[o].pars[k])
      BY <1>3, <1>4 DEF GoodResult, IsResult
    <3>2. CASE AtPar(k, o) = 0
      BY <1>4, <3>1, <3>2
    <3>3. CASE AtPar(k, o) # 0
      BY <1>4, <1>7, <3>1, <3>3, ReadParameter
    <3> QED BY <3>2, <3>3
  <2>3. DOMAIN x.pars \subseteq Tree!AllKeys
    BY <1>3, <1>4 DEF GoodResult, IsResult
  <2> QED BY <1>4, <2>1, <2>2, <2>3 DEF IsResult
<1>9. f \in Tree!Ids \cup {Blank}
  BY <1>2, <1>3, <1>5 DEF GoodResult, Row
<1>10. CASE ~SomeRead(o)
  <2>1. f = fitOf[o] /\ x.fixed = obj[o].fixed
    BY <1>4, <1>5, <1>10 DEF SomeRead, at
  <2>2. \A k \in DOMAIN x.pars : x.pars[k] = obj[o].pars[k]
    BY <1>4, <1>10 DEF SomeRead
  <2> QED BY <1>3, <1>4, <1>8, <1>9, <2>1, <2>2 DEF GoodResult, OfFit
<1>11. CASE SomeRead(o) /\ AllRead(row, o)
  <2>1. /\ f = row.fit /\ f # Blank /\ at # 0
        /\ \A k \in Tree!Keys(f) : k \in DOMAIN obj[o].pars /\ AtPar(k, o) # 0
    BY <1>5, <1>11 DEF AllRead, at
  <2>2. x.fixed = row.fixed[at]
    BY <1>4, <2>1
  <2>3. /\ \A j \in DOMAIN row.fixed : Tree!FixedOf(f, row.fixed[j])
        /\ \A k \in Tree!Keys(f) : \A j \in DOMAIN row.pars[k] :
             row.pars[k][j] = Tree!Stored(k, Tree!Whole(f))
    BY <1>2, <2>1 DEF RowOf
  <2>4. Tree!FixedOf(f, x.fixed)
    BY <1>6, <2>1, <2>2, <2>3
  <2>5. ASSUME NEW k \in Tree!Keys(f)
        PROVE  /\ k \in DOMAIN x.pars
               /\ x.pars[k].value = f /\ (k[1] = "final" => x.pars[k].rest = f)
    <3>1. /\ AtPar(k, o) # 0 /\ k \in DOMAIN obj[o].pars
          /\ row.pars[k][AtPar(k, o)] = Tree!Stored(k, Tree!Whole(f))
          /\ row.pars[k][AtPar(k, o)] \in StoredOf(k)
      BY <1>4, <1>7, <2>1, <2>3
    <3>2. obj[o].pars[k] \in Tree!Variable /\ IsWhole(k, obj[o].pars[k])
      BY <1>3, <3>1 DEF GoodResult, IsResult
    <3>3. /\ k \in DOMAIN x.pars
          /\ x.pars[k] = Tree!Overwritten(k, obj[o].pars[k], row.pars[k][AtPar(k, o)])
      BY <1>4, <3>1
    <3> QED BY <3>1, <3>2, <3>3, ReadParameter
  <2>6. OfFit(x, f)
    BY <2>4, <2>5 DEF OfFit
  <2> QED BY <1>8, <1>9, <2>6 DEF GoodResult
<1>12. CASE SomeRead(o) /\ ~AllRead(row, o)
  BY <1>5, <1>8, <1>12 DEF GoodResult
<1> QED BY <1>10, <1>11, <1>12

LEMMA GetEntryGood ==
  ASSUME TreeInv, NEW i, Tree!GetEntry(i)
  PROVE  TreeInv'
<1>1. /\ i \in DOMAIN tree.rows
      /\ DOMAIN obj' = DOMAIN obj
      /\ \A o \in DOMAIN obj : /\ obj'[o] = ReadFrom(tree.rows[i], o)
                               /\ fitOf'[o] = FitRead(tree.rows[i], o)
      /\ fitOf' = [o \in DOMAIN obj |-> FitRead(tree.rows[i], o)]
      /\ UNCHANGED <<tree, taken>>
  BY GetEntryIs
<1>2. \A o \in DOMAIN obj : GoodResult(obj'[o], fitOf'[o])
  BY <1>1, ReadIsGood
<1>3. fitOf' \in [DOMAIN obj' -> Tree!Ids \cup {Blank}]
  BY <1>1, <1>2 DEF GoodResult
<1>4. ResultsInv'
  <2>1. DOMAIN obj' \subseteq Results
    BY <1>1 DEF TreeInv, ResultsInv
  <2> QED BY <1>1, <1>2, <1>3, <2>1 DEF ResultsInv, GoodResult, IsResult, OfFit,
             Tree!FixedOf, Tree!SlotsOf, Tree!Keys, IsWhole
<1>5. \A o \in DOMAIN obj : DOMAIN obj'[o].pars = DOMAIN obj[o].pars
  BY <1>1 DEF ReadFrom
<1>6. GoodTree(tree, obj')
  BY <1>1, <1>5, AddressesStay DEF TreeInv, GoodTree
<1> QED BY <1>1, <1>4, <1>6 DEF TreeInv

-----------------------------------------------------------------------------
LEMMA TreeInitGood == Tree!Init => TreeInv
<1> SUFFICES ASSUME Tree!Init PROVE TreeInv
  OBVIOUS
<1>1. PICK rows \in {<<>>, <<[fixed |-> <<>>, pars |-> <<>>, fit |-> Blank]>>} :
        tree = [fixed |-> <<>>, pars |-> <<>>, rows |-> rows]
  BY DEF Tree!Init
<1>2. ResultsInv
  BY DEF Tree!Init, ResultsInv
<1>3. IsTree(tree) /\ AddressesIn(tree, obj)
  BY <1>1 DEF IsTree, AddressesIn
<1>4. RowsOf(tree)
  <2> DEFINE row == [fixed |-> <<>>, pars |-> <<>>, fit |-> Blank]
  <2>1. row \in Row
    <3> DEFINE All == Seq(UNION {StoredOf(k) : k \in Tree!AllKeys})
    <3> HIDE DEF All
    <3>1. <<>> \in [{} -> All]
      OBVIOUS
    <3>2. <<>> \in UNION {[D -> All] : D \in SUBSET Tree!AllKeys}
      BY <3>1
    <3>3. <<>> \in Seq(Tree!Fixed) /\ Blank \in Tree!Ids \cup {Blank}
      OBVIOUS
    <3> QED BY <3>2, <3>3 DEF Row, All
  <2>2. RowOf(tree, row)
    BY <1>1 DEF RowOf
  <2>3. rows = <<>> \/ rows = <<row>>
    OBVIOUS
  <2> HIDE DEF row
  <2>4. rows \in Seq(Row) /\ \A i \in DOMAIN rows : rows[i] = row
    <3>1. <<>> \in Seq(Row) /\ DOMAIN <<>> = {}
      OBVIOUS
    <3>2. <<row>> \in Seq(Row) /\ DOMAIN <<row>> = {1} /\ <<row>>[1] = row
      BY <2>1
    <3> QED BY <2>3, <3>1, <3>2
  <2> QED BY <1>1, <2>2, <2>4 DEF RowsOf
<1>5. taken \in 0..MaxFits
  BY FitsAssumption DEF Tree!Init, Tree!ConstantsOK
<1> QED BY <1>2, <1>3, <1>4, <1>5 DEF TreeInv, GoodTree

LEMMA TreeStepGood ==
  ASSUME TreeInv, [Tree!Next]_treeVars
  PROVE  TreeInv'
<1>1. CASE UNCHANGED treeVars
  <2>1. obj' = obj /\ tree' = tree /\ fitOf' = fitOf /\ taken' = taken
    BY <1>1 DEF treeVars
  <2>2. ResultsInv'
    BY <2>1 DEF TreeInv, ResultsInv, GoodResult, IsResult, OfFit, Tree!FixedOf,
             Tree!SlotsOf, Tree!Keys, IsWhole
  <2> QED BY <2>1, <2>2 DEF TreeInv
<1>2. CASE Tree!Next
  BY <1>2, ConstructFromFitGood, ConvertGood, CopyGood, RegisterGood, ConstructFromTreeGood,
     FillGood, ReopenGood, GetEntryGood DEF Tree!Next
<1> QED BY <1>1, <1>2

LEMMA AlwaysTree == FitsSpec => []TreeInv
<1>1. FitsInit => TreeInv
  BY TreeInitGood DEF FitsInit
<1>2. TreeInv /\ [FitsNext]_allVars => TreeInv'
  <2> SUFFICES ASSUME TreeInv, [FitsNext]_allVars PROVE TreeInv'
    OBVIOUS
  <2>1. [Tree!Next]_treeVars
    BY DEF FitsNext, allVars
  <2> QED BY <2>1, TreeStepGood
<1> QED BY <1>1, <1>2, PTL DEF FitsSpec

(* The results in a tree do not disturb the fits: what every execution of  *)
(* Spec does, every one of the whole program does.                         *)
LEMMA FitsAreFits == FitsSpec => Spec
<1>1. FitsInit => Init
  BY DEF FitsInit
<1>2. [FitsNext]_allVars => [Next]_vars
  BY DEF FitsNext, allVars
<1> QED BY <1>1, <1>2, PTL DEF FitsSpec, Spec

(* A fit that went into an EasyFitResult, on into an entry of a tree and   *)
(* from there into another one keeps all its values together, also where   *)
(* it lacks statuses or parameters that were there before, and no limit or *)
(* error is left beside the value of another fit, whichever branches are   *)
(* bound and wherever a conversion ends by an exception; for any fits,     *)
(* results, entries and branches (EasyFitResult.cpp:110-349).              *)
THEOREM FitsStayTogether == FitsSpec => []ValuesStayTogether
<1>1. TypeOK /\ TreeInv => ValuesStayTogether
  <2> SUFFICES ASSUME TypeOK, TreeInv PROVE ValuesStayTogether
    OBVIOUS
  <2>1. \A o \in DOMAIN obj : GoodResult(obj[o], fitOf[o])
    BY DEF TreeInv, ResultsInv
  <2>2. /\ AddressesIn(tree, obj)
        /\ tree.rows \in Seq(Row) /\ \A i \in DOMAIN tree.rows : RowOf(tree, tree.rows[i])
    BY DEF TreeInv, GoodTree, RowsOf
  <2>3. \A row \in Tree!Range(tree.rows) : row \in Row /\ RowOf(tree, row)
    BY <2>2 DEF Tree!Range
  <2>4. Tree!TypeOK
    <3>1. \A o \in DOMAIN obj :
            /\ obj[o].fixed \in Tree!Fixed
            /\ DOMAIN obj[o].pars \subseteq Tree!AllKeys
            /\ \A k \in DOMAIN obj[o].pars : obj[o].pars[k] \in Tree!Variable
      BY <2>1 DEF GoodResult, IsResult
    <3>2. Tree!Range(tree.fixed) \subseteq DOMAIN obj \cup {Nobody}
      BY <2>2 DEF AddressesIn, Tree!Range
    <3>3. ASSUME NEW k \in DOMAIN tree.pars, NEW a \in Tree!Range(tree.pars[k])
          PROVE  a = Nobody \/ (a \in DOMAIN obj /\ k \in DOMAIN obj[a].pars)
      <4>1. tree.pars[k] \in Seq(Having(obj, k) \cup {Nobody})
        BY <2>2 DEF AddressesIn
      <4>2. a \in Having(obj, k) \cup {Nobody}
        BY <4>1 DEF Tree!Range
      <4> QED BY <4>2 DEF Having
    <3>4. \A row \in Tree!Range(tree.rows) :
            /\ Len(row.fixed) = Len(tree.fixed)
            /\ DOMAIN row.pars = DOMAIN tree.pars
            /\ \A k \in DOMAIN tree.pars : Len(row.pars[k]) = Len(tree.pars[k])
      BY <2>3 DEF RowOf
    <3>5. /\ DOMAIN obj \subseteq Results /\ fitOf \in [DOMAIN obj -> Tree!Ids \cup {Blank}]
          /\ taken \in 0..MaxFits
          /\ DOMAIN tree.pars \subseteq Tree!AllKeys
      BY <2>2 DEF TreeInv, ResultsInv, AddressesIn
    <3> QED BY <3>1, <3>2, <3>3, <3>4, <3>5 DEF Tree!TypeOK
  <2>5. Tree!ValuesOfOneFit
    <3>1. \A o \in DOMAIN obj : fitOf[o] # Blank => OfFit(obj[o], fitOf[o])
      BY <2>1 DEF GoodResult
    <3>2. ASSUME NEW row \in Tree!Range(tree.rows), row.fit # Blank
          PROVE  /\ \A fixed \in Tree!Range(row.fixed) : Tree!FixedOf(row.fit, fixed)
                 /\ \A k \in Tree!Keys(row.fit) :
                      /\ k \in DOMAIN row.pars
                      /\ \A v \in Tree!Range(row.pars[k]) :
                           v = Tree!Stored(k, Tree!Whole(row.fit))
      BY <2>3, <3>2 DEF RowOf, Tree!Range
    <3> QED BY <3>1, <3>2 DEF Tree!ValuesOfOneFit, OfFit
  <2>6. Tree!FinalsAreWhole
    BY <2>1 DEF Tree!FinalsAreWhole, GoodResult, IsResult, IsWhole
  <2> QED BY <2>4, <2>5, <2>6 DEF ValuesStayTogether
<1> QED BY <1>1, AlwaysTree, FitsAreFits, SPlotTypes, PTL
=============================================================================
