----------------------------- MODULE SPlotFit2 -----------------------------
(***************************************************************************)
(* SPlotFit2: a fit of a PDF, after which all its parameters but the       *)
(* yields are set constant for good and the sWeights of the input data are *)
(* computed.  The fit is done by an EasyFit, which has a PDF and a dataset *)
(* of its own, or, deprecated, by SPlotFit2 itself, which may read a file  *)
(* of starting values first.  One file is read and written by all.         *)
(*                                                                         *)
(* External: RooStats::SPlot, which computes the weights of the data from  *)
(* the shape of the PDF as it is, and the file of RooArgSet, with value    *)
(* and 'C' for constant of each parameter.  What the code does with a NULL *)
(* pointer ends the program.                                               *)
(***************************************************************************)
EXTENDS EasyFit

CONSTANTS
  SPlots,
  UserFiles  \* files of starting values that a user wrote: whether each
             \* parameter that is in the file is constant

ASSUME SPlotAssumption ==
  \A content \in UserFiles :
    /\ DOMAIN content \subseteq Params
    /\ content \in [DOMAIN content -> BOOLEAN]

VARIABLES
  splot,   \* the SPlotFit2 objects that exist
  file,    \* the file of starting values: its parameters
  running  \* the program has not crashed

vars == <<fit, pars, splot, file, running>>

(* weights: the PDF and the dataset that they are for, where the values of *)
(* its shape were from, and what kept the call from fitting each of them   *)
(* to the input data (why, not in the code).                               *)
Reasons ==
  {"otherData", "otherPdf", "fittedBefore", "constantBefore", "constantInFile"}

TypeOK ==
  /\ FitTypeOK
  /\ running \in BOOLEAN
  /\ DOMAIN splot \subseteq SPlots
  /\ \A s \in DOMAIN splot :
       /\ splot[s].easyfitter \in EasyFits \cup {Nothing}
       /\ splot[s].pdf \in Pdfs \cup {Nothing}
       /\ splot[s].data \in Datas \cup {Nothing}
       /\ splot[s].parameters \in (SUBSET Params) \cup {Nothing}
       /\ splot[s].weights # Nothing =>
            LET w == splot[s].weights IN
            /\ w.data \in Datas /\ w.pdf \in Pdfs
            /\ w.shape \in [Shape[w.pdf] -> (Pdfs \X Datas) \cup {Start}]
            /\ w.why \in [Shape[w.pdf] -> SUBSET Reasons]
  /\ DOMAIN file \subseteq Params
  /\ file \in [DOMAIN file -> Parameter]

Init ==
  /\ FitInit
  /\ splot = <<>>
  /\ \E content \in UserFiles :
       file = [q \in DOMAIN content |-> [from |-> Start, constant |-> content[q]]]
  /\ running = TRUE

Construct(s, easyfitter, p, d) ==
  /\ running
  /\ s \notin DOMAIN splot
  /\ splot' = [x \in DOMAIN splot \cup {s} |->
       IF x = s
       THEN [easyfitter |-> easyfitter, pdf |-> p, data |-> d,
             parameters |-> Nothing, weights |-> Nothing]
       ELSE splot[x]]
  /\ UNCHANGED <<fit, pars, file, running>>

(* The PDF of the EasyFit is looked up here, and may not be known yet.     *)
ConstructFromEasyFit(s, e, d) == Construct(s, e, fit[e].pdf, d)

(* Deprecated: a PDF, or several of which a sum is made; the data may be   *)
(* left to set_input_data.                                                 *)
ConstructFromPdf(s, p, d) == Construct(s, Nothing, p, d)

set_easyfitter(s, e) ==
  /\ running /\ s \in DOMAIN splot
  /\ splot' = [splot EXCEPT ![s].easyfitter = e]
  /\ UNCHANGED <<fit, pars, file, running>>

set_input_data(s, d) ==
  /\ running /\ s \in DOMAIN splot
  /\ splot' = [splot EXCEPT ![s].data = d]
  /\ UNCHANGED <<fit, pars, file, running>>

-----------------------------------------------------------------------------
(* All parameters that are left when the yields are taken away.            *)
SetConstant(p, ps) ==
  [q \in Params |-> IF q \in Shape[p] THEN [ps[q] EXCEPT !.constant = TRUE] ELSE ps[q]]

Weights(s, ps, why) ==
  LET p == splot[s].pdf
  IN [pdf |-> p, data |-> splot[s].data,
      shape |-> [q \in Shape[p] |-> ps[q].from], why |-> why]

WithWeights(s, p, w) ==
  [splot EXCEPT ![s].parameters = Shape[p], ![s].weights = w]

Complete(s) == splot[s].pdf # Nothing /\ splot[s].data # Nothing

(* SPlotFit2::Fit has the result saved, if that can still be set.          *)
Saving(f) == IF CheckSettingOptionsOk(f) THEN [f EXCEPT !.options.save = TRUE] ELSE f

EasyWhy(s, f) ==
  [q \in Shape[splot[s].pdf] |->
     {why \in Reasons :
        \/ why = "otherData" /\ f.data # splot[s].data
        \/ why = "otherPdf" /\ f.pdf # splot[s].pdf
        \/ why = "fittedBefore" /\ f.fitted
        \/ why = "constantBefore" /\ pars[q].constant}]

(* Mutant: the parameters become constant without a fit.                   *)
BugFitWithEasyFit(s) ==
  LET e == splot[s].easyfitter
      before == Saving(fit[e])
      ps == SetConstant(before.pdf, pars)
  IN
  /\ e # Nothing
  /\ before.pdf # Nothing /\ Complete(s)
  /\ fit' = [fit EXCEPT ![e] = Fitted(before)]
  /\ pars' = ps
  /\ splot' = WithWeights(s, before.pdf, Weights(s, ps, EasyWhy(s, before)))
  /\ UNCHANGED <<file, running>>

(* The parameters of the PDF of the EasyFit become constant, the weights   *)
(* are computed from the PDF of the SPlotFit2; that there may be no result *)
(* is only reported.                                                       *)
FitWithEasyFit(s) ==
  LET e == splot[s].easyfitter
      before == Saving(fit[e])
      ps == SetConstant(before.pdf, ParsFitted(before))
  IN
  /\ e # Nothing
  /\ before.pdf # Nothing /\ Complete(s)
  /\ fit' = [fit EXCEPT ![e] = Fitted(before)]
  /\ pars' = ps
  /\ splot' = WithWeights(s, before.pdf, Weights(s, ps, EasyWhy(s, before)))
  /\ UNCHANGED <<file, running>>

(* External: a parameter of the PDF that is in the file gets the value and *)
(* is set constant or free as it says there, the others stay as they are.  *)
ReadFromFile(p) ==
  [q \in Params |-> IF q \in Shape[p] /\ q \in DOMAIN file THEN file[q] ELSE pars[q]]

OwnWhy(p, start, named) ==
  [q \in Shape[p] |->
     {why \in Reasons :
        \/ why = "constantInFile" /\ named /\ q \in DOMAIN file /\ file[q].constant
        \/ why = "constantBefore" /\ pars[q].constant /\ start[q].constant}]

(* Deprecated: starting values are read from the file, if one was named    *)
(* (set_startingvalues).                                                   *)
FitWithoutEasyFit(s, named) ==
  LET p == splot[s].pdf
      start == IF named THEN ReadFromFile(p) ELSE pars
      ps == SetConstant(p, FitTo(p, splot[s].data, start))
  IN
  /\ splot[s].easyfitter = Nothing
  /\ Complete(s)
  /\ pars' = ps
  /\ splot' = WithWeights(s, p, Weights(s, ps, OwnWhy(p, start, named)))
  /\ UNCHANGED <<fit, file, running>>

(* Without a PDF at the right place or without data the call crashes.      *)
FitCrashes(s) ==
  LET e == splot[s].easyfitter
  IN
  /\ \/ ~Complete(s)
     \/ e # Nothing /\ fit[e].pdf = Nothing
  /\ running' = FALSE
  /\ UNCHANGED <<fit, pars, splot, file>>

SPlotFit(s) ==
  /\ running /\ s \in DOMAIN splot
  /\ \/ FitWithEasyFit(s)
     \/ \E named \in BOOLEAN : FitWithoutEasyFit(s, named)
     \/ FitCrashes(s)

(* The parameters of the last fit, without the yields, as they are now; a  *)
(* crash before the first one.                                             *)
WriteParametersFile(s) ==
  /\ running /\ s \in DOMAIN splot
  /\ IF splot[s].parameters = Nothing
     THEN running' = FALSE /\ UNCHANGED file
     ELSE file' = [q \in splot[s].parameters |-> pars[q]] /\ UNCHANGED running
  /\ UNCHANGED <<fit, pars, splot>>

Next ==
  \/ running /\ FitNext /\ UNCHANGED <<splot, file, running>>
  \/ \E s \in SPlots :
       \/ \E e \in EasyFits, d \in Datas : ConstructFromEasyFit(s, e, d)
       \/ \E p \in Pdfs, d \in Datas \cup {Nothing} : ConstructFromPdf(s, p, d)
       \/ \E e \in EasyFits : set_easyfitter(s, e)
       \/ \E d \in Datas : set_input_data(s, d)
       \/ SPlotFit(s) \/ WriteParametersFile(s)

Spec == Init /\ [][Next]_vars

-----------------------------------------------------------------------------
(* Properties.                                                             *)

(* A result once given out stays what it is: no later call, of whoever has *)
(* the EasyFit, fits again or replaces it (ExecuteFit).                    *)
GivenResultStays ==
  [][\A e \in EasyFits : GetFitResult(fit[e]) # Nothing =>
       GetFitResult(fit'[e]) = GetFitResult(fit[e])]_vars

(* Every parameter of the shape that weights are computed from comes from  *)
(* a fit of their PDF to their data, unless the EasyFit had other data or  *)
(* another PDF, had done its fit before, or the parameter was constant:    *)
(* since an sPlot of whatever PDF has it, too, or because the file of      *)
(* starting values says so, as one that WriteParametersFile wrote does.    *)
(* The code notices none of these, but nothing else goes wrong, in any     *)
(* order of calls (SPlotFit2::Fit).                                        *)
WeightsExplained ==
  \A s \in DOMAIN splot :
    LET w == splot[s].weights
    IN w # Nothing =>
         \A q \in Shape[w.pdf] : w.shape[q] = <<w.pdf, w.data>> \/ w.why[q] # {}

=============================================================================
