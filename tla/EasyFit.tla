------------------------------ MODULE EasyFit ------------------------------
(***************************************************************************)
(* EasyFit: one fit of a PDF to a dataset.  Options may be set until the   *)
(* fit is prepared, PDF and dataset until both are known; Fit prepares,    *)
(* executes and finalises, each as far as the state allows, and may be     *)
(* called again.  Several EasyFits may fit the same PDF.                   *)
(*                                                                         *)
(* Of the options there are one with a range, the saving of the result,    *)
(* and the two that decide about MINOS; the setters of the others are like *)
(* SetSave, that of the minimizer included, whose check is never called.   *)
(*                                                                         *)
(* External: RooAbsPdf::fitTo moves the parameters of the PDF that are not *)
(* constant.  A parameter is known by the PDF and the dataset of the fit   *)
(* that moved it last; those of a PDF but the yields are its Shape, and    *)
(* PDFs may have some in common.                                           *)
(***************************************************************************)
EXTENDS Integers

CONSTANTS
  EasyFits, Pdfs, Datas,
  Params,      \* parameters of PDFs but yields
  Shape,       \* those of each PDF
  Tuned,       \* bound: the EasyFits that get options or a NULL pointer
  Strategies,  \* strategies that are asked for
  Nothing, Start

ASSUME EasyFitAssumption ==
  /\ Tuned \subseteq EasyFits
  /\ Nothing \notin Pdfs \cup Datas
  /\ Start \notin Pdfs \X Datas
  /\ Shape \in [Pdfs -> SUBSET Params]
  /\ Strategies \subseteq Int

VARIABLES
  fit,  \* the EasyFit objects
  pars  \* where the value of each parameter is from; whether it is constant

fitVars == <<fit, pars>>

Options == [strategy: 0..2, save: BOOLEAN, minos: BOOLEAN, minosPars: BOOLEAN]

Defaults == [strategy |-> 1, save |-> TRUE, minos |-> TRUE, minosPars |-> FALSE]

(* What is handed to fitTo: MINOS for all parameters, for a set, or for    *)
(* none.                                                                   *)
Args(o) == [strategy |-> o.strategy, save |-> o.save,
            minos |-> IF o.minosPars THEN "set" ELSE IF o.minos THEN "all" ELSE "none"]

New == [prepared |-> FALSE, fitted |-> FALSE, finalized |-> FALSE,
        pdf |-> Nothing, data |-> Nothing,
        options |-> Defaults, args |-> Nothing, result |-> Nothing]

Parameter == [from: (Pdfs \X Datas) \cup {Start}, constant: BOOLEAN]

FitTypeOK ==
  /\ pars \in [Params -> Parameter]
  /\ \A e \in EasyFits :
       /\ fit[e].prepared \in BOOLEAN /\ fit[e].fitted \in BOOLEAN
       /\ fit[e].finalized \in BOOLEAN
       /\ fit[e].pdf \in Pdfs \cup {Nothing} /\ fit[e].data \in Datas \cup {Nothing}
       /\ fit[e].options \in Options

FitInit ==
  /\ fit = [e \in EasyFits |-> New]
  /\ pars = [q \in Params |-> [from |-> Start, constant |-> FALSE]]

-----------------------------------------------------------------------------
PdfAndDataReady(f) == f.pdf # Nothing /\ f.data # Nothing

(* Also from a workspace; a PDF that it does not have changes nothing.     *)
(* NULL may be given for either.                                           *)
BugSetPdfAndDataSet(e, p, d) ==
  /\ fit' = [fit EXCEPT ![e].pdf = p, ![e].data = d]
  /\ UNCHANGED pars

SetPdfAndDataSet(e, p, d) ==
  /\ ~PdfAndDataReady(fit[e])
  /\ fit' = [fit EXCEPT ![e].pdf = p, ![e].data = d]
  /\ UNCHANGED pars

CheckSettingOptionsOk(f) == ~f.prepared

SetOption(e, name, value) ==
  /\ CheckSettingOptionsOk(fit[e])
  /\ fit' = [fit EXCEPT ![e].options[name] = value]
  /\ UNCHANGED pars

SetStrategy(e, strategy) ==
  /\ strategy >= 0 /\ strategy < 3
  /\ SetOption(e, "strategy", strategy)

SetSave(e, save) == SetOption(e, "save", save)

SetMinos(e, minos) == SetOption(e, "minos", minos)

SetMinosPars(e) ==
  /\ CheckSettingOptionsOk(fit[e])
  /\ fit' = [fit EXCEPT ![e].options.minos = TRUE, ![e].options.minosPars = TRUE]
  /\ UNCHANGED pars

-----------------------------------------------------------------------------
(* Steps that the state does not allow change nothing.                     *)
PrepareFit(f) ==
  IF f.prepared \/ f.fitted \/ f.finalized THEN f
  ELSE [f EXCEPT !.args = Args(f.options), !.prepared = TRUE]

BugExecutes(f) == f.prepared /\ PdfAndDataReady(f)

Executes(f) == f.prepared /\ ~f.fitted /\ ~f.finalized /\ PdfAndDataReady(f)

(* free: the parameters of the shape that could move in this fit.          *)
Result(f) ==
  IF f.args.save
  THEN [pdf |-> f.pdf, data |-> f.data, args |-> f.args,
        free |-> {q \in Shape[f.pdf] : ~pars[q].constant}]
  ELSE Nothing

ExecuteFit(f) ==
  IF Executes(f) THEN [f EXCEPT !.result = Result(f), !.fitted = TRUE] ELSE f

FinalizeFit(f) ==
  IF f.prepared /\ f.fitted THEN [f EXCEPT !.finalized = TRUE] ELSE f

Fitted(f) == FinalizeFit(ExecuteFit(PrepareFit(f)))

(* External: RooAbsPdf::fitTo.                                             *)
FitTo(p, d, ps) ==
  [q \in Params |-> IF q \in Shape[p] /\ ~ps[q].constant
                    THEN [ps[q] EXCEPT !.from = <<p, d>>] ELSE ps[q]]

ParsFitted(f) ==
  IF Executes(PrepareFit(f)) THEN FitTo(f.pdf, f.data, pars) ELSE pars

Fit(e) ==
  /\ fit' = [fit EXCEPT ![e] = Fitted(@)]
  /\ pars' = ParsFitted(fit[e])

GetFitResult(f) ==
  IF f.prepared /\ f.fitted /\ f.finalized THEN f.result ELSE Nothing

FitNext ==
  \/ \E e \in EasyFits, p \in Pdfs \cup {Nothing}, d \in Datas \cup {Nothing} :
       /\ e \in Tuned \/ Nothing \notin {p, d}
       /\ SetPdfAndDataSet(e, p, d)
  \/ \E e \in Tuned :
       \/ \E strategy \in Strategies : SetStrategy(e, strategy)
       \/ \E save \in BOOLEAN : SetSave(e, save)
       \/ \E minos \in BOOLEAN : SetMinos(e, minos)
       \/ SetMinosPars(e)
  \/ \E e \in EasyFits : Fit(e)

-----------------------------------------------------------------------------
(* Properties.                                                             *)

(* A result that is given out is that of the PDF, the dataset and the      *)
(* options the object still has, in whatever order they were set, the fit  *)
(* was tried too early and setters were called again after it              *)
(* (CheckSettingOptionsOk, PdfAndDataReady).                               *)
ResultIsOfTheSetup ==
  \A e \in EasyFits :
    LET result == GetFitResult(fit[e])
    IN result # Nothing =>
         /\ result.pdf = fit[e].pdf /\ result.data = fit[e].data
         /\ result.args = Args(fit[e].options)

=============================================================================
