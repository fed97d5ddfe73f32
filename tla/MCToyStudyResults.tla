--------------------------- MODULE MCToyStudyResults ------------------------
(* Finite instances of ToyStudyResults. *)
EXTENDS ToyStudyResults

Other(kind) == [kind |-> kind, entries |-> <<>>]
Results(entries) == [kind |-> "results", entries |-> entries]
Entry(quality, seed, run) == [quality |-> quality, seed |-> seed, run |-> run]

Good(seed, run) == Entry("good", seed, run)
Bad(seed, run) == Entry("bad", seed, run)

(* The toys of two jobs, as the reference analysis needs them: run 1 and   *)
(* run 2 of each seed, in different files, the seeds not in order.         *)
TwoJobs == << Results(<<Good(2, 1), Bad(1, 2), Good(1, 1)>>), Other("zombie"),
              Results(<<Good(1, 2), Good(2, 2)>>) >>
(* A seed that was used a third time, and a file of EasyFit results.       *)
SeedReused == << Other("easyfit"), Results(<<Good(1, 2), Good(1, 1)>>),
                 Other("other"), Results(<<Good(2, 1), Good(2, 2), Good(2, 1)>>) >>
AllKinds == << Results(<<Bad(1, 1), Good(1, 2)>>), Other("easyfit"),
               Other("zombie"), Results(<<Good(2, 1)>>), Other("other") >>
(* A toy whose second run is not there.                                    *)
HalfMissing == << Results(<<Good(1, 1)>>) >>
WithNull == << Results(<<Good(1, 1), Entry("null", 0, 0)>>) >>

Config(list, limit, reference) ==
  [files |-> list, numToysRead |-> limit, evaluateReference |-> reference]

(* All kinds of files and entries; with as many results as the reference   *)
(* analysis needs there is a limit on the number of toys.                  *)
MCConfigs ==
  {Config(list, -1, FALSE) : list \in
     {<<>>, AllKinds, HalfMissing, WithNull,
      <<Other("no_tree"), Results(<<>>)>>}}
  \cup {Config(list, 3, TRUE) : list \in {TwoJobs, SeedReused}}
  \cup {Config(HalfMissing, 0, TRUE), Config(TwoJobs, 1, FALSE)}

MCOneToyEach == {Config(TwoJobs, 1, FALSE)}

(* Trees of EasyFitResults: without entries, with one, with several.       *)
MCEntries == <<2, 0, 1>>
MCCallers == {"counts_first", "any_order"}
=============================================================================
