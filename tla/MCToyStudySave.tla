--------------------------- MODULE MCToyStudySave ---------------------------
(* Finite instances of ToyStudySave.  A file that another job has left is  *)
(* the one that the other process writes.                                  *)
EXTENDS ToyStudySave, TLC

MCNewFile == { NoTree }

MCNamed == { TRUE }
MCUnnamed == { FALSE }

MCKills == { "kill" }
MCSignals == { "signal" }
MCNoFaults == { }

MCSymmetry == Permutations(Procs)
=============================================================================
