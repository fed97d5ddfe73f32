----------------------------- MODULE MCJobFarm ------------------------------
(* Finite instances of JobFarm. *)
EXTENDS JobFarm, TLC

Scan(start, end, inc, perjob, over) ==
  [start |-> start, end |-> end, inc |-> inc, perjob |-> perjob,
   over |-> over]
NoScan == Scan(0, 0, 0, 1, FALSE)

CommandLine(base, minseed, jobs, iterations, scan1, scan2) ==
  [basename |-> base, minseed |-> minseed, jobs |-> jobs,
   iterations |-> iterations, scan1 |-> scan1, scan2 |-> scan2]

(* Two jobs without a scan, with a seed of their own choice; a scan of     *)
(* three values of which a job gets two, so that the last range is cut; a  *)
(* scan that has no value; and, in tenths, the scan from 0.2 to 0.3 by     *)
(* 0.1, whose sum is 0.30000000000000004.                                  *)
MCOptions ==
  {CommandLine("a", 3, 2, 2, NoScan, NoScan),
   CommandLine("b", 1, 1, 3, Scan(0, 2, 1, 2, FALSE), NoScan),
   CommandLine("b", 1, 1, 1, Scan(1, 0, 1, 1, FALSE), NoScan),
   CommandLine("b", 1, 1, 1, NoScan, Scan(2, 3, 1, 1, TRUE))}

ProcessSymmetry == Permutations(Builders) \cup Permutations(Schedulers)
=============================================================================
