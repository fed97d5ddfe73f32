----------------------------- MODULE ResultStore -----------------------------
(***************************************************************************)
(* What ToyStudyStd promises to the processes that store fit results in    *)
(* one file: the results of each process appear in the file once each and  *)
(* in the order they were accepted; a process that closes its store has    *)
(* everything in the file; a process that dies loses at most the results   *)
(* that were not in the file yet and harms no other.                       *)
(***************************************************************************)
EXTENDS Naturals, Sequences

CONSTANTS Procs, Results

VARIABLES
  phase,   \* "open", "closed" or "dead", for each process
  given,   \* the results each process's store accepted, in order
  stored   \* the results of each process in the file, in order

vars == <<phase, given, stored>>

Init ==
  /\ phase = [p \in Procs |-> "open"]
  /\ given = [p \in Procs |-> <<>>]
  /\ stored = [p \in Procs |-> <<>>]

Accept(p) ==
  /\ phase[p] = "open"
  /\ \E r \in Results : given' = [given EXCEPT ![p] = Append(@, r)]
  /\ UNCHANGED <<phase, stored>>

(* The next results that are not in the file yet go there, at once.        *)
Commit(p) ==
  /\ phase[p] = "open"
  /\ \E n \in Len(stored[p])..Len(given[p]) :
       stored' = [stored EXCEPT ![p] = SubSeq(given[p], 1, n)]
  /\ UNCHANGED <<phase, given>>

Close(p) ==
  /\ phase[p] = "open"
  /\ stored[p] = given[p]
  /\ phase' = [phase EXCEPT ![p] = "closed"]
  /\ UNCHANGED <<given, stored>>

Die(p) ==
  /\ phase[p] # "dead"
  /\ phase' = [phase EXCEPT ![p] = "dead"]
  /\ UNCHANGED <<given, stored>>

Next == \E p \in Procs : Accept(p) \/ Commit(p) \/ Close(p) \/ Die(p)

Spec == Init /\ [][Next]_vars
==============================================================================
