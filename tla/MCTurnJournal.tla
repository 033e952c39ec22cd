---------------------------- MODULE MCTurnJournal ----------------------------
(* TurnJournal on small sets, with the run's bounds. *)
EXTENDS TurnJournal, Naturals, FiniteSets, TLC

CONSTANTS MaxExecs, MaxInputs

\* Runs and call ids are interchangeable.
Symmetric == Permutations(Runs) \cup Permutations(CallIds)

\* Bounds: executions ever entered, and calls declared or refused but never entered.
Bound == /\ Cardinality(execs) <= MaxExecs
         /\ Cardinality({k \in Keys : LET row == calls[k[1]][k]
                                      IN  row.state = "planned" \/ row.replayed}) <= MaxInputs

=============================================================================
