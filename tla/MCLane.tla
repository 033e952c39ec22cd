-------------------------------- MODULE MCLane --------------------------------
(***************************************************************************)
(* Model values for TLC: which of the inputs take the stream, are resume   *)
(* markers, are stored ahead of their admission, or may fail to convert.   *)
(***************************************************************************)
EXTENDS Lane, FiniteSets, TLC

CONSTANTS u1, u2, u3, u4, j1

\* What lane_mixed explores: every interleaving of the operator's inputs without late
\* triggers or notes, and a corner of two inputs and two epochs in which both occur.
Focus ==
    \/ (\A i \in Late : status[i] = "new") /\ \A s \in DOMAIN log : log[s] # Note(0)
    \/ /\ Cardinality({i \in Inputs : status[i] # "new"}) <= 2
       /\ epoch <= 2 /\ \A j \in Jobs : jobState[j] = "new"
=============================================================================
