---------------------------- MODULE MCWakeDelivery ----------------------------
(***************************************************************************)
(* Model values for TLC: the source keys of the developments.              *)
(***************************************************************************)
EXTENDS WakeDelivery, TLC

CONSTANTS e1, e2

\* Developments are interchangeable; only for runs without temporal properties.
Symmetric == Permutations(Events)
=============================================================================
