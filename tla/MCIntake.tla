------------------------------- MODULE MCIntake -------------------------------
(***************************************************************************)
(* The intake of one Telegram lane, from the update to the history it goes *)
(* into (Inbox), for TLC and the proofs.  What the lane of that history    *)
(* makes of an input is Lane's: the two meet in one synchronous call,      *)
(* commitBatch's append and submit, and share no state.                    *)
(***************************************************************************)
EXTENDS Integers, Sequences, FiniteSets

CONSTANTS MaxUpdates, MaxConvs, MaxMishaps

VARIABLES
    lane, sent, confirmed, handled, listed, db, bot, chain, bucket, timers, deferred, flight, live,
    spoiled, refused, mishaps

Chat == INSTANCE Inbox

ASSUME IntakeAssumption == Chat!InboxAssumption

Spec == Chat!Spec

-----------------------------------------------------------------------------
\* Every recorded input is in one place until it is in one history, once, in order,
\* where the navigation left it (tg/mod.ts, tg/inbox.ts, tg/buffer.ts).
IntakeInv == Chat!IntakeInv

\* A turn starts in the conversation that is current when its batch is committed
\* (tg/mod.ts, flushRolling).
JoinsTheCurrent == Chat!JoinsTheCurrent

\* Every recorded input is decided and a drain ends, unless the process dies
\* (tg/buffer.ts, retain; tg/mod.ts, drainIntake).
EveryInputDecided == Chat!EveryInputDecided
=============================================================================
