---------------------------- MODULE MCConversation ----------------------------
(***************************************************************************)
(* What a conversation owes whoever waits for it: the claim of a resume    *)
(* (TurnJournal), and the sinks and /compact requests of a lane (Lane).    *)
(* Each of the two has in its own state what it sees of the other, so a    *)
(* behaviour here is of one of them, chosen at the start.                  *)
(***************************************************************************)
EXTENDS TurnJournal

CONSTANTS
    Inputs, Streaming, Seeds, Late, Unreadable, Jobs, Fallbacks, MaxEpoch, MaxNotes, Compacts

VARIABLES
    part,
    log, seq, boundary, epoch, closed, status, pending, converting, members, turn, folding,
    jobs, jobState, admitEpoch, stopped, summarised

Messages == INSTANCE Lane WITH att <- turn, fold <- folding

messages == <<log, seq, boundary, epoch, closed, status, pending, converting, members, turn,
              folding, jobs, jobState, admitEpoch, stopped, summarised>>
all == <<part, vars, messages>>

ConversationInit == part \in {"journal", "lane"} /\ Init /\ Messages!Init

ConversationNext ==
    \/ part = "journal" /\ Next /\ UNCHANGED <<part, messages>>
    \/ part = "lane" /\ Messages!Next /\ UNCHANGED <<part, vars>>

\* The fairness of each part, in the behaviours that are of it.
ConversationSpec ==
    /\ ConversationInit /\ [][ConversationNext]_all
    /\ WF_vars(part = "journal" /\ (Begin \/ DieBeforeRun))
    /\ WF_vars(part = "journal" /\ EndAttempt)
    /\ WF_messages(part = "lane" /\ Messages!Turn)
    /\ WF_messages(part = "lane" /\ Messages!Convert)
    /\ WF_messages(part = "lane" /\ Messages!Drain)

-----------------------------------------------------------------------------
\* The sink of every admitted input is told, whatever becomes of its turn (runtime.ts, notify).
EverySettled == Messages!EverySettled

\* Every /compact is answered and a lane that was shut down comes to rest (runtime.ts, drain).
DrainLoopEnds == Messages!DrainLoopEnds
=============================================================================
