--------------------------- MODULE MCBackgroundWork ---------------------------
(***************************************************************************)
(* What goes on behind the conversation: the retention of its exchanges    *)
(* (Retention), an external agent (Delegation) and the subagent runs       *)
(* (Subagents).  The three keep their own tables and call each other       *)
(* nowhere, so every interleaving of them is one of each: a behaviour here *)
(* is of one of them, chosen at the start.                                 *)
(***************************************************************************)
EXTENDS Retention

CONSTANTS MaxPrompts, MaxSeq, MaxFaults, MaxRows, MaxRuns, MaxRev, MaxTroubles

VARIABLES
    part,
    row, aged, space, agent, took, fin, report, prompts, launch, send, stop, scan, booted, told,
    guessed, faults, leaked,
    runs, shared, pi, watch, ready, lane, mode, boot, pending, inflight, given, news, answers, crossed,
    revived, troubles

Agent == INSTANCE Delegation
Crew == INSTANCE Subagents WITH MaxFaults <- MaxTroubles, faults <- troubles

\* What the proofs about Retention, Delegation and Subagents take of their constants.
ASSUME MemoryAssumption == RetentionAssumption
ASSUME AgentAssumption == Agent!DelegationAssumption
ASSUME CrewAssumption == Crew!SubagentsAssumption

delegation == <<row, aged, space, agent, took, fin, report, prompts, launch, send, stop, scan, booted,
                told, guessed, faults, leaked>>
subagents == <<runs, shared, pi, watch, ready, lane, mode, boot, pending, inflight, given, news,
               answers, crossed, revived, troubles>>
all == <<part, vars, delegation, subagents>>

BackgroundInit ==
    /\ part \in {"memory", "delegation", "subagents"}
    /\ Init /\ Agent!Init /\ Crew!Init /\ (part # "subagents" => ~shared)

BackgroundNext ==
    \/ part = "memory" /\ Next /\ UNCHANGED <<part, delegation, subagents>>
    \/ part = "delegation" /\ Agent!Next /\ UNCHANGED <<part, vars, subagents>>
    \/ part = "subagents" /\ Crew!Next /\ UNCHANGED <<part, vars, delegation>>

BackgroundSpec == BackgroundInit /\ [][BackgroundNext]_all /\ (part = "delegation" => Agent!Fairness)

\* Bounds.  Retention: one document with every operation and loss, or two of one operation
\* each without a loss or a recall.
OneDocument ==
    \/ said <= 1
    \/ losses = 0 /\ recall = None /\ blocks = {} /\ \A d \in 1 .. MaxDocs : rows[d] = None \/ rows[d].op = 1

\* Delegation: a close that failed, or a fault.
OneMishap == ~leaked \/ faults = 0

\* Subagents: two runs of one input each and one fault, or one run with an answer or a steer
\* and two, or with every fault.
OneRun ==
    /\ troubles > 2 /\ runs[1] # None => runs[1].rev <= 1
    /\ MaxRows > 1 /\ runs[2] # None =>
         runs[2].rev <= 1 /\ troubles <= 1 /\ (troubles = 0 \/ runs[1].rev <= 1)

Focus == OneDocument /\ OneMishap /\ OneRun

-----------------------------------------------------------------------------
\* Delegation: done means the last prompt was done and told, and a delegation that is over
\* leaves no agent running (delegation-lifecycle.ts).
DelegationInv == Agent!DelegationInv

\* Done is told of work the agent finished (herdr.ts, completion_seq "startup and session changes
\* do not set it"): what the fallback to the seq does not keep
\* (README, section 6).
DoneOnlyWhenFinished == Agent!DoneOnlyWhenFinished

\* Subagents: slots, one run in the box, stops that win, quiet terminal runs, outcomes of the
\* last input, and an owner for every live run (subagents/).
SubagentInv == Crew!SubagentInv

\* A delegation that starts or runs is settled, or is folded (delegation-lifecycle.ts, check),
\* and what is over stays over: a stopped delegation (delegations.ts, qRunning) and a settled
\* subagent run (subagents/settle.ts, finalize).
EndsOnce == Agent!EverySettles /\ Agent!StopIsFinal /\ Crew!OverIsFinal
=============================================================================
