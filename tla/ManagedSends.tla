----------------------------- MODULE ManagedSends ------------------------------
(***************************************************************************)
(* The prompts a handed-over responsibility sends to the agent of a pane,  *)
(* and the bindings they are sent through (responsibilities.ts,            *)
(* responsibility-service.ts, the responsibility tool, the app's           *)
(* responsibility routes, and herdr.ts, prompt).                           *)
(*                                                                         *)
(* A step is the code between two awaits: the listing that precedes a      *)
(* bind, Herdr's preflight, and the prompt.  Rows survive a crash; calls   *)
(* in progress do not, and a prompt that left may still arrive.            *)
(***************************************************************************)
EXTENDS Naturals, Sequences

CONSTANTS
    None,
    Sessions,                               \* harness sessions the pane may host
    MaxAtts, MaxSends, MaxRev, MaxMoves     \* bounds

VARIABLES
    active,     \* responsibilities.status: active, or paused or closed
    rev,        \* responsibilities.revision
    atts,       \* attachments: [gen, dest, health, left], left for detached_at
    ops,        \* prompt_operations: [att, gen, rev, dest, state], ruled if reconciled
    wire,       \* what the dispatch of each operation awaits
    looking,    \* the listing a caller awaits for a bind: [att, snap, seen, at], or None
    pane,       \* the session the pane hosts
    crossing,   \* operations whose prompt has left and has not arrived
    landed,     \* history: the session each prompt arrived at, or None
    moves       \* binds, detaches and replacements so far, bounded by MaxMoves

vars == <<active, rev, atts, ops, wire, looking, pane, crossing, landed, moves>>

Callers == {"tool", "app"}
Atts == DOMAIN atts
Ops == DOMAIN ops

\* An attachment, an operation, and a caller's request for a listing.
Attachment ==
    [gen : Nat, dest : Sessions, left : Nat,
     health : {"attached", "missing", "identity_changed", "detached"}]
Operation ==
    [att : Nat, gen : Nat, rev : Nat, dest : Sessions, ruled : BOOLEAN,
     state : {"sent", "acknowledged", "uncertain", "refused"}]
Request == [att : Nat \cup {None}, snap : Attachment \cup {None}, seen : Sessions, at : Nat]

\* None is none of what it stands beside.
SendsAssumption == Sessions # {} /\ None \notin Sessions \cup Nat \cup Attachment \cup Request

Bound(session) == [gen |-> 1, dest |-> session, health |-> "attached", left |-> 0]

Init ==
    /\ active = TRUE /\ rev = 1
    /\ pane = CHOOSE session \in Sessions : TRUE
    /\ atts = <<Bound(pane)>>
    /\ ops = <<>> /\ wire = <<>> /\ landed = <<>> /\ crossing = {}
    /\ looking = [c \in Callers |-> None]
    /\ moves = 0

-----------------------------------------------------------------------------
(* Sending.                                                                *)

Sendable(a) == active /\ atts[a].health = "attached"

InDoubt(o) == ops[o].state \in {"sent", "uncertain"}

\* Mutant: the fence is the row, not the destination.
FencedByRow(a) ==
    \E o \in Ops : InDoubt(o) /\ ops[o].att = a /\ ops[o].gen = atts[a].gen

\* An unresolved send of this binding, or of any binding to the same destination.
Fenced(a) ==
    \E o \in Ops : /\ InDoubt(o)
                   /\ \/ ops[o].att = a /\ ops[o].gen = atts[a].gen
                      \/ ops[o].dest = atts[a].dest

\* prepareOperation, claimForSend and the first recheck run in one go; the operation is
\* on record as sent before Herdr is asked anything.
Send(a) ==
    /\ Len(ops) < MaxSends
    /\ Sendable(a) /\ ~Fenced(a)
    /\ ops' = Append(ops, [att |-> a, gen |-> atts[a].gen, rev |-> rev,
                           dest |-> atts[a].dest, state |-> "sent", ruled |-> FALSE])
    /\ wire' = Append(wire, "preflight") /\ landed' = Append(landed, None)
    /\ UNCHANGED <<active, rev, atts, looking, pane, crossing, moves>>

\* A settlement applies to an operation that is still on record as sent.
Settle(o, state) ==
    /\ ops' = [ops EXCEPT ![o].state = IF @ = "sent" THEN state ELSE @]
    /\ wire' = [wire EXCEPT ![o] = "none"]
    /\ UNCHANGED <<active, rev, atts, looking, pane, crossing, landed, moves>>

\* A preflight that fails, sees another occupant, or finds the send no longer valid.
Refuse(o) == wire[o] = "preflight" /\ Settle(o, "refused")

\* Mutant: the wait for Herdr is not followed by a second look at the record.
StillValidOnce(o) == ops[o].state = "sent"

\* validateForSend at the wire.
StillValid(o) ==
    /\ ops[o].state = "sent" /\ Sendable(ops[o].att)
    /\ atts[ops[o].att].gen = ops[o].gen /\ rev = ops[o].rev

Spawn(o) ==
    /\ wire[o] = "preflight"
    /\ pane = ops[o].dest /\ StillValid(o)
    /\ wire' = [wire EXCEPT ![o] = "prompt"]
    /\ crossing' = crossing \cup {o}
    /\ UNCHANGED <<active, rev, atts, ops, looking, pane, landed, moves>>

\* Herdr types the prompt into whatever the pane hosts, or it is lost.
Arrive(o) ==
    /\ o \in crossing /\ crossing' = crossing \ {o}
    /\ landed' \in {landed, [landed EXCEPT ![o] = pane]}
    /\ UNCHANGED <<active, rev, atts, ops, wire, looking, pane, moves>>

\* Herdr reports the pane's agent after the wait; the occupant must be the bound one.
Acknowledge(o) ==
    /\ wire[o] = "prompt" /\ landed[o] # None
    /\ pane = ops[o].dest
    /\ Settle(o, "acknowledged")

\* A timeout, an abort, an unreadable or a foreign answer.
LoseAnswer(o) == wire[o] = "prompt" /\ Settle(o, "uncertain")

\* Inspected evidence closes an operation that no live dispatch owns.
Reconcile(o) ==
    /\ InDoubt(o) /\ wire[o] = "none"
    /\ \E verdict \in {"acknowledged", "refused"} :
        ops' = [ops EXCEPT ![o].state = verdict, ![o].ruled = TRUE]
    /\ UNCHANGED <<active, rev, atts, wire, looking, pane, crossing, landed, moves>>

-----------------------------------------------------------------------------
(* Binding.                                                                *)

Move == moves < MaxMoves /\ moves' = moves + 1

Detach(a) ==
    /\ Move
    /\ atts' = [atts EXCEPT ![a].health = "detached", ![a].left = moves']
    /\ UNCHANGED <<active, rev, ops, wire, looking, pane, crossing, landed>>

\* A new binding (the tool alone) or a reattach reads its row and asks for the listing.
Look(c, a) ==
    /\ looking[c] = None
    /\ a = None => c = "tool" /\ Len(atts) < MaxAtts
    /\ looking' = [looking EXCEPT ![c] =
           [att |-> a, snap |-> IF a = None THEN None ELSE atts[a], seen |-> pane, at |-> moves]]
    /\ UNCHANGED <<active, rev, atts, ops, wire, pane, crossing, landed, moves>>

\* Herdr lists its agents as they were when it was asked, or as they are.
Lists(c, session) == looking[c] # None /\ session \in {looking[c].seen, pane}

\* The tool's assertAuthority, an ambiguous listing, or a refusal of the store.
GiveUp(c) ==
    /\ looking[c] # None
    /\ looking' = [looking EXCEPT ![c] = None]
    /\ UNCHANGED <<active, rev, atts, ops, wire, pane, crossing, landed, moves>>

\* attach: no unresolved send to the destination and no live binding of it.
Attach(c, dest) ==
    /\ Lists(c, dest) /\ looking[c].att = None /\ Len(atts) < MaxAtts
    /\ ~\E o \in Ops : InDoubt(o) /\ ops[o].dest = dest
    /\ ~\E a \in Atts : atts[a].health # "detached" /\ atts[a].dest = dest
    /\ Move /\ atts' = Append(atts, Bound(dest))
    /\ looking' = [looking EXCEPT ![c] = None]
    /\ UNCHANGED <<active, rev, ops, wire, pane, crossing, landed>>

\* The row is the one the caller read: its generation, health and detachment.
Unmoved(c) == atts[looking[c].att] = looking[c].snap

\* reattach: the same destination waits for its unresolved send, another is adopted.
Reattach(c, dest) ==
    LET a == looking[c].att
    IN  /\ Lists(c, dest) /\ a # None /\ Unmoved(c)
        /\ atts[a].dest = dest =>
             ~\E o \in Ops : InDoubt(o) /\ ops[o].att = a /\ ops[o].gen = atts[a].gen
        /\ Move
        /\ atts' = [atts EXCEPT ![a] = [Bound(dest) EXCEPT !.gen = atts[a].gen + 1]]
        /\ looking' = [looking EXCEPT ![c] = None]
        /\ UNCHANGED <<active, rev, ops, wire, pane, crossing, landed>>

\* The observer's verdict on a binding it may still watch (Observation has the whole of it).
Sight(a) ==
    /\ active /\ atts[a].health \in {"attached", "missing"}
    /\ \E health \in {"attached", "missing", "identity_changed"} :
        atts' = [atts EXCEPT ![a].health = health]
    /\ UNCHANGED <<active, rev, ops, wire, looking, pane, crossing, landed, moves>>

-----------------------------------------------------------------------------
(* The operator, the pane, and the process.                                *)

PauseOrResume ==
    /\ active' = ~active
    /\ UNCHANGED <<rev, atts, ops, wire, looking, pane, crossing, landed, moves>>

Correct ==
    /\ rev < MaxRev /\ rev' = rev + 1
    /\ UNCHANGED <<active, atts, ops, wire, looking, pane, crossing, landed, moves>>

\* Another harness session takes the pane; one whose prompt is awaited is not resumed
\* in it within the wait.
Replace(session) ==
    /\ Move /\ session # pane
    /\ \A o \in Ops : wire[o] = "prompt" => ops[o].dest # session
    /\ pane' = session
    /\ UNCHANGED <<active, rev, atts, ops, wire, looking, crossing, landed>>

Crash ==
    /\ wire' = [o \in Ops |-> "none"]
    /\ looking' = [c \in Callers |-> None]
    /\ UNCHANGED <<active, rev, atts, ops, pane, crossing, landed, moves>>

-----------------------------------------------------------------------------
Dispatching(o) == Refuse(o) \/ Spawn(o) \/ Arrive(o) \/ Acknowledge(o) \/ LoseAnswer(o)
Binding(c) == GiveUp(c) \/ \E dest \in Sessions : Attach(c, dest) \/ Reattach(c, dest)

Next ==
    \/ \E o \in Ops : Dispatching(o) \/ Reconcile(o)
    \/ \E a \in Atts : Send(a) \/ Detach(a) \/ Sight(a)
    \/ \E c \in Callers : Binding(c) \/ \E a \in Atts \cup {None} : Look(c, a)
    \/ \E s \in Sessions : Replace(s)
    \/ PauseOrResume \/ Correct \/ Crash

Spec == Init /\ [][Next]_vars

-----------------------------------------------------------------------------
(* What is claimed.                                                        *)

TypeOK ==
    /\ active \in BOOLEAN /\ rev \in Nat /\ pane \in Sessions /\ moves \in Nat
    /\ atts \in Seq(Attachment) /\ ops \in Seq(Operation) /\ looking \in [Callers -> Request \cup {None}]
    /\ wire \in [Ops -> {"none", "preflight", "prompt"}] /\ landed \in [Ops -> Sessions \cup {None}]
    /\ crossing \subseteq Ops /\ \A o \in Ops : ops[o].att \in Atts

\* Whatever the binding, at most one send to an agent is unresolved: a detach and a new
\* binding, a second binding of the same agent, a reattach and a crash do not get around
\* it (responsibilities.ts, qUnresolvedForIdentity).
OneInDoubt ==
    \A o, p \in Ops : InDoubt(o) /\ InDoubt(p) /\ ops[o].dest = ops[p].dest => o = p

\* A verdict of the code, not of a reconciliation, is so: what was refused never arrives
\* anywhere, and what was acknowledged arrived at the agent it was bound to.
VerdictsAreTrue ==
    \A o \in Ops : ~ops[o].ruled =>
        /\ ops[o].state = "refused" => landed[o] = None /\ o \notin crossing
        /\ ops[o].state = "acknowledged" => landed[o] = ops[o].dest

ManagedSendInv == TypeOK /\ OneInDoubt /\ VerdictsAreTrue

\* The latest word wins over a call that was waiting for Herdr: no prompt leaves for a
\* responsibility paused or corrected, or a binding detached or bound anew, since it was
\* prepared; no reattach undoes a detach, or another reattach, made after it began.
LatestWordWins ==
    [][/\ \A o \in Ops : (o \in crossing' /\ o \notin crossing) =>
            active /\ rev = ops[o].rev /\ atts[ops[o].att].gen = ops[o].gen
                   /\ atts[ops[o].att].health = "attached"
       /\ \A a \in Atts : atts'[a].gen # atts[a].gen =>
            \E c \in Callers : /\ looking[c] # None /\ looking[c].att = a
                               /\ looking[c].snap.gen = atts[a].gen
                               /\ looking[c].at >= atts[a].left]_vars
=============================================================================
