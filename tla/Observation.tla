------------------------------ MODULE Observation ------------------------------
(***************************************************************************)
(* The deterministic observation of an attached agent                      *)
(* (responsibility-observer.ts): a pass lists the agents of a Herdr        *)
(* target, and for each attachment commits a cursor, a health and at most  *)
(* one development in a transaction that re-reads the binding.             *)
(*                                                                         *)
(* One attachment and one pane.  A step is the code between two awaits; a  *)
(* pass and a reattach await the listing.  The text of a development is    *)
(* told apart by the status it quotes: blocked or not.                     *)
(***************************************************************************)
EXTENDS Integers

CONSTANTS
    None,
    Sessions,                            \* harness sessions the pane may host
    MaxSeq, MaxTroubles, MaxBinds        \* bounds

VARIABLES
    watched,    \* the responsibility is active
    sequenced,  \* the server reports state_change_seq
    agent,      \* what Herdr knows of the pane's agent
    att,        \* the attachment: [gen, dest, health]
    cursor,     \* its cursor_json
    pass,       \* the pass that awaits its listing: [gen, seen], or None
    bind,       \* the reattach that awaits its listing: [row, seen], or None
    events,     \* work_events: [key, text]
    told,       \* history: what the developments since the bind told, [total, blocked]
    replaced,   \* history: the pane hosted another session since the bind
    blind,      \* history: a server reset went by unseen
    clash,      \* history: a development met its own key
    troubles    \* restarts, replacements and disappearances, bounded by MaxTroubles

vars == <<watched, sequenced, agent, att, cursor, pass, bind, events, told, replaced, blind,
          clash, troubles>>

\* A listing; total and life are the history of the agent, not on the wire.
View == IF sequenced THEN agent ELSE [agent EXCEPT !.seq = None]

CursorFromAgent(v) ==
    [seq |-> v.seq, comp |-> v.comp, blocked |-> v.blocked, missing |-> FALSE,
     epoch |-> 0, stints |-> 0, total |-> v.total, life |-> v.life]

Telling(v) == [total |-> v.total, blocked |-> v.blocked]

Init ==
    /\ watched = TRUE /\ sequenced \in BOOLEAN
    /\ LET s == CHOOSE session \in Sessions : TRUE IN
        /\ agent = [session |-> s, listed |-> TRUE, seq |-> 1, comp |-> 0, blocked |-> FALSE,
                    total |-> 0, life |-> 0]
        /\ att = [gen |-> 1, dest |-> s, health |-> "attached"]
    /\ cursor = CursorFromAgent(View) /\ told = Telling(View)
    /\ pass = None /\ bind = None /\ events = {}
    /\ replaced = FALSE /\ blind = FALSE /\ clash = FALSE /\ troubles = 0

-----------------------------------------------------------------------------
(* The commit.                                                             *)

Sighted == att.health \in {"attached", "missing"}

\* A regression of the sequence: the target's server was reset.
Reset(v) == cursor.seq # None /\ v.seq # None /\ v.seq < cursor.seq

Vanished(v) == ~v.listed /\ ~cursor.missing

\* Mutant: the key namespace of a generation is never renewed.
EpochKept(v) == cursor.epoch

\* The durable namespace of the keys: renewed by a reset and by each disappearance.
Epoch(v) == IF (v.listed /\ Reset(v)) \/ Vanished(v) THEN cursor.epoch + 1 ELSE cursor.epoch

\* The cursor a sighting leaves.
Sighting(v, stints) ==
    IF v.listed
    THEN [CursorFromAgent(v) EXCEPT !.epoch = Epoch(v), !.stints = stints]
    ELSE [cursor EXCEPT !.missing = TRUE, !.blocked = FALSE, !.epoch = Epoch(v)]

\* A reset that shows no regression leaves the numbers of two lives in one namespace.
Overlooks(v) == v.listed /\ ~cursor.missing /\ v.life # cursor.life /\ ~Reset(v)

\* No development: the cursor alone.
Note(v) ==
    /\ cursor' = Sighting(v, cursor.stints)
    /\ told' = [told EXCEPT !.blocked = @ /\ cursor'.blocked]
    /\ blind' = (blind \/ Overlooks(v))
    /\ UNCHANGED <<att, events, clash>>

\* wakes.record: a key that is known with this text joins what it recorded, with another
\* text it throws, and the transaction is rolled back.
Tell(v, kind, n, health, stints) ==
    LET key == <<att.gen, Epoch(v), kind, n>>
        known == {e \in events : e.key = key}
        throws == \E e \in known : e.text # v.blocked
    IN  /\ clash' = (clash \/ known # {})
        /\ blind' = (blind \/ Overlooks(v))
        /\ IF throws THEN UNCHANGED <<att, cursor, events, told>>
           ELSE /\ cursor' = Sighting(v, stints)
                /\ att' = [att EXCEPT !.health = health]
                /\ events' = events \cup {[key |-> key, text |-> v.blocked]}
                /\ told' = IF known = {} THEN Telling(v) ELSE told

\* What names a transition into blocked.
Stint(v) == cursor.stints + 1

Completes(v) == v.comp > cursor.comp
Blocks(v) == v.blocked /\ ~cursor.blocked

\* reconcileCurrent, in its order: gone, replaced, recovered, reset, done, blocked, stable.
Reconcile(v) ==
    IF ~v.listed THEN
        IF Vanished(v) THEN Tell([v EXCEPT !.blocked = FALSE], "missing", cursor.seq, "missing", cursor.stints)
        ELSE Note(v)
    ELSE IF v.session # att.dest THEN Tell(v, "identity", v.session, "identity_changed", cursor.stints)
    ELSE IF cursor.missing THEN Tell(v, "recovered", v.seq, "attached", cursor.stints)
    ELSE IF Reset(v) THEN Tell(v, "cursor-reset", v.seq, att.health, cursor.stints)
    ELSE IF Completes(v) THEN Tell(v, "done", v.comp, att.health, cursor.stints)
    ELSE IF Blocks(v) THEN Tell(v, "blocked", Stint(v), att.health, cursor.stints + 1)
    ELSE Note(v)

-----------------------------------------------------------------------------
(* The pass.                                                               *)

\* observeOnce asks for the listing of the bindings it watches.
Observe ==
    /\ pass = None /\ watched /\ Sighted
    /\ pass' = [gen |-> att.gen, seen |-> View]
    /\ UNCHANGED <<watched, sequenced, agent, att, cursor, bind, events, told, replaced, blind,
                   clash, troubles>>

\* What the transaction re-reads: the generation, its health, and the responsibility.
Current == att.gen = pass.gen /\ Sighted /\ watched

\* The target is unreachable, the binding has moved on, or the listing is reconciled.
Observed ==
    /\ pass # None /\ pass' = None
    /\ IF Current THEN Reconcile(pass.seen)
       ELSE UNCHANGED <<att, cursor, events, told, blind, clash>>
    /\ UNCHANGED <<watched, sequenced, agent, bind, replaced, troubles>>

Unreachable ==
    /\ pass # None /\ pass' = None
    /\ UNCHANGED <<watched, sequenced, agent, att, cursor, bind, events, told, replaced, blind,
                   clash, troubles>>

-----------------------------------------------------------------------------
(* The binding.                                                            *)

AskToBind ==
    /\ bind = None /\ att.gen < MaxBinds
    /\ bind' = [row |-> att, seen |-> View]
    /\ UNCHANGED <<watched, sequenced, agent, att, cursor, pass, events, told, replaced, blind,
                   clash, troubles>>

\* A reattach starts a generation from the listing, if the row is as it was.
Reattach ==
    /\ bind # None /\ bind' = None
    /\ bind.seen.listed /\ att = bind.row
    /\ att' = [gen |-> att.gen + 1, dest |-> bind.seen.session, health |-> "attached"]
    /\ cursor' = CursorFromAgent(bind.seen) /\ told' = Telling(bind.seen)
    /\ replaced' = (agent.session # bind.seen.session)
    /\ blind' = FALSE /\ clash' = FALSE
    /\ UNCHANGED <<watched, sequenced, agent, pass, events, troubles>>

\* The caller is refused, or gone.
BindFails ==
    /\ bind # None /\ bind' = None
    /\ UNCHANGED <<watched, sequenced, agent, att, cursor, pass, events, told, replaced, blind,
                   clash, troubles>>

Detach ==
    /\ att.health # "detached"
    /\ att' = [att EXCEPT !.health = "detached"]
    /\ UNCHANGED <<watched, sequenced, agent, cursor, pass, bind, events, told, replaced, blind,
                   clash, troubles>>

PauseOrResume ==
    /\ watched' = ~watched
    /\ UNCHANGED <<sequenced, agent, att, cursor, pass, bind, events, told, replaced, blind,
                   clash, troubles>>

-----------------------------------------------------------------------------
(* The agent, its server, and the process.                                 *)

Changes(new) ==
    /\ agent' = new
    /\ UNCHANGED <<watched, sequenced, att, cursor, pass, bind, events, told, blind, clash>>

\* The agent blocks or goes on; a completion may be part of it.
Work ==
    /\ agent.listed /\ agent.seq < MaxSeq
    /\ \E done \in {0, 1}, blocked \in BOOLEAN :
        /\ done = 1 \/ blocked # agent.blocked
        /\ Changes([agent EXCEPT !.seq = @ + 1, !.comp = @ + done, !.total = @ + done,
                                 !.blocked = blocked])
    /\ UNCHANGED <<replaced, troubles>>

Trouble == troubles < MaxTroubles /\ troubles' = troubles + 1

\* The server starts over with its counters.
Restart ==
    /\ Trouble
    /\ Changes([agent EXCEPT !.seq = 0, !.comp = 0, !.life = @ + 1])
    /\ UNCHANGED replaced

\* Another session takes the pane.
Replace ==
    /\ Trouble /\ agent.listed
    /\ \E s \in Sessions \ {agent.session} :
        /\ Changes([agent EXCEPT !.session = s])
        /\ replaced' = (replaced \/ s # att.dest)

\* The agent is no longer listed, or is again.
ComeAndGo ==
    /\ IF agent.listed THEN Trouble ELSE UNCHANGED troubles
    /\ Changes([agent EXCEPT !.listed = ~@])
    /\ UNCHANGED replaced

Crash ==
    /\ pass' = None /\ bind' = None
    /\ UNCHANGED <<watched, sequenced, agent, att, cursor, events, told, replaced, blind, clash,
                   troubles>>

-----------------------------------------------------------------------------
Next == \/ Observe \/ Observed \/ Unreachable \/ AskToBind \/ Reattach \/ BindFails \/ Detach
        \/ PauseOrResume \/ Work \/ Restart \/ Replace \/ ComeAndGo \/ Crash

Spec == Init /\ [][Next]_vars

-----------------------------------------------------------------------------
(* What is claimed.                                                        *)

\* Every development has a key of its own, across reattachments, server resets and
\* disappearances, so none is taken for a replay of another and dropped: unless a reset
\* shows no regression (responsibility-observer.ts, the epoch of the cursor).
FreshKeys == clash => blind

\* The cursor is never ahead of the conversation: what it covers, a completion or a
\* blocked agent, was told by a development of this generation or seen at the bind.
NoneSwallowed ==
    blind \/ (cursor.total <= told.total /\ (cursor.blocked => told.blocked))

\* A binding is declared replaced only if another session did take its pane since it was
\* made; a listing from before the bind says nothing of it (reconcile's re-read).
ReplacedForCause == att.health = "identity_changed" => replaced

ObservationInv == FreshKeys /\ NoneSwallowed /\ ReplacedForCause
=============================================================================
