------------------------------ MODULE MCOutbound ------------------------------
(***************************************************************************)
(* What leaves for the world and what is awaited from it: the mail outbox  *)
(* (MailOutbox), and the three sides of a handed-over responsibility: its  *)
(* prompts (ManagedSends), its observer (Observation) and its follow-up    *)
(* (Followups).  The sides share the status, revision and binding of the   *)
(* responsibility, which each of them keeps as far as it depends on them   *)
(* and changes in every way the others may; a behaviour here is of one     *)
(* part, chosen at the start.                                              *)
(***************************************************************************)
EXTENDS MailOutbox, Integers, Sequences

CONSTANTS
    None, mail, reply, s1, s2,
    Sessions,
    MaxAtts, MaxSends, MaxRev, MaxMoves,
    MaxSeq, MaxTroubles, MaxBinds,
    MaxPrograms, MaxPlans, MaxMeddles

VARIABLES
    part,
    active, rev, atts, ops, wire, looking, pane, crossing, landed, moves,
    watched, sequenced, agent, att, cursor, pass, bind, events, told, replaced, blind, clash,
    troubles,
    status, plan, link, rows, held, call, reviews, meddles, overheld, cut

Sends == INSTANCE ManagedSends
Watch == INSTANCE Observation
Review == INSTANCE Followups

ASSUME SendAssumption == Sends!SendsAssumption
ASSUME ReviewAssumption == Review!FollowupsAssumption

sends == <<active, rev, atts, ops, wire, looking, pane, crossing, landed, moves>>
watch == <<watched, sequenced, agent, att, cursor, pass, bind, events, told, replaced, blind,
           clash, troubles>>
review == <<status, plan, link, rows, held, call, reviews, meddles, overheld, cut>>
all == <<part, vars, sends, watch, review>>

OutboundInit ==
    /\ part \in {"mail", "sends", "watch", "review"}
    /\ Init /\ Sends!Init /\ Watch!Init /\ Review!Init /\ (part # "watch" => sequenced)

OutboundNext ==
    \/ part = "mail" /\ Next /\ UNCHANGED <<part, sends, watch, review>>
    \/ part = "sends" /\ Sends!Next /\ UNCHANGED <<part, vars, watch, review>>
    \/ part = "watch" /\ Watch!Next /\ UNCHANGED <<part, vars, sends, review>>
    \/ part = "review" /\ Review!Next /\ UNCHANGED <<part, vars, sends, watch>>

OutboundSpec ==
    /\ OutboundInit /\ [][OutboundNext]_all
    /\ WF_vars(part = "mail" /\ Sweep)
    /\ \A d \in Drafts : /\ WF_vars(part = "mail" /\ Flies(d))
                         /\ WF_vars(part = "mail" /\ Elapse(d))

-----------------------------------------------------------------------------
(* Bounds of the parts; mail has none.                                     *)

\* Sends: a bind in progress next to one operation, two binds next to none; a correction,
\* a pause or a failing health next to a single binding.
Waiting == {c \in Sends!Callers : looking[c] # None}
Single == Len(atts) = 1
SendsFocus ==
    /\ Waiting # {} => active /\ rev = 1 /\ Len(ops) < 2 /\ (Waiting = Sends!Callers => ops = <<>>)
    /\ \A a \in Sends!Atts :
        atts[a].health \in {"missing", "identity_changed"} => Single /\ active /\ rev = 1 /\ Len(ops) < 2
    /\ ~active => rev = 1
    /\ rev > 1 => Single

\* Watch: what a pass may miss while it waits, one trouble with a second generation, and
\* one pass after a reset that went by unseen.
Missed ==
    IF pass = None THEN 0
    ELSE agent.total - pass.seen.total + agent.life - pass.seen.life
         + (IF agent.session = pass.seen.session THEN 0 ELSE 1)
WatchFocus ==
    /\ Missed + troubles <= 2
    /\ blind => watched /\ ~sequenced /\ troubles = 1 /\ att.gen = 1 /\ bind = None /\ agent.seq <= 1
    /\ sequenced => agent.seq + troubles <= 3
    /\ bind # None \/ att.gen > 1 => watched /\ sequenced /\ troubles <= 1 /\ agent.seq <= 2
    /\ bind # None => att.health \in {"attached", "identity_changed"} /\ agent.comp = 0
    /\ att.health = "detached" => pass # None /\ bind = None /\ troubles = 0
    /\ ~watched => bind = None /\ troubles = 0
    /\ att.health = "identity_changed" => bind # None \/ pass # None

Focus == SendsFocus /\ WatchFocus

-----------------------------------------------------------------------------
\* Sends: one unresolved prompt per agent, whatever its bindings, and verdicts that are
\* true (responsibilities.ts, responsibility-service.ts).
ManagedSendInv == Sends!ManagedSendInv

\* Sends: a pause, a correction, a detach or another bind wins over a call that waits for
\* Herdr (validateForSend, reattach).
LatestWordWins == Sends!LatestWordWins

\* Watch: fresh keys, no development swallowed, replaced only for cause
\* (responsibility-observer.ts).
ObservationInv == Watch!ObservationInv

\* Review: one follow-up program, one review per plan, an armed responsibility at rest
\* (responsibility-service.ts, ensureFollowup; scheduler.ts).
FollowupInv == Review!FollowupInv
=============================================================================
