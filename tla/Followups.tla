------------------------------- MODULE Followups -------------------------------
(***************************************************************************)
(* The follow-up of a handed-over responsibility: one program that ticks,  *)
(* and a plan that says when the next review is due                        *)
(* (responsibility-service.ts, ensureFollowup; responsibilities.ts, the    *)
(* plan; scheduler.ts, fireResponsibility; responsibility-stage.ts).       *)
(*                                                                         *)
(* A call runs without an await but over several commits: call is what is  *)
(* left of it, and between two commits only a refused write or a crash     *)
(* comes in.                                                               *)
(***************************************************************************)
EXTENDS Integers

CONSTANTS None, MaxPrograms, MaxPlans, MaxMeddles    \* bounds

VARIABLES
    status,     \* responsibilities.status: active, paused, or closed
    plan,       \* followup_json: [token, kind, due], due once its time has come
    link,       \* followup_program_id
    rows,       \* the follow-up programs of the responsibility: enabled or not, or None
    held,       \* the latest report waits for the operator (responsibilityStage)
    call,       \* the commits a call has yet to make: [next, enable, p], or None
    reviews,    \* the reviews recorded for each plan's token
    meddles,    \* uses of the program tool on the row, bounded by MaxMeddles
    overheld,   \* history: the plan's time came while the operator held the move
    cut         \* history: a call ended before its last commit, and no enabling one since

vars == <<status, plan, link, rows, held, call, reviews, meddles, overheld, cut>>

Tokens == 1 .. MaxPlans
Ids == 1 .. MaxPrograms
Live == {p \in Ids : rows[p] # None}

\* A call in progress; None is none of what it stands beside.
Calls ==
    [next : {"ensure", "link", "settle", "consume"}, enable : BOOLEAN \cup {None},
     p : Ids \cup {None}]
FollowupsAssumption == None \notin BOOLEAN \cup Int \cup Calls

Then(next, enable, p) == call' = [next |-> next, enable |-> enable, p |-> p]

\* The handover is committed; its follow-up is about to be linked.
Init ==
    /\ status = "active" /\ plan = [token |-> 1, kind |-> "silence", due |-> FALSE]
    /\ link = None /\ rows = [p \in Ids |-> None]
    /\ held = FALSE
    /\ call = [next |-> "ensure", enable |-> None, p |-> None]
    /\ reviews = [t \in Tokens |-> 0]
    /\ meddles = 0 /\ overheld = FALSE /\ cut = FALSE

-----------------------------------------------------------------------------
(* The plan.                                                               *)

\* A plan with a token of its own takes the place of the last.
Plan(kind) ==
    /\ plan.token < MaxPlans
    /\ plan' = [token |-> plan.token + 1, kind |-> kind, due |-> FALSE]
    /\ overheld' = FALSE

KeepPlan == UNCHANGED <<plan, overheld>>

Idle == call = None

\* Closing or leaving a status starts a fresh silence.
SetStatus(new, enable) ==
    /\ Idle /\ status' = new
    /\ IF new = status THEN KeepPlan ELSE Plan("silence")
    /\ Then("ensure", enable, None)
    /\ UNCHANGED <<link, rows, held, reviews, meddles, cut>>

Pause == SetStatus("paused", None)
Resume == SetStatus("active", TRUE)
Cancel == SetStatus("closed", FALSE)

\* planFollowup of the responsibility tool.
Commit ==
    /\ Idle /\ status = "active"
    /\ Plan("commitment") /\ Then("ensure", None, None)
    /\ UNCHANGED <<status, link, rows, held, reviews, meddles, cut>>

\* revise and correct: a new revision, which no earlier report speaks for.
Revise ==
    /\ Idle /\ Plan("silence") /\ held' = FALSE
    /\ UNCHANGED <<status, link, rows, call, reviews, meddles, cut>>

\* The silence was held while the operator had the move.
LeavesHold(holds) == status = "active" /\ held /\ ~holds /\ plan.kind = "silence"

\* A report that leaves the responsibility open, and hands the move to the operator or not.
Report(holds) ==
    /\ Idle /\ status \in {"active", "paused"}
    /\ held' = holds
    /\ IF LeavesHold(holds) THEN Plan("silence") ELSE KeepPlan
    /\ UNCHANGED <<status, link, rows, call, reviews, meddles, cut>>

\* A report with evidence closes it; the tool looks at its follow-up once more.
ReportDone ==
    /\ Idle /\ status \in {"active", "paused"}
    /\ status' = "closed" /\ held' = FALSE
    /\ Plan("silence") /\ Then("ensure", None, None)
    /\ UNCHANGED <<link, rows, reviews, meddles, cut>>

\* A new observation moves the silence backstop, of an active responsibility only.
Defer ==
    /\ Idle /\ status = "active" /\ plan.kind = "silence"
    /\ Plan("silence")
    /\ UNCHANGED <<status, link, rows, held, call, reviews, meddles, cut>>

\* A reattach starts a fresh silence, whatever was planned.
Rebind ==
    /\ Idle /\ Plan("silence")
    /\ UNCHANGED <<status, link, rows, held, call, reviews, meddles, cut>>

-----------------------------------------------------------------------------
(* The program.                                                            *)

Linked == link # None /\ rows[link] # None

\* Mutant: a program that no link names is no one's.
OrphansIgnored == {}

\* Follow-up programs a crash left unlinked.
Orphans == IF Linked THEN {} ELSE Live

\* The last commit of an ensureFollowup: whatever was cut short is made good by one that
\* enables, and by any that finds the program as it should be.
Done ==
    /\ call' = None
    /\ cut' = (cut /\ ~(link' # None /\ rows'[link'] = TRUE))

Settled(p) == [rows EXCEPT ![p] = IF call.enable = None THEN @ ELSE call.enable]

\* A linked program is kept, and enabled or disabled if that was asked.
KeepLinked ==
    /\ Linked /\ rows' = Settled(link)
    /\ UNCHANGED link /\ Done

\* The oldest orphan is adopted, the others are switched off.
Adopt ==
    /\ Orphans # {}
    /\ LET p == CHOOSE q \in Orphans : \A r \in Orphans : q <= r
       IN  /\ link' = p
           /\ rows' = [q \in Ids |-> IF q \in Orphans \ {p} THEN FALSE ELSE rows[q]]
           /\ Then("settle", call.enable, p)
    /\ UNCHANGED cut

NothingToArm ==
    /\ ~Linked /\ Orphans = {}
    /\ call.enable = FALSE \/ status # "active"
    /\ UNCHANGED <<link, rows>> /\ Done

\* A new row; a dangling link is to an id that is not given again.
Create ==
    /\ ~Linked /\ Orphans = {} /\ call.enable # FALSE /\ status = "active"
    /\ \E p \in Ids : /\ rows[p] = None /\ p # link
                      /\ rows' = [rows EXCEPT ![p] = TRUE]
                      /\ Then("link", call.enable, p)
    /\ UNCHANGED <<link, cut>>

\* The commits of ensureFollowup, and of a review that was recorded.
Proceed ==
    /\ ~Idle
    /\ \/ /\ call.next = "ensure"
          /\ KeepLinked \/ Adopt \/ NothingToArm \/ Create
          /\ KeepPlan
       \/ /\ call.next = "link"
          /\ link' = call.p /\ UNCHANGED rows /\ Done
          /\ KeepPlan
       \/ /\ call.next = "settle"
          /\ rows' = Settled(call.p) /\ UNCHANGED link /\ Done
          /\ KeepPlan
       \/ /\ call.next = "consume"
          /\ Plan("silence") /\ call' = None
          /\ UNCHANGED <<link, rows, cut>>
    /\ UNCHANGED <<status, held, reviews, meddles>>

\* The store refuses a write: what is left of the call is not done.
Refused ==
    /\ ~Idle /\ call' = None
    /\ cut' = (cut \/ call.next # "consume")
    /\ UNCHANGED <<status, plan, link, rows, held, reviews, meddles, overheld>>

\* The process dies; the next one looks at every open responsibility's follow-up.
Crash ==
    /\ IF status = "closed" THEN call' = None ELSE Then("ensure", None, None)
    /\ cut' = (cut \/ (~Idle /\ call.enable = TRUE))
    /\ UNCHANGED <<status, plan, link, rows, held, reviews, meddles, overheld>>

\* The program tool may disable, enable or delete the row.
Meddle ==
    /\ Idle /\ meddles < MaxMeddles /\ meddles' = meddles + 1
    /\ \E p \in Live : rows' \in {[rows EXCEPT ![p] = ~@], [rows EXCEPT ![p] = None]}
    /\ UNCHANGED <<status, plan, link, held, call, reviews, overheld, cut>>

-----------------------------------------------------------------------------
(* The tick.                                                               *)

Elapse ==
    /\ Idle /\ ~plan.due
    /\ plan' = [plan EXCEPT !.due = TRUE]
    /\ overheld' = held
    /\ UNCHANGED <<status, link, rows, held, call, reviews, meddles, cut>>

\* The development is known by the plan's token.
Recorded == reviews[plan.token] > 0

\* Silence does not fire on an operator who has not answered; a commitment does.
Holds == plan.kind = "silence" /\ held

\* The review is recorded, then its plan is consumed.
Tick(p) ==
    /\ Idle /\ rows[p] = TRUE
    /\ status = "active" /\ link = p
    /\ plan.due /\ ~Holds
    /\ reviews' = IF Recorded THEN reviews ELSE [reviews EXCEPT ![plan.token] = @ + 1]
    /\ Then("consume", None, p)
    /\ UNCHANGED <<status, plan, link, rows, held, meddles, overheld, cut>>

-----------------------------------------------------------------------------
Next ==
    \/ Pause \/ Resume \/ Cancel \/ Commit \/ Revise \/ ReportDone \/ Defer \/ Rebind
    \/ \E holds \in BOOLEAN : Report(holds)
    \/ Proceed \/ Refused \/ Crash \/ Meddle \/ Elapse
    \/ \E p \in Ids : Tick(p)

Spec == Init /\ [][Next]_vars

-----------------------------------------------------------------------------
(* What is claimed.                                                        *)

\* A responsibility has one follow-up program at most, wherever its creation and its link
\* were cut short (responsibility-service.ts, the recovery of ensureFollowup).
OneProgram == \A p, q \in Live : p = q

\* A plan is reviewed once, though a crash or a refused write leaves a recorded review
\* unconsumed (scheduler.ts, the key of a follow-up).
ReviewedOnce == \A t \in Tokens : reviews[t] <= 1

\* An operator who takes an hour to answer does not set off the backstop by answering: a
\* silence that is due came due while no report was held (responsibilities.ts, report).
FreshBound == (status = "active" /\ plan.kind = "silence" /\ plan.due /\ ~held) => ~overheld

\* At rest, an active responsibility has an enabled program and the link to it, unless the
\* program tool was at it or a call was cut short (index.ts, the boot sweep).
Armed == (Idle /\ status = "active" /\ meddles = 0 /\ ~cut) => Linked /\ rows[link]

FollowupInv == OneProgram /\ ReviewedOnce /\ FreshBound /\ Armed
=============================================================================
