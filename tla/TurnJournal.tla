----------------------------- MODULE TurnJournal -----------------------------
(***************************************************************************)
(* The crash journal of a turn (turn-journal.ts), the recovery fence that  *)
(* every tool call of an attempt passes (fenceTools of runtime.ts, with    *)
(* turn/retry-guard.ts) and the operator's side of recovery                *)
(* (turn-resume.ts: decide, abandon, resume).                              *)
(*                                                                         *)
(* One conversation, so at most one attempt at a time: the lane serialises *)
(* them.  A process crash is possible between any two steps.  The journal  *)
(* rows survive it, everything else is gone.                               *)
(***************************************************************************)
CONSTANTS
    Runs,          \* run ids (randomUUID per attempt)
    CallIds,       \* the ids providers give to tool calls
    Sigs,          \* call signatures: tool name and hash of the whole arguments
    SafeSigs,      \* signatures of tools whose policy says replay is safe
    None

ASSUME ConstantsAssumption ==
    /\ None \notin Runs \cup Sigs \cup (Runs \X CallIds)
    /\ SafeSigs \subseteq Sigs

VARIABLES
    run,       \* the turn_runs rows
    calls,     \* the turn_tool_calls rows: calls[r][<<o, c>>] is the row of run r
               \* for call c of run o; o # r is an inherited copy, id "o:c"
    att,       \* the attempt the lane is running
    guard,     \* the attempt's in-memory recovery guard
    claimed,   \* turn-resume.ts: sources with a resume in flight
    inflight,  \* tool executions entered and not yet settled
    execs,     \* history: every tool execution ever entered
    booked,    \* history: those whose id no settled call of their run bore
    lineage    \* history: the attempts a run continues, itself included

journal == <<run, calls>>
process == <<att, guard, claimed, inflight>>
history == <<execs, booked, lineage>>
vars    == <<run, calls, att, guard, claimed, inflight, execs, booked, lineage>>

-----------------------------------------------------------------------------
(* Types. *)

Keys == Runs \X CallIds

CallStates == {"absent", "planned", "dispatched", "completed", "failed",
               "resolved-done", "resolved-retry", "resolved-skip"}

Row == [state : CallStates, sig : Sigs \cup {None},
        replayed : BOOLEAN, consumed : BOOLEAN]

NoRow == [state |-> "absent", sig |-> None, replayed |-> FALSE, consumed |-> FALSE]
NoRows == [k \in Keys |-> NoRow]

RunStatus == {"none", "running", "interrupted", "fenced", "completed", "error",
              "resumed", "abandoned"}
Delivery == {"pending", "delivered", "undelivered", "failed"}

Exec == [run : Runs, call : CallIds, sig : Sigs, grant : Keys \cup {None}]

\* "queued": admitted, its run row not inserted yet; "live": its row exists.
Attempt == [phase : {"idle", "queued", "live"}, run : Runs \cup {None},
            src : Runs \cup {None}, pred : Runs \cup {None},
            folded : BOOLEAN, fault : BOOLEAN]

Idle == [phase |-> "idle", run |-> None, src |-> None, pred |-> None,
         folded |-> FALSE, fault |-> FALSE]
Queued(src) == [phase |-> "queued", run |-> None, src |-> src, pred |-> None,
                folded |-> FALSE, fault |-> FALSE]

TypeOK ==
    /\ run \in [Runs -> [status : RunStatus, delivery : Delivery, src : Runs \cup {None}]]
    /\ calls \in [Runs -> [Keys -> Row]]
    /\ att \in Attempt
    /\ guard \in [Keys -> Row]
    /\ claimed \subseteq Runs
    /\ inflight \subseteq execs
    /\ execs \subseteq Exec
    /\ booked \subseteq execs
    /\ lineage \in [Runs -> SUBSET Runs]

Init ==
    /\ run = [r \in Runs |-> [status |-> "none", delivery |-> "pending", src |-> None]]
    /\ calls = [r \in Runs |-> NoRows]
    /\ att = Idle
    /\ guard = NoRows
    /\ claimed = {}
    /\ inflight = {}
    /\ execs = {}
    /\ booked = {}
    /\ lineage = [r \in Runs |-> {}]

-----------------------------------------------------------------------------
(* Admission.                                                              *)

\* Runtime.submit: an ordinary turn, no source and no predecessor.
Submit ==
    /\ att.phase = "idle"
    /\ att' = Queued(None)
    /\ UNCHANGED <<journal, guard, claimed, inflight, history>>

\* qInherit, INSERT OR IGNORE: what a table gives to a successor.  A dispatched
\* row stays behind, and a key already there is kept.
Inherit(into, from) ==
    [k \in Keys |-> IF into[k].state = "absent" /\ from[k].state # "dispatched"
                    THEN from[k] ELSE into[k]]

RowsOf(r) == IF r = None THEN NoRows ELSE calls[r]

\* buildRetryGuard: the inherited rows that say something may have run, or was declined.
GuardOf(rows) ==
    [k \in Keys |-> IF \/ rows[k].sig = None
                       \/ rows[k].replayed
                       \/ rows[k].state \in {"planned", "dispatched"}
                    THEN NoRow ELSE rows[k]]

\* beginRun: the run row, the evidence of the failed predecessor and of the
\* resume source, and the source's mark are one transaction.
BeginRun(r) ==
    /\ att.phase = "queued"
    /\ run[r].status = "none"
    /\ att.src # None => run[att.src].status \in {"interrupted", "resumed"}
    /\ run' = [q \in Runs |->
                  IF q = r THEN [status |-> "running", delivery |-> "pending", src |-> att.src]
                  ELSE IF q = att.src THEN [run[q] EXCEPT !.status = "resumed"]
                  ELSE run[q]]
    /\ calls' = [calls EXCEPT ![r] = Inherit(Inherit(NoRows, RowsOf(att.pred)), RowsOf(att.src))]
    /\ guard' = GuardOf(calls'[r])
    /\ att' = [att EXCEPT !.phase = "live", !.run = r]
    /\ lineage' = [lineage EXCEPT ![r] =
                      {r} \cup UNION {lineage[q] : q \in {att.pred, att.src} \ {None}}]
    /\ UNCHANGED <<claimed, inflight, execs, booked>>

\* Mutant: the claim is released by the run's own end only.
DieBeforeRunKeepsClaim ==
    /\ att.phase = "queued"
    /\ att' = Idle
    /\ UNCHANGED <<journal, guard, claimed, inflight, history>>

\* The attempt ends before its run row exists: a refused admission, a stop, a
\* failing recall.  Its sink is settled, which releases the resume claim.
DieBeforeRun ==
    /\ att.phase = "queued"
    /\ att' = Idle
    /\ claimed' = claimed \ {att.src}
    /\ UNCHANGED <<journal, guard, inflight, history>>

-----------------------------------------------------------------------------
(* Tool calls of the live attempt.                                         *)

Own(c) == <<att.run, c>>
RowAt(c) == calls[att.run][Own(c)]
PutRow(c, row) == calls' = [calls EXCEPT ![att.run][Own(c)] = row]

\* Providers number ids per response: a later response may bring an id back, once the
\* call that bore it has returned.
IdFree(c) == \A e \in inflight : e.run = att.run => e.call # c

\* noteToolInput: the chunk seam declares a call; it also names a row the
\* dispatch seam wrote without a name.
NoteToolInput(c, s) ==
    /\ att.phase = "live"
    /\ RowAt(c).sig = None
    /\ PutRow(c, [RowAt(c) EXCEPT !.sig = s,
                                  !.state = IF @ = "absent" THEN "planned" ELSE @])
    /\ UNCHANGED <<run, process, history>>

\* classifyRetry over the guard.
Entries(s) == {k \in Keys : guard[k].state # "absent" /\ guard[k].sig = s}
Grants(s) == {k \in Entries(s) : guard[k].state = "resolved-retry" /\ ~guard[k].consumed}
Skips(s) == {k \in Entries(s) : guard[k].state = "resolved-skip"}
\* Mutant: a failed execution does not count.
ExecutionsButFailed(s) == {k \in Entries(s) :
                     guard[k].state \in {"completed", "resolved-done", "resolved-retry"}}

Executions(s) == {k \in Entries(s) :
                     guard[k].state \in {"completed", "failed", "resolved-done", "resolved-retry"}}

\* Mutant: the safe-replay test comes before the skip.
ClearSafeFirst(s) == Grants(s) = {} /\ (s \in SafeSigs \/ (Skips(s) = {} /\ Executions(s) = {}))

Clear(s) == Grants(s) = {} /\ Skips(s) = {} /\ (s \in SafeSigs \/ Executions(s) = {})

\* Mutant: INSERT OR IGNORE, a planned row stays planned.
DispatchedOrIgnored(row, s) ==
    IF row.state = "absent" THEN [row EXCEPT !.state = "dispatched", !.sig = s] ELSE row

\* qDispatch: only a planned row, or none, becomes dispatched.
Dispatched(row, s) ==
    IF row.state \in {"absent", "planned"}
    THEN [row EXCEPT !.state = "dispatched", !.sig = s]
    ELSE row

Enter(c, s, g) ==
    LET e == [run |-> att.run, call |-> c, sig |-> s, grant |-> g]
    IN  /\ execs' = execs \cup {e}
        /\ inflight' = inflight \cup {e}
        /\ booked' = IF RowAt(c).state \in {"absent", "planned"} THEN booked \cup {e} ELSE booked

\* The verdict "execute": the dispatch row lands, then the tool is entered.
Dispatch(c, s) ==
    /\ att.phase = "live" /\ ~att.fault
    /\ IdFree(c)
    /\ Clear(s)
    /\ PutRow(c, Dispatched(RowAt(c), s))
    /\ Enter(c, s, None)
    /\ UNCHANGED <<run, att, guard, claimed, lineage>>

\* Mutant: only the in-memory entry is spent.
DispatchGrantedInMemory(c, s, g) ==
    /\ att.phase = "live" /\ ~att.fault
    /\ g \in Grants(s)
    /\ RowAt(c).state \in {"absent", "planned"}
    /\ PutRow(c, Dispatched(RowAt(c), s))
    /\ guard' = [guard EXCEPT ![g].consumed = TRUE]
    /\ Enter(c, s, g)
    /\ UNCHANGED <<run, att, claimed, lineage>>

\* The verdict "execute-grant": the grant is spent in the dispatch transaction,
\* which refuses a target already further along and a grant already spent.
DispatchGranted(c, s, g) ==
    /\ att.phase = "live" /\ ~att.fault
    /\ g \in Grants(s)
    /\ RowAt(c).state \in {"absent", "planned"}
    /\ LET row == calls[att.run][g]
       IN  row.state = "resolved-retry" /\ ~row.consumed /\ row.sig = s
    /\ calls' = [calls EXCEPT ![att.run][Own(c)] = Dispatched(@, s),
                              ![att.run][g].consumed = TRUE]
    /\ guard' = [guard EXCEPT ![g].consumed = TRUE]
    /\ Enter(c, s, g)
    /\ UNCHANGED <<run, att, claimed, lineage>>

\* qResult and qError: a row that already has an outcome does not move.
Settled(row, st, replay) ==
    IF row.state \in {"absent", "planned", "dispatched"}
    THEN [row EXCEPT !.state = st, !.replayed = replay]
    ELSE row

\* The verdict "refuse": a synthetic replayed result, nothing is entered.
Refuse(c, s) ==
    /\ att.phase = "live" /\ ~att.fault
    /\ IdFree(c)
    /\ Grants(s) = {} /\ ~Clear(s)
    /\ PutRow(c, Settled(RowAt(c), "completed", TRUE))
    /\ UNCHANGED <<run, process, history>>

\* The tool returns or throws.  Its attempt may already be over: a stop does not
\* interrupt a tool that is running.
ToolReturns(e, st) ==
    /\ e \in inflight
    /\ calls' = [calls EXCEPT ![e.run][<<e.run, e.call>>] = Settled(@, st, FALSE)]
    /\ inflight' = inflight \ {e}
    /\ UNCHANGED <<run, att, guard, claimed, history>>

\* A journal write throws: the attempt is poisoned, no later call is entered.
DispatchLost ==
    /\ att.phase = "live" /\ ~att.fault
    /\ att' = [att EXCEPT !.fault = TRUE]
    /\ UNCHANGED <<journal, guard, claimed, inflight, history>>

\* Mutant: the failed result write is swallowed.
ResultSwallowed(e) ==
    /\ e \in inflight
    /\ inflight' = inflight \ {e}
    /\ UNCHANGED <<journal, att, guard, claimed, history>>

ResultLost(e) ==
    /\ e \in inflight
    /\ inflight' = inflight \ {e}
    /\ att' = IF att.run = e.run THEN [att EXCEPT !.fault = TRUE] ELSE att
    /\ UNCHANGED <<journal, guard, claimed, history>>

-----------------------------------------------------------------------------
(* The end of an attempt.                                                  *)

Running(r) == \E e \in inflight : e.run = r

Stamp(st, dl) == run' = [run EXCEPT ![att.run].status = st, ![att.run].delivery = dl]

\* The lane is free, the members' sinks are settled.
Release ==
    /\ att' = Idle
    /\ guard' = NoRows
    /\ claimed' = claimed \ {att.src}

\* stampRun and notifyAll on the completed, fenced and error paths.
Finish(st, dl) ==
    /\ att.phase = "live"
    /\ \/ st = "completed" /\ dl = "delivered" /\ ~att.fault /\ ~Running(att.run)
       \/ st = "fenced" /\ dl = "undelivered" /\ ~att.fault
       \/ st = "error" /\ dl = "failed"
    /\ Stamp(st, dl)
    /\ Release
    /\ UNCHANGED <<calls, inflight, history>>

\* The terminal stamp itself cannot be written.
StampLost ==
    /\ att.phase = "live"
    /\ Release
    /\ UNCHANGED <<journal, inflight, history>>

\* The attempt is handed to a fresh one: after a fold of the overflowing context
\* (once per logical turn), or to the next fallback model when an ordinary
\* attempt did nothing at all.
HandOff(fold) ==
    /\ att.phase = "live" /\ ~att.fault /\ ~Running(att.run)
    /\ ~att.folded
    /\ fold \/ (att.src = None /\ calls[att.run] = NoRows)
    /\ Stamp("error", "undelivered")
    /\ att' = [att EXCEPT !.phase = "queued", !.run = None, !.pred = att.run, !.folded = fold]
    /\ guard' = NoRows
    /\ UNCHANGED <<calls, claimed, inflight, history>>

-----------------------------------------------------------------------------
(* The operator, and the process.                                          *)

\* Mutant: a source that was already continued is offered again.
DecidableAgain(r) == run[r].status \in {"interrupted", "resumed"} /\ r \notin claimed

Decidable(r) == run[r].status = "interrupted" /\ r \notin claimed

\* Mutant: the update lost its WHERE state = 'dispatched'.
DecideAnyState(r, k, st) ==
    /\ Decidable(r)
    /\ calls[r][k].state # "absent"
    /\ calls' = [calls EXCEPT ![r][k].state = st]
    /\ UNCHANGED <<run, process, history>>

\* /decide record-result and skip: only an ambiguous call takes them.
Decide(r, k, st) ==
    /\ Decidable(r)
    /\ calls[r][k].state = "dispatched"
    /\ calls' = [calls EXCEPT ![r][k].state = st]
    /\ UNCHANGED <<run, process, history>>

\* /decide authorize-retry: one more execution of an ambiguous or a known call.
AuthorizeRetry(r, k) ==
    /\ Decidable(r)
    /\ calls[r][k].state \in {"dispatched", "completed", "failed", "resolved-done"}
    /\ ~calls[r][k].replayed
    /\ calls' = [calls EXCEPT ![r][k].state = "resolved-retry", ![r][k].consumed = FALSE]
    /\ UNCHANGED <<run, process, history>>

Abandon(r) ==
    /\ Decidable(r)
    /\ run' = [run EXCEPT ![r].status = "abandoned"]
    /\ UNCHANGED <<calls, process, history>>

\* Mutant: the undecided calls are not looked at.
ResumeUndecided(r) ==
    /\ Decidable(r)
    /\ att.phase = "idle"
    /\ claimed' = claimed \cup {r}
    /\ att' = Queued(r)
    /\ UNCHANGED <<journal, guard, inflight, history>>

\* /resume: every ambiguous call decided, the lane idle.
Resume(r) ==
    /\ Decidable(r)
    /\ \A k \in Keys : calls[r][k].state # "dispatched"
    /\ att.phase = "idle"
    /\ claimed' = claimed \cup {r}
    /\ att' = Queued(r)
    /\ UNCHANGED <<journal, guard, inflight, history>>

\* The process dies and openTurnJournal runs again.
CrashRestart ==
    /\ run' = [r \in Runs |-> IF run[r].status = "running"
                              THEN [run[r] EXCEPT !.status = "interrupted"] ELSE run[r]]
    /\ att' = Idle
    /\ guard' = NoRows
    /\ claimed' = {}
    /\ inflight' = {}
    /\ UNCHANGED <<calls, history>>

-----------------------------------------------------------------------------
Begin == \E r \in Runs : BeginRun(r)

ToolStep ==
    \/ \E c \in CallIds, s \in Sigs :
          \/ NoteToolInput(c, s)
          \/ Dispatch(c, s)
          \/ \E g \in Keys : DispatchGranted(c, s, g)
          \/ Refuse(c, s)
    \/ \E e \in inflight : \/ \E st \in {"completed", "failed"} : ToolReturns(e, st)
                           \/ ResultLost(e)
    \/ DispatchLost

EndAttempt ==
    \/ Finish("completed", "delivered")
    \/ Finish("fenced", "undelivered")
    \/ Finish("error", "failed")
    \/ StampLost

Operator ==
    \E r \in Runs :
        \/ \E k \in Keys : \/ \E st \in {"resolved-done", "resolved-skip"} : Decide(r, k, st)
                           \/ AuthorizeRetry(r, k)
        \/ Abandon(r)
        \/ Resume(r)

Next ==
    \/ Submit
    \/ Begin
    \/ DieBeforeRun
    \/ ToolStep
    \/ EndAttempt
    \/ \E fold \in BOOLEAN : HandOff(fold)
    \/ Operator
    \/ CrashRestart

\* The lane's drain loop runs an admitted attempt to an end; nothing obliges the
\* operator, the model or a tool to do anything, and nothing forbids a crash.
Fairness == WF_vars(Begin \/ DieBeforeRun) /\ WF_vars(EndAttempt)

Spec == Init /\ [][Next]_vars
FairSpec == Spec /\ Fairness

-----------------------------------------------------------------------------
(* Properties.                                                             *)

Ancestors(r) == lineage[r] \ {r}

\* A later attempt of the same logical turn never repeats a tool execution an
\* earlier attempt booked, whether it completed, failed or was cut off by a
\* crash: only a tool whose replay is safe, or a call the operator granted, runs again.
\* An execution under an id its run had settled leaves no row to book it
\* (EveryExecutionJournaled) and is not protected.
NoUnauthorizedRepeat ==
    \A e \in execs, p \in booked :
        (p.run \in Ancestors(e.run) /\ p.sig = e.sig /\ e.sig \notin SafeSigs)
            => e.grant # None

\* One decision of the operator buys one execution, along any chain of crashes,
\* resumes and hand-offs.
GrantSpentOnce ==
    \A e, p \in execs :
        (p.run \in lineage[e.run] /\ p.grant = e.grant /\ e.grant # None) => e = p

\* A skip decided on an earlier attempt still refuses the call in every later one,
\* unless a grant covers that very execution.
SkipNeverExpires ==
    \A e \in execs : e.grant = None =>
        \A q \in Ancestors(e.run), k \in Keys :
            ~(calls[q][k].state = "resolved-skip" /\ calls[q][k].sig = e.sig)

\* An execution is journaled when a row of its own run names it: the row is what a
\* crash leaves behind.
Journaled(e) ==
    LET row == calls[e.run][<<e.run, e.call>>]
    IN  row.sig = e.sig /\ ~row.replayed /\ row.state \notin {"absent", "planned"}

\* No tool is entered without such a row when its run has not settled a call of that id,
\* and no later call, refusal or late result of that id takes the row away.
EveryDispatchJournaled == \A e \in booked : Journaled(e)

\* What runtime-turn.md says of every side effect.  It does not hold: an id that comes back
\* within its run breaks it (README, section 6).
EveryExecutionJournaled == \A e \in execs : Journaled(e)

\* An interrupted run is continued at most once: two runs that share an attempt
\* lie on one chain.
NoFork ==
    \A q, r \in Runs :
        lineage[q] \cap lineage[r] # {} => (q \in lineage[r] \/ r \in lineage[q])

\* No run is continued while one of its calls is still ambiguous.
DecidedBeforeResumed ==
    \A r \in Runs : run[r].status = "resumed" =>
        \A k \in Keys : calls[r][k].state # "dispatched"

\* Recorded outcomes and ended runs do not move; the one exception is a grant, on
\* a run that is interrupted.
RecordsAreFinal ==
    [][/\ \A r \in Runs, k \in Keys :
             calls[r][k].state \notin {"absent", "planned", "dispatched"} =>
                \/ calls'[r][k].state = calls[r][k].state
                \/ calls'[r][k].state = "resolved-retry" /\ run[r].status = "interrupted"
       /\ \A r \in Runs :
             run[r].status \in {"fenced", "completed", "error", "resumed", "abandoned"} =>
                run'[r] = run[r]]_vars

\* A resume claim is not held for ever: the run can again be decided or abandoned,
\* or it has been continued.
ClaimReleased == \A r \in Runs : (r \in claimed) ~> (r \notin claimed)

-----------------------------------------------------------------------------
(* The inductive invariant: why the fence may trust the rows it reads.     *)

\* What the attempt's fields say of the rows they name.
AttemptRows ==
    /\ att.phase = "live" <=> att.run # None
    /\ att.phase = "live" => run[att.run].status = "running"
    /\ att.phase = "idle" => att.src = None /\ att.pred = None
    /\ att.phase = "queued" /\ att.pred # None => run[att.pred].status = "error"
    /\ att.src # None =>
          /\ att.src \in claimed
          /\ run[att.src].status =
                IF att.phase = "queued" /\ att.pred = None THEN "interrupted" ELSE "resumed"
          /\ \A k \in Keys : calls[att.src][k].state # "dispatched"
          /\ att.phase = "live" => lineage[att.src] \subseteq lineage[att.run]
          /\ att.phase = "queued" /\ att.pred # None =>
                lineage[att.src] \subseteq lineage[att.pred]

\* A run that hands over has no ambiguous call and no other continuation.
PredecessorSettled ==
    (att.phase = "queued" /\ att.pred # None) =>
        /\ \A c \in CallIds : calls[att.pred][<<att.pred, c>>].state # "dispatched"
        /\ \A q \in Runs : att.pred \in lineage[q] => q = att.pred

Lineages ==
    /\ \A r \in Runs :
          IF run[r].status = "none" THEN lineage[r] = {} ELSE r \in lineage[r]
    /\ \A r \in Runs : \A q \in lineage[r] : run[q].status # "none"
    /\ \A r \in Runs : \A q \in Ancestors(r) : run[q].status \in {"resumed", "error"}
    /\ \A e \in execs : run[e.run].status # "none"

\* A row comes from an attempt of the run's own chain.
RowOrigins ==
    \A r \in Runs, k \in Keys : calls[r][k].state # "absent" => k[1] \in lineage[r]

ReplayedCompleted ==
    \A r \in Runs, k \in Keys : calls[r][k].replayed => calls[r][k].state = "completed"

\* In a healthy live attempt a dispatched row is a call still running.
AmbiguousInFlight ==
    (att.phase = "live" /\ ~att.fault) =>
        \A c \in CallIds : RowAt(c).state = "dispatched" =>
            \E e \in inflight : e.run = att.run /\ e.call = c

Evidence == {"completed", "failed", "resolved-done", "resolved-retry", "resolved-skip"}

\* A run holds the settled row of every booked execution of its ancestors.
EvidenceCarried ==
    \A r \in Runs, e \in booked : e.run \in Ancestors(r) =>
        LET row == calls[r][<<e.run, e.call>>]
        IN  row.state \in Evidence /\ row.sig = e.sig /\ ~row.replayed

SpentCarried ==
    \A r \in Runs, e \in execs : (e.grant # None /\ e.run \in lineage[r]) =>
        calls[r][e.grant].state = "resolved-retry" /\ calls[r][e.grant].consumed

SkipCarried ==
    \A r \in Runs : \A q \in Ancestors(r), k \in Keys :
        (calls[q][k].state = "resolved-skip" /\ calls[q][k].sig # None) =>
            calls[r][k].state = "resolved-skip" /\ calls[r][k].sig = calls[q][k].sig

\* The in-memory guard still says what the inherited rows say.
GuardCurrent ==
    att.phase = "live" =>
        \A k \in Keys : IF k[1] = att.run THEN guard[k].state = "absent"
                        ELSE guard[k] = GuardOf(calls[att.run])[k]

Safety ==
    /\ NoUnauthorizedRepeat
    /\ GrantSpentOnce
    /\ SkipNeverExpires
    /\ EveryDispatchJournaled
    /\ NoFork
    /\ DecidedBeforeResumed

IInv ==
    /\ TypeOK
    /\ AttemptRows
    /\ PredecessorSettled
    /\ Lineages
    /\ RowOrigins
    /\ ReplayedCompleted
    /\ AmbiguousInFlight
    /\ EvidenceCarried
    /\ SpentCarried
    /\ SkipCarried
    /\ GuardCurrent
    /\ Safety

=============================================================================
