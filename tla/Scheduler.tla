------------------------------- MODULE Scheduler -------------------------------
(***************************************************************************)
(* The program scheduler (scheduler.ts, fireScheduled and its retry        *)
(* ladder): the scan fires the due rows of Programs, advances their        *)
(* cursors, fences a cursor the store refused, and re-fires an attempt     *)
(* that died before the model was called.  The cursors are durable; the    *)
(* fences, the ladder and the turns in flight die with the process.        *)
(*                                                                         *)
(* The rows of one scan do not read each other: a step fires one of them.  *)
(***************************************************************************)
EXTENDS Programs

CONSTANTS MaxNow, Retries, MaxFaults    \* bounds; Retries is RETRY_DELAYS_MS.length

Fence == [occ : Nat, at : Nat]
Turn == [p : Ids, occ : Nat, attempt : Nat]
Firing == [p : Ids, occ : Nat]

ASSUME SchedulerAssumption == Retries \in Nat /\ None \notin Fence

VARIABLES
    fence,      \* pendingCursorWrites: a row's occurrence and when it fired, or None
    turns,      \* attempts in flight, [p, occ, attempt]
    timers,     \* rungs of the ladder that wait, [p, occ, attempt]
    attached,   \* the Telegram channel delivers
    active,     \* the responsibility of the "resp" rows is active
    faults,     \* refused writes and crashes so far, bounded by MaxFaults
    handled,    \* history: occurrences the scan fired or passed over, [p, occ]
    spent       \* history: occurrences whose turn reached a model in this process

sched == <<fence, turns, timers, attached, active, handled, spent>>

Fault == faults < MaxFaults /\ faults' = faults + 1

-----------------------------------------------------------------------------
(* The scan.                                                               *)

Due(p) == p \in Live /\ rows[p].enabled /\ rows[p].cron # None /\ rows[p].nextRun <= now

\* A fence goes moot when its row moves past it.
Moot(p) == fence[p] # None /\ ~(p \in Live /\ rows[p].enabled /\ rows[p].nextRun = fence[p].occ)
Kept == [p \in Ids |-> IF Moot(p) THEN None ELSE fence[p]]

Held(p) == rows[p].dest = "telegram" /\ ~attached
Occurrence(p) == LatestFire(rows[p].cron, now)
TooLate(p) == rows[p].grace # None /\ now - Occurrence(p) > rows[p].grace

Advanced(p, from) == [rows EXCEPT ![p].nextRun = NextFire(rows[p].cron, from)]

\* markRan and advancePastDue read the row's cron afresh.
MarkRan(p, from) == rows' = Advanced(p, from)

Passed(p) == handled' = handled \cup {[p |-> p, occ |-> Occurrence(p)]}

\* No row of this scan fires: the store is empty of due ones, or a due one is held.
ScanIdle ==
    /\ Kept # fence
    /\ \A p \in Ids : Due(p) => Held(p)
    /\ fence' = Kept
    /\ UNCHANGED <<rows, turns, timers, attached, active, handled, spent, faults>>

\* The submit landed and its cursor write did not: only the write is retried, with the
\* time of the fire.
RetryMark(p) ==
    /\ Due(p) /\ ~Held(p) /\ Kept[p] # None
    /\ \/ MarkRan(p, fence[p].at) /\ fence' = [Kept EXCEPT ![p] = None] /\ UNCHANGED faults
       \/ Fault /\ UNCHANGED rows /\ fence' = Kept
    /\ UNCHANGED <<turns, timers, attached, active, handled, spent>>

\* Beyond its grace an occurrence is passed over.
SkipLate(p) ==
    /\ Due(p) /\ ~Held(p) /\ Kept[p] = None /\ TooLate(p)
    /\ MarkRan(p, now) /\ Passed(p)
    /\ fence' = Kept
    /\ UNCHANGED <<turns, timers, attached, active, faults, spent>>

Attempt(p, n) == [p |-> p, occ |-> Occurrence(p), attempt |-> n]

\* Mutant: a refused cursor write leaves nothing behind.
NoFence(p) == fence' = Kept

\* The refused write of a cursor fences the occurrence.
FenceOff(p) == fence' = [Kept EXCEPT ![p] = [occ |-> rows[p].nextRun, at |-> now]]

\* A conversation gets a turn, or the submit is refused; either way the occurrence is
\* used up, and its cursor advances or is fenced.
FireConversation(p) ==
    /\ Due(p) /\ ~Held(p) /\ Kept[p] = None /\ ~TooLate(p)
    /\ rows[p].dest # "resp"
    /\ turns' \in {turns \cup {Attempt(p, 0)}, turns}
    /\ Passed(p)
    /\ \/ MarkRan(p, now) /\ fence' = Kept /\ UNCHANGED faults
       \/ Fault /\ UNCHANGED rows /\ FenceOff(p)
    /\ UNCHANGED <<timers, attached, active, spent>>

\* A responsibility gets a durable development under the occurrence's key; one that is
\* not active lets it pass.  An enqueue that throws leaves the row due.
FireResponsibility(p) ==
    /\ Due(p) /\ Kept[p] = None /\ ~TooLate(p) /\ rows[p].dest = "resp"
    /\ \/ Passed(p) /\ \/ MarkRan(p, now) /\ fence' = Kept /\ UNCHANGED faults
                       \/ Fault /\ UNCHANGED rows /\ FenceOff(p)
       \/ active /\ Fault /\ UNCHANGED <<rows, handled>> /\ fence' = Kept
    /\ UNCHANGED <<turns, timers, attached, active, spent>>

-----------------------------------------------------------------------------
(* The ladder.                                                             *)

Spends(t) ==
    /\ spent' = spent \cup {[p |-> t.p, occ |-> t.occ]}
    /\ UNCHANGED timers

\* A turn ends.  Only a transient failure before any model call or output arms the next
\* rung; one that ended for good arms none, whatever it spent.
TurnDone(t) ==
    /\ turns' = turns \ {t}
    /\ \/ Spends(t)
       \/ UNCHANGED <<spent, timers>>
       \/ /\ t.attempt < Retries
          /\ timers' = timers \cup {[t EXCEPT !.attempt = @ + 1]}
          /\ UNCHANGED spent
    /\ UNCHANGED <<rows, fence, attached, active, handled, faults>>

\* The rung reads the row again; a deleted or disabled one drops the retry.
Refire(t) ==
    /\ timers' = timers \ {t}
    /\ \/ turns' = turns
       \/ /\ t.p \in Live /\ rows[t.p].enabled
          /\ turns' = turns \cup {t}
    /\ UNCHANGED <<rows, fence, attached, active, handled, spent, faults>>

-----------------------------------------------------------------------------
(* The surroundings.                                                       *)

Attach ==
    /\ ~attached /\ attached' = TRUE
    /\ UNCHANGED <<rows, fence, turns, timers, active, handled, spent, faults>>

\* The responsibility is paused or resumed by its operator.
PauseOrResume ==
    /\ \E p \in Live : rows[p].dest = "resp"
    /\ active' = ~active
    /\ UNCHANGED <<rows, fence, turns, timers, attached, handled, spent, faults>>

Forget ==
    /\ fence' = [p \in Ids |-> None] /\ turns' = {} /\ timers' = {}
    /\ attached' = FALSE /\ spent' = {}
    /\ UNCHANGED <<active, handled>>

SchedulerInit ==
    /\ fence = [p \in Ids |-> None] /\ turns = {} /\ timers = {}
    /\ attached = FALSE /\ active = TRUE /\ faults = 0
    /\ handled = {} /\ spent = {}

SchedulerNext ==
    \/ ScanIdle \/ Attach \/ PauseOrResume
    \/ \E p \in Ids : RetryMark(p) \/ SkipLate(p) \/ FireConversation(p) \/ FireResponsibility(p)
    \/ \E t \in turns : TurnDone(t)
    \/ \E t \in timers : Refire(t)

-----------------------------------------------------------------------------
(* What is claimed.                                                        *)

\* The cursor of a row follows what was fired: the occurrence before it was fired or
\* passed over since the schedule began, and no occurrence still to come is behind it.
\* A refused write, a fence, an edit, a re-enable and a restart keep it so, and an
\* enqueue that throws leaves its occurrence ahead (scheduler.ts, fireScheduled).
CursorFollowsFires ==
    \A p \in Live :
        (rows[p].enabled /\ rows[p].cron # None) =>
            LET last == rows[p].nextRun - rows[p].cron
            IN  /\ rows[p].nextRun <= NextFire(rows[p].cron, now)
                /\ last > since[p] => [p |-> p, occ |-> last] \in handled

\* What was skipped while a row was disabled, or under another schedule, is skipped, not
\* owed: the scan never fires an occurrence from before the row's schedule last began,
\* even with a fence of the old schedule in memory (programs.ts, update).
SkippedNotOwed ==
    [][\A h \in handled' \ handled : h.occ > since[h.p]]_<<handled, since>>

\* One attempt of an occurrence at a time, and none once one reached a model: neither the
\* ladder nor a refused cursor write pays for an occurrence twice in a process
\* (scheduler.ts, considerRetry and pendingCursorWrites).
PaidOnce ==
    \A t \in turns \cup timers :
        /\ [p |-> t.p, occ |-> t.occ] \notin spent
        /\ \A u \in turns \cup timers : (u.p = t.p /\ u.occ = t.occ) => u = t

=============================================================================
