----------------------------- MODULE ProgramFiring -----------------------------
(***************************************************************************)
(* The program rows with everything that reads and writes them in the one  *)
(* process: the commands and proposals of Programs, the Scheduler and the  *)
(* MailWatcher, under a clock that advances, mail that arrives and a       *)
(* process that crashes and starts again over the same database.           *)
(***************************************************************************)
EXTENDS MailWatcher

vars == <<now, mailbox, faults, store, sched, mail>>

Tick ==
    /\ now < MaxNow /\ now' = now + 1
    /\ UNCHANGED <<mailbox, faults, store, sched, mail>>

Arrive ==
    /\ Len(mailbox) < MaxMail
    /\ \E f \in Filters : mailbox' = Append(mailbox, f)
    /\ UNCHANGED <<now, faults, store, sched, mail>>

\* The crash may come between a submit and what accounts for it: a development that was
\* recorded is durable, the turn and the mail's landing are not undone.
Crash ==
    /\ Fault /\ Forget
    /\ scan' = None /\ check' = None /\ failing' = {}
    /\ \/ UNCHANGED landed
       \/ check # None /\ check.phase = "gate" /\ ~Revoked(check.p) /\ Lands
    /\ UNCHANGED <<now, mailbox, store, from>>

Init == ProgramsInit /\ SchedulerInit /\ WatcherInit

Next ==
    \/ ProgramsNext /\ UNCHANGED <<now, mailbox, faults, sched, mail>>
    \/ SchedulerNext /\ UNCHANGED <<now, mailbox, proposals, minted, edits, since, base, mail>>
    \/ WatcherNext /\ UNCHANGED <<now, mailbox, proposals, minted, edits, since, base, sched>>
    \/ Tick \/ Arrive \/ Crash

Spec == Init /\ [][Next]_vars

-----------------------------------------------------------------------------
\* A proposal, and the settings its card showed.
Shown ==
    [charter : Charters, cron : Crons \cup {None}, grace : Nat \cup {None}, hook : Nat \cup {None},
     filter : Filters \cup {None}, dest : {"app", "telegram", "resp"}, enabled : BOOLEAN]
Proposal ==
    [target : Ids \cup {None}, change : Drafts \cup Patches, on : Shown \cup {None},
     state : {"pending", "approved", "rejected", "superseded"}]

TypeOK ==
    /\ {now, minted, faults} \subseteq Nat /\ mailbox \in Seq(Filters)
    /\ rows \in [Ids -> Row \cup {None}] /\ since \in [Ids -> Nat] /\ base \in [Ids -> Seq(Nat)]
    /\ \A p \in Live : HasTrigger(rows[p]) /\ (rows[p].cron = None <=> rows[p].nextRun = None)
    /\ \A p \in Live : Len(base[p]) = rows[p].rev + 1
    /\ proposals \in Seq(Proposal)
    /\ \A i \in DOMAIN proposals :
        proposals[i].change \in IF proposals[i].target = None THEN Drafts ELSE Patches
    /\ fence \in [Ids -> Fence \cup {None}] /\ \A p \in Ids : fence[p] # None => fence[p].occ <= fence[p].at
    /\ turns \cup timers \subseteq Turn /\ \A t \in turns \cup timers : t.attempt <= Retries
    /\ handled \cup spent \subseteq Firing
    /\ scan # None => DOMAIN scan \subseteq Ids /\ \A p \in DOMAIN scan : scan[p] \in Row
    /\ check \in Check \cup {None} /\ landed \subseteq Landing /\ from \in [Ids -> Nat]
    /\ failing \subseteq Ids /\ attached \in BOOLEAN /\ active \in BOOLEAN

-----------------------------------------------------------------------------
(* The claims of the parts, as the run checks them.                        *)

\* Rows and proposals are well formed, and one grant at most waits for a program
\* (programs.ts, requireTrigger; program-proposals.ts, qSupersede).
StoreSound == TypeOK /\ OnePending

\* The cursor is where the fires are and no occurrence is paid for twice: the attempt-once
\* policy of fireScheduled over refused writes, retries, edits and crashes.  Of the mail,
\* what arrives after the baseline is fired, what was there before is not, and nothing
\* comes twice but after a refused write or a crash (mail-watcher.ts, fireMail).
FiresOnce == CursorFollowsFires /\ PaidOnce /\ MailNotLost /\ NoBacklogFired /\ FiredOnce

\* A program holds only what an operator approved, as it was shown (program-ops.ts and
\* program-proposals.ts, approve).
AuthorityIsGranted == GrantIsWhatWasShown /\ AuthorityNeedsApproval

\* An edit, a disable or a deletion wins over what was under way: old occurrences are not
\* owed, and mail of a withdrawn row fires nothing (programs.ts, update; fireMail).
WithdrawalWins == SkippedNotOwed /\ WithdrawnNeverFires

=============================================================================
