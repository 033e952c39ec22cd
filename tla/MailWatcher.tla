------------------------------ MODULE MailWatcher ------------------------------
(***************************************************************************)
(* The mail watcher and the firing of its matches (mail-watcher.ts,        *)
(* scheduler.ts fireMail).                                                 *)
(* One scan at a time takes a snapshot of the rows with a filter and asks  *)
(* Gmail for each in turn; a step is the code between two awaits, and any  *)
(* command of Programs may come between.                                   *)
(***************************************************************************)
EXTENDS Scheduler

CONSTANT MaxMail    \* bound

Check ==
    [phase : {"head", "poll", "gate"}, p : Ids, snap : Row, asked : Nat, hits : SUBSET Nat,
     upto : Nat \cup {None}]
Landing == [p : Ids, mail : Nat, rev : Nat, life : Nat]

ASSUME MailWatcherAssumption == None \notin Check /\ \A S \in SUBSET Ids : None \notin [S -> Row]

VARIABLES
    scan,      \* the rows still to check as they were snapped, or None
    check,     \* the check in progress, or None
    failing,   \* rows whose outage was told
    landed,    \* history: matches that reached a turn, [p, mail, rev, life]
    from       \* history: where the cursor of the row was last baselined

mail == <<scan, check, failing, landed, from>>

Life == faults    \* a crash or a refused write starts a new one

\* What a check awaits: the mailbox's head, the poll or the injection gate.
Checking(phase, p, snap, asked, hits, upto) ==
    [phase |-> phase, p |-> p, snap |-> snap, asked |-> asked, hits |-> hits, upto |-> upto]

Watched == {p \in Live : rows[p].enabled /\ rows[p].filter # None}

\* A tick while a scan runs joins it.
StartScan ==
    /\ scan = None /\ Watched # {}
    /\ scan' = [p \in Watched |-> rows[p]]
    /\ UNCHANGED <<rows, check, failing, landed, from, faults>>

\* A row without a cursor asks for the head only; one with it polls from there.
NextCheck ==
    /\ scan # None /\ check = None
    /\ \/ DOMAIN scan = {} /\ scan' = None /\ UNCHANGED check
       \/ \E p \in DOMAIN scan :
            /\ \A q \in DOMAIN scan : p <= q
            /\ scan' = [q \in DOMAIN scan \ {p} |-> scan[q]]
            /\ check' = Checking(IF scan[p].cursor = None THEN "head" ELSE "poll",
                                 p, scan[p], Len(mailbox), {}, None)
    /\ UNCHANGED <<rows, failing, landed, from, faults>>

Recovered == failing' = failing \ {check.p}
CheckDone == check' = None /\ UNCHANGED scan

\* baselineMail: one conditional write.
Baseline(p, snap, head) ==
    IF /\ rows[p] # None /\ rows[p].enabled /\ rows[p].rev = snap.rev
       /\ rows[p].filter = snap.filter /\ rows[p].cursor = snap.cursor
    THEN rows' = [rows EXCEPT ![p].cursor = head] /\ from' = [from EXCEPT ![p] = head]
    ELSE UNCHANGED <<rows, from>>

HeadReturns ==
    /\ check # None /\ check.phase = "head"
    /\ \E head \in check.asked .. Len(mailbox) : Baseline(check.p, check.snap, head)
    /\ Recovered /\ CheckDone
    /\ UNCHANGED <<landed, faults>>

\* setMailHistory: a compare-and-swap on the revision.
SetHistory(p, snap, upto) ==
    IF rows[p] # None /\ rows[p].rev = snap.rev
    THEN rows' = [rows EXCEPT ![p].cursor = upto] ELSE UNCHANGED rows

\* The matches after the cursor, up to the head Gmail answers with.
Matches(snap, upto) == {i \in snap.cursor + 1 .. upto : mailbox[i] = snap.filter}

StillMine(p, snap) ==
    rows[p].filter = snap.filter /\ rows[p].rev = snap.rev /\ rows[p].cursor = snap.cursor

\* The poll lost to an edit or to a deletion, which ends the outage too.
PollLost ==
    /\ check # None /\ check.phase = "poll"
    /\ \/ rows[check.p] = None
       \/ rows[check.p] # None /\ ~StillMine(check.p, check.snap)
    /\ Recovered /\ CheckDone
    /\ UNCHANGED <<rows, landed, from, faults>>

\* Nothing matched, or the row was disabled: the checkpoint is used up.  With matches the
\* event goes to the gate; an answer without a checkpoint keeps the cursor.
PollReturns ==
    /\ check # None /\ check.phase = "poll"
    /\ rows[check.p] # None /\ StillMine(check.p, check.snap)
    /\ \/ check' = None /\ UNCHANGED rows
       \/ \E upto \in check.asked .. Len(mailbox) :
            LET p == check.p
                hits == Matches(check.snap, upto)
            IN  IF hits = {} \/ ~rows[p].enabled
                THEN SetHistory(p, rows[p], upto) /\ check' = None
                ELSE /\ check' = Checking("gate", p, rows[p], check.asked, hits, upto)
                     /\ UNCHANGED rows
    /\ IF check' = None THEN Recovered ELSE UNCHANGED failing
    /\ UNCHANGED <<scan, landed, from, faults>>

\* Google forgot the cursor: baseline as for a new filter.
HistoryExpired ==
    /\ check # None /\ check.phase = "poll" /\ check.snap.cursor < Len(mailbox)
    /\ check' = [check EXCEPT !.phase = "head", !.asked = Len(mailbox)]
    /\ UNCHANGED <<rows, scan, failing, landed, from, faults>>

\* A Gmail call fails.  The first failure of an outage is told; a notice that fails
\* leaves it untold.
GmailFails ==
    /\ check # None /\ check.phase \in {"head", "poll"}
    /\ failing' \in {failing \cup {check.p}, failing}
    /\ CheckDone
    /\ UNCHANGED <<rows, landed, from, faults>>

\* The row as it is after the gate withdraws the fire.
Revoked(p) == ~(p \in Live /\ rows[p].enabled)

Lands == landed' = landed \cup {[p |-> check.p, mail |-> i, rev |-> check.snap.rev, life |-> Life] :
                                   i \in check.hits}

\* After the gate: a deleted row fires nothing, a disabled one lets the mail pass; the
\* fire lands, and its checkpoint follows under the revision of the snapshot, or it does
\* not, and the cursor stays.
GateReturns ==
    /\ check # None /\ check.phase = "gate"
    /\ \/ Revoked(check.p) /\ SetHistory(check.p, check.snap, check.upto) /\ UNCHANGED landed
       \/ ~Revoked(check.p) /\ Lands /\ SetHistory(check.p, check.snap, check.upto)
       \/ ~Revoked(check.p) /\ UNCHANGED <<rows, landed>>
    /\ Recovered /\ CheckDone
    /\ UNCHANGED <<from, faults>>

\* The fire landed and the store refused its checkpoint: the matches come again.
CheckpointRefused ==
    /\ check # None /\ check.phase = "gate" /\ ~Revoked(check.p)
    /\ Lands /\ Fault
    /\ failing' \in {failing \cup {check.p}, failing}
    /\ CheckDone
    /\ UNCHANGED <<rows, from>>

-----------------------------------------------------------------------------
WatcherInit ==
    /\ scan = None /\ check = None /\ failing = {}
    /\ landed = {} /\ from = [p \in Ids |-> 0]

WatcherNext ==
    \/ StartScan \/ NextCheck \/ HeadReturns \/ PollLost \/ PollReturns \/ HistoryExpired
    \/ GmailFails \/ GateReturns \/ CheckpointRefused

-----------------------------------------------------------------------------
(* What is claimed.                                                        *)

\* A match the cursor has passed reached a turn under the row's present revision: the mail
\* that arrived after the filter's baseline is fired or still ahead, whatever failed,
\* crashed or was edited meanwhile (fireMail: the checkpoint follows the fire).
MailNotLost ==
    \A p \in Live :
        (rows[p].enabled /\ rows[p].filter # None /\ rows[p].cursor # None) =>
            \A i \in from[p] + 1 .. rows[p].cursor :
                mailbox[i] = rows[p].filter =>
                    \E l \in landed : l.p = p /\ l.mail = i /\ l.rev = rows[p].rev

\* Nothing that was in the mailbox when the filter was set, or the row enabled again, is
\* fired as an arrival (programs.ts, update; setMailHistory's revision check).
NoBacklogFired == \A l \in landed : l.mail > base[l.p][l.rev + 1]

\* What waits at the gate was not fired before in this process, unless the store refused
\* its checkpoint: edits and re-baselines around a fire do not bring it back.
FiredOnce ==
    (check # None /\ check.phase = "gate") =>
        ~\E l \in landed : l.p = check.p /\ l.mail \in check.hits /\ l.life = Life

\* A fire lands only for a row that is live and enabled as it lands: an await between the
\* snapshot and the submit does not outlive a withdrawal (fireMail, admitted).
WithdrawnNeverFires ==
    [][\A l \in landed' \ landed : l.p \in Live /\ rows[l.p].enabled]_landed

=============================================================================
