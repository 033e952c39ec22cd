------------------------------- MODULE Programs -------------------------------
(***************************************************************************)
(* Programs, and the proposals that grant them authority: the rows of      *)
(* programs.ts, the staged grants of program-proposals.ts, and the         *)
(* commands of program-ops.ts, program-approval.ts and the program tool.   *)
(*                                                                         *)
(* Every command is one SQLite transaction or runs between two awaits, so  *)
(* each is one step.  A cron of period c fires at the multiples of c; the  *)
(* mailbox is the sequence of the filters its messages match, and a        *)
(* history id is a length of it.  A name and a lateness are edited alike:  *)
(* grace stands for both.  Scheduler and MailWatcher extend this module.   *)
(***************************************************************************)
EXTENDS Integers, Sequences

CONSTANTS
    None,
    Charters, Filters, Crons,
    Seeds,       \* sets of rows the process may start with
    Drafts,      \* the candidates a create may propose
    Patches,     \* the edits that may be asked for
    MaxRows, MaxProposals, MaxEdits    \* bounds

\* The part of a row that is asked for, and the row.
Draft ==
    [charter : Charters, cron : Crons \cup {None}, grace : Nat \cup {None},
     hook : Nat \cup {None}, filter : Filters \cup {None}, dest : {"app", "telegram", "resp"}]
Row ==
    [charter : Charters, cron : Crons \cup {None}, grace : Nat \cup {None},
     hook : Nat \cup {None}, filter : Filters \cup {None}, dest : {"app", "telegram", "resp"},
     enabled : BOOLEAN, cursor : Nat \cup {None}, rev : Nat, nextRun : Nat \cup {None}]

HasTrigger(r) == r.cron # None \/ r.hook # None \/ r.filter # None

IsPatch(patch) ==
    /\ DOMAIN patch \subseteq {"charter", "cron", "grace", "hook", "filter"}
    /\ "charter" \in DOMAIN patch => patch.charter \in Charters
    /\ "cron" \in DOMAIN patch => patch.cron \in Crons \cup {None}
    /\ "grace" \in DOMAIN patch => patch.grace \in Nat \cup {None}
    /\ "hook" \in DOMAIN patch => patch.hook \in Nat \cup {None}
    /\ "filter" \in DOMAIN patch => patch.filter \in Filters \cup {None}

\* A cron has a period; what may be asked for is well formed and would fire; None is none
\* of what it stands beside.
ASSUME ProgramsAssumption ==
    /\ MaxRows \in Nat /\ Crons \subseteq Nat \ {0} /\ None \notin Nat /\ None \notin Row
    /\ \A draft \in Seeds \cup Drafts : draft \in Draft /\ HasTrigger(draft)
    /\ \A patch \in Patches : IsPatch(patch)

VARIABLES
    now,         \* the clock
    rows,        \* programs: a row, or None for an id unused or deleted
    proposals,   \* program_proposals, oldest first
    minted,      \* hook credentials minted so far
    edits,       \* commands so far, bounded by MaxEdits
    mailbox,     \* the filter each message matches, oldest first
    since,       \* history: when the row's schedule last began
    base         \* history: per mail revision of the row, the mailbox length at its start

store == <<rows, proposals, minted, edits, since, base>>

Ids == 1 .. MaxRows
Live == {p \in Ids : rows[p] # None}

-----------------------------------------------------------------------------
(* Rows.                                                                   *)

NextFire(c, t) == c * (t \div c + 1)
LatestFire(c, t) == c * (t \div c)

\* The configuration an approval binds to: no cursor, no revision.
Settings == {"charter", "cron", "grace", "hook", "filter", "enabled", "dest"}
Fingerprint(r) == [f \in Settings |-> r[f]]

\* The row with the fields of the patch for its own.
Edited(r, patch) == [f \in DOMAIN r |-> IF f \in DOMAIN patch THEN patch[f] ELSE r[f]]

\* A lateness asked for needs a cron; one already stored goes inert with it.
ValidPatch(r, patch) ==
    /\ HasTrigger(Edited(r, patch))
    /\ ("grace" \in DOMAIN patch /\ patch.grace # None) => Edited(r, patch).cron # None

Created(draft) ==
    [charter |-> draft.charter, cron |-> draft.cron, grace |-> draft.grace, hook |-> draft.hook,
     filter |-> draft.filter, dest |-> draft.dest, enabled |-> TRUE, cursor |-> None, rev |-> 0,
     nextRun |-> IF draft.cron = None THEN None ELSE NextFire(draft.cron, now)]

Reenables(r, patch) == Edited(r, patch).enabled /\ ~r.enabled
Reschedules(r, patch) == "cron" \in DOMAIN patch \/ Reenables(r, patch)
Rebaselines(r, patch) == Edited(r, patch).filter # r.filter \/ Reenables(r, patch)

\* Mutant: a re-enabled row keeps the occurrence it slept through.
PatchedOwing(r, patch) ==
    LET new == Edited(r, patch)
    IN  [new EXCEPT !.nextRun = IF "cron" \notin DOMAIN patch THEN @
                                ELSE IF new.cron = None THEN None ELSE NextFire(new.cron, now),
                    !.cursor = IF Rebaselines(r, patch) THEN None ELSE @,
                    !.rev = IF Rebaselines(r, patch) THEN @ + 1 ELSE @]

\* What an edit makes of a row: a moved schedule starts over from now, and a
\* changed filter or a re-enabled row forgets its mail cursor.
Patched(r, patch) ==
    LET new == Edited(r, patch)
    IN  [new EXCEPT !.nextRun = IF ~Reschedules(r, patch) THEN @
                                ELSE IF new.cron = None THEN None ELSE NextFire(new.cron, now),
                    !.cursor = IF Rebaselines(r, patch) THEN None ELSE @,
                    !.rev = IF Rebaselines(r, patch) THEN @ + 1 ELSE @]

\* update: the row and its histories.
Update(p, patch) ==
    LET r == rows[p]
    IN  /\ ValidPatch(r, patch)
        /\ rows' = [rows EXCEPT ![p] = Patched(r, patch)]
        /\ since' = IF Reschedules(r, patch) THEN [since EXCEPT ![p] = now] ELSE since
        /\ base' = IF Rebaselines(r, patch)
                   THEN [base EXCEPT ![p] = Append(@, Len(mailbox))] ELSE base

\* create: AUTOINCREMENT never gives an id twice, so the ids are used in order.
Unused == {p \in Ids : base[p] = <<>>}
Insert(draft) ==
    \E p \in Unused :
        /\ \A q \in Unused : p <= q
        /\ rows' = [rows EXCEPT ![p] = Created(draft)]
        /\ since' = [since EXCEPT ![p] = now]
        /\ base' = [base EXCEPT ![p] = <<Len(mailbox)>>]

Command == edits < MaxEdits /\ edits' = edits + 1

-----------------------------------------------------------------------------
(* Commands: what is within the authority a row has applies at once; what  *)
(* widens it is staged.                                                    *)

\* A new charter text, a new or changed filter, a cron where there was none, a hook.
RequiresApproval(r, patch) ==
    \/ "charter" \in DOMAIN patch /\ patch.charter # r.charter
    \/ "filter" \in DOMAIN patch /\ patch.filter # None /\ patch.filter # r.filter
    \/ "cron" \in DOMAIN patch /\ patch.cron # None /\ r.cron = None
    \/ "hook" \in DOMAIN patch

EditDirectly(p, patch) ==
    /\ Command /\ p \in Live
    /\ ~RequiresApproval(rows[p], patch)
    /\ Update(p, patch)
    /\ UNCHANGED <<proposals, minted>>

Toggle(p) ==
    /\ Command /\ p \in Live
    /\ Update(p, [enabled |-> ~rows[p].enabled])
    /\ UNCHANGED <<proposals, minted>>

Remove(p) ==
    /\ Command /\ p \in Live
    /\ rows' = [rows EXCEPT ![p] = None]
    /\ UNCHANGED <<proposals, minted, since, base>>

RotateHook(p) ==
    /\ Command /\ p \in Live /\ rows[p].hook # None
    /\ minted' = minted + 1
    /\ rows' = [rows EXCEPT ![p].hook = minted']
    /\ UNCHANGED <<proposals, since, base>>

DisableHook(p) ==
    /\ Command /\ p \in Live /\ HasTrigger([rows[p] EXCEPT !.hook = None])
    /\ rows' = [rows EXCEPT ![p].hook = None]
    /\ UNCHANGED <<proposals, minted, since, base>>

\* A project turn binds a row to its responsibility without a proposal.
CreateForResponsibility(draft) ==
    /\ Command /\ draft.hook = None
    /\ Insert([draft EXCEPT !.dest = "resp"])
    /\ UNCHANGED <<proposals, minted>>

-----------------------------------------------------------------------------
(* Proposals.                                                              *)

Propose(prop) == Len(proposals) < MaxProposals /\ proposals' = Append(proposals, prop)

ProposeCreate(draft) ==
    /\ Command
    /\ Propose([target |-> None, change |-> draft, on |-> None, state |-> "pending"])
    /\ UNCHANGED <<rows, minted, since, base>>

\* Mutant: an older pending proposal for the row stays open.
SupersededKept(p) == proposals

\* Every older pending proposal for the row gives way.
Superseded(p) ==
    [i \in DOMAIN proposals |->
        IF proposals[i].target = p /\ proposals[i].state = "pending"
        THEN [proposals[i] EXCEPT !.state = "superseded"] ELSE proposals[i]]

ProposeUpdate(p, patch) ==
    /\ Command /\ p \in Live
    /\ RequiresApproval(rows[p], patch)
    /\ "hook" \in DOMAIN patch => rows[p].hook = None
    /\ ValidPatch(rows[p], patch)
    /\ Len(proposals) < MaxProposals
    /\ proposals' = Append(Superseded(p), [target |-> p, change |-> patch,
                               on |-> Fingerprint(rows[p]), state |-> "pending"])
    /\ UNCHANGED <<rows, minted, since, base>>

\* The credential is minted at the grant, so a change asks for a hook by a flag.
Granted(change) ==
    IF "hook" \in DOMAIN change /\ change.hook # None
    THEN [change EXCEPT !.hook = minted + 1] ELSE change

Decide(i, state) == proposals' = [proposals EXCEPT ![i].state = state]
Mint(change) == minted' = IF Granted(change) = change THEN minted ELSE minted + 1

\* Mutant: an approval applies to whatever the row has become.
StaleNever(prop) == FALSE

\* The row is no longer the one the card showed.
Stale(prop) == Fingerprint(rows[prop.target]) # prop.on

\* Activation and decision are one transaction; every refusal writes nothing.
Approve(i) ==
    LET prop == proposals[i]
    IN  /\ prop.state = "pending"
        /\ \/ /\ prop.target = None
              /\ Insert(Granted(prop.change))
           \/ /\ prop.target # None /\ rows[prop.target] # None /\ ~Stale(prop)
              /\ Update(prop.target, Granted(prop.change))
        /\ Decide(i, "approved") /\ Mint(prop.change)
        /\ UNCHANGED edits

Reject(i) ==
    /\ proposals[i].state = "pending"
    /\ Decide(i, "rejected")
    /\ UNCHANGED <<rows, minted, edits, since, base>>

-----------------------------------------------------------------------------
ProgramsInit ==
    /\ now = 1 /\ mailbox = <<>>
    /\ \E seed \in Seeds \cup {None} :
        /\ rows = [p \in Ids |-> IF p = 1 /\ seed # None THEN Created(seed) ELSE None]
        /\ since = [p \in Ids |-> now]
        /\ base = [p \in Ids |-> IF p = 1 /\ seed # None THEN <<0>> ELSE <<>>]
    /\ proposals = <<>> /\ minted = 1 /\ edits = 0

ProgramsNext ==
    \/ \E p \in Ids : Toggle(p) \/ Remove(p) \/ RotateHook(p) \/ DisableHook(p)
    \/ \E p \in Ids, patch \in Patches : EditDirectly(p, patch) \/ ProposeUpdate(p, patch)
    \/ \E draft \in Drafts : CreateForResponsibility(draft) \/ ProposeCreate(draft)
    \/ \E i \in DOMAIN proposals : Approve(i) \/ Reject(i)

-----------------------------------------------------------------------------
(* What is claimed.                                                        *)

\* At most one grant waits for each program: what the operator taps last is the latest
\* that was asked for (program-proposals.ts, proposeUpdate's supersede).
OnePending ==
    \A i, j \in DOMAIN proposals :
        /\ proposals[i].state = "pending" /\ proposals[j].state = "pending"
        /\ proposals[i].target = proposals[j].target /\ proposals[i].target # None
        => i = j

\* A proposal that this step approves.
Approves(i) == proposals[i].state = "pending" /\ proposals'[i].state = "approved"

\* A program turned by an approval is, setting by setting, the one its card showed:
\* the base it was staged on with the requested fields over it, however many edits,
\* rotations and other decisions came in between (the stale check of approve).
GrantIsWhatWasShown ==
    [][\A i \in DOMAIN proposals :
        (Approves(i) /\ proposals[i].target # None) =>
            Fingerprint(rows'[proposals[i].target])
                = Fingerprint(Edited(proposals[i].on, Granted(proposals[i].change)))]_store

\* What the new row may do that the old one might not.
Widens(old, new) ==
    \/ new.charter # old.charter
    \/ new.filter # None /\ new.filter # old.filter
    \/ new.cron # None /\ old.cron = None
    \/ new.hook # None /\ old.hook = None

\* No command gives a program a charter, a filter, a schedule or a hook it did not have:
\* only a step that approves a proposal for it does, and a row of its own is inserted
\* only so, or for a responsibility (program-ops.ts: the grant boundary).
AuthorityNeedsApproval ==
    [][\A p \in Ids :
        \/ rows'[p] = None
        \/ rows[p] = None /\ \/ rows'[p].dest = "resp"
                             \/ \E i \in DOMAIN proposals : Approves(i) /\ proposals[i].target = None
        \/ rows[p] # None /\ Widens(rows[p], rows'[p])
            /\ \E i \in DOMAIN proposals : Approves(i) /\ proposals[i].target = p
        \/ rows[p] # None /\ ~Widens(rows[p], rows'[p])]_store

=============================================================================
