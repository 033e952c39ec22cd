-------------------------- MODULE ProgramFiringProofs --------------------------
(***************************************************************************)
(* The programs with their proposals, the scheduler and the mail watcher,  *)
(* for every set of rows, patches and bounds: a program holds what was     *)
(* granted as it was shown, an occurrence and a mail are fired once, and a *)
(* withdrawal wins over what is under way.                                 *)
(* Two arguments carry it.  Of the clock: the cursor of a row is the first *)
(* occurrence not yet fired, or a fence tells when it was.  Of the mail: a *)
(* snapshot of a row and the row agree on filter and cursor as long as     *)
(* they agree on the revision, and a row revised since has no cursor.      *)
(***************************************************************************)
EXTENDS ProgramFiring, SequenceTheorems, TLAPS

-----------------------------------------------------------------------------
(* The inductive invariant. *)

Clocked(p) == rows[p] # None /\ rows[p].cron # None

\* The cursor of a row is an occurrence of its schedule, past the time the schedule began,
\* and what is before it was fired or passed over.
CursorAt(p) == Clocked(p) =>
    LET last == rows[p].nextRun - rows[p].cron
    IN  /\ \E x \in 0..now : rows[p].nextRun = NextFire(rows[p].cron, x)
        /\ rows[p].nextRun > since[p]
        /\ last > since[p] => [p |-> p, occ |-> last] \in handled

\* A fence that is not moot tells when its occurrence was fired.
Fenced(p) == fence[p] # None /\ rows[p].nextRun = fence[p].occ
FenceAt(p) ==
    /\ since[p] <= now
    /\ fence[p] # None => fence[p].at <= now
    /\ Clocked(p) /\ Fenced(p) => [p |-> p, occ |-> LatestFire(rows[p].cron, fence[p].at)] \in handled

\* What was attempted is behind the cursor, or behind the fence.
Behind(p, occ) ==
    /\ occ <= now
    /\ Clocked(p) /\ rows[p].enabled =>
        occ < rows[p].nextRun \/ (Fenced(p) /\ occ <= fence[p].at)
AttemptsSound ==
    /\ turns \cap timers = {}
    /\ \A t \in turns \cup timers : Behind(t.p, t.occ)
    /\ \A s \in spent : Behind(s.p, s.occ)

ClockInv == (\A p \in Ids : CursorAt(p) /\ FenceAt(p)) /\ AttemptsSound /\ PaidOnce

\* The mailbox was not longer when a revision of a row began, nor when its cursor was set.
MarkAt(p) ==
    /\ \A k \in DOMAIN base[p] : base[p][k] <= Len(mailbox)
    /\ rows[p] # None /\ rows[p].cursor # None =>
        rows[p].cursor <= Len(mailbox) /\ base[p][rows[p].rev + 1] <= rows[p].cursor

\* A snapshot and its row agree while their revisions do; a row revised since has no cursor.
SnapSound(p, snap) ==
    /\ snap.rev + 1 <= Len(base[p])
    /\ snap.cursor # None => snap.cursor <= Len(mailbox) /\ base[p][snap.rev + 1] <= snap.cursor
    /\ rows[p] # None =>
        /\ snap.rev <= rows[p].rev
        /\ rows[p].rev = snap.rev => rows[p].filter = snap.filter /\ rows[p].cursor = snap.cursor
        /\ rows[p].rev # snap.rev => rows[p].cursor = None

ScanSound == scan # None => \A p \in DOMAIN scan : SnapSound(p, scan[p])

\* What a check has asked for, and what waits at the gate.
CheckSound ==
    check # None =>
        /\ SnapSound(check.p, check.snap) /\ scan # None /\ check.p \notin DOMAIN scan
        /\ check.asked <= Len(mailbox) /\ base[check.p][check.snap.rev + 1] <= check.asked
        /\ \A l \in landed : l.p = check.p /\ l.life = Life => l.mail <= check.asked
        /\ check.phase \in {"poll", "gate"} => check.snap.cursor # None /\ check.snap.cursor <= check.asked
        /\ check.phase = "gate" =>
            /\ check.upto # None /\ check.asked <= check.upto /\ check.upto <= Len(mailbox)
            /\ check.hits = Matches(check.snap, check.upto)
            /\ \A l \in landed : l.p = check.p /\ l.life = Life => l.mail <= check.snap.cursor

\* A match that landed was an arrival of its revision, and the cursor of this life is past it.
LandedAt(l) ==
    /\ l.mail <= Len(mailbox) /\ l.life <= Life
    /\ l.rev + 1 <= Len(base[l.p]) /\ base[l.p][l.rev + 1] < l.mail
    /\ (l.life = Life /\ rows[l.p] # None /\ rows[l.p].cursor # None) => l.mail <= rows[l.p].cursor
LandedSound == \A l \in landed : LandedAt(l)

MailInv == (\A p \in Ids : MarkAt(p)) /\ ScanSound /\ CheckSound /\ LandedSound /\ MailNotLost

IInv == TypeOK /\ OnePending /\ ClockInv /\ MailInv

-----------------------------------------------------------------------------
(* Occurrences. *)

\* The occurrences of a period: one at or before a time, one after it.
LEMMA Period ==
  ASSUME NEW c \in Nat \ {0}, NEW t \in Nat
  PROVE  /\ LatestFire(c, t) \in Nat /\ NextFire(c, t) \in Nat
         /\ LatestFire(c, t) <= t /\ t < NextFire(c, t) /\ NextFire(c, t) - c = LatestFire(c, t)
<1>1. t \div c \in Nat
  OBVIOUS
<1>2. c * (t \div c) <= t /\ t < c * (t \div c) + c
  OBVIOUS
<1> QED BY <1>1, <1>2 DEF LatestFire, NextFire

LEMMA Products ==
  ASSUME NEW c \in Nat \ {0}, NEW a \in Nat, NEW b \in Nat
  PROVE  /\ a <= b => c * a <= c * b
         /\ c * a < c * (b + 1) => a <= b
  OBVIOUS

LEMMA PeriodOrder ==
  ASSUME NEW c \in Nat \ {0}, NEW t \in Nat, NEW u \in Nat
  PROVE  /\ t <= u => NextFire(c, t) <= NextFire(c, u)
         /\ NextFire(c, t) <= u => NextFire(c, t) <= LatestFire(c, u)
<1> DEFINE a == t \div c
           b == u \div c
<1>1. a \in Nat /\ b \in Nat
  OBVIOUS
<1>2. /\ c * a <= t /\ t < c * (a + 1)
      /\ c * b <= u /\ u < c * (b + 1)
  OBVIOUS
<1>3. NextFire(c, t) = c * (a + 1) /\ NextFire(c, u) = c * (b + 1) /\ LatestFire(c, u) = c * b
  BY DEF NextFire, LatestFire
<1> HIDE DEF a, b
<1>4. ASSUME t <= u PROVE c * (a + 1) <= c * (b + 1)
  <2>1. c * a < c * (b + 1)
    BY <1>1, <1>2, <1>4
  <2>2. a + 1 <= b + 1
    BY <1>1, <2>1, Products
  <2> QED BY <1>1, <2>2, Products
<1>5. ASSUME c * (a + 1) <= u PROVE c * (a + 1) <= c * b
  <2>1. c * (a + 1) < c * (b + 1) /\ a + 1 \in Nat
    BY <1>1, <1>2, <1>5
  <2>2. a + 1 <= b
    BY <1>1, <2>1, Products
  <2> QED BY <1>1, <2>1, <2>2, Products
<1> QED BY <1>3, <1>4, <1>5

-----------------------------------------------------------------------------
(* Edits of a row. *)

\* A patch of the settings, or the switch.
Patch(patch) == IsPatch(patch) \/ \E b \in BOOLEAN : patch = [enabled |-> b]

LEMMA EditedRow ==
  ASSUME NEW r \in Row, NEW patch, Patch(patch)
  PROVE  LET new == Edited(r, patch)
         IN  /\ new \in Row
             /\ new.cursor = r.cursor /\ new.rev = r.rev /\ new.nextRun = r.nextRun /\ new.dest = r.dest
             /\ new.charter = IF "charter" \in DOMAIN patch THEN patch.charter ELSE r.charter
             /\ new.cron = IF "cron" \in DOMAIN patch THEN patch.cron ELSE r.cron
             /\ new.grace = IF "grace" \in DOMAIN patch THEN patch.grace ELSE r.grace
             /\ new.hook = IF "hook" \in DOMAIN patch THEN patch.hook ELSE r.hook
             /\ new.filter = IF "filter" \in DOMAIN patch THEN patch.filter ELSE r.filter
             /\ new.enabled = IF "enabled" \in DOMAIN patch THEN patch.enabled ELSE r.enabled
<1> DEFINE new == Edited(r, patch)
<1>1. DOMAIN r = {"charter", "cron", "grace", "hook", "filter", "dest", "enabled", "cursor", "rev", "nextRun"}
  BY DEF Row
<1>2. \A f \in DOMAIN r : new[f] = IF f \in DOMAIN patch THEN patch[f] ELSE r[f]
  BY DEF Edited
<1>3. new = [f \in DOMAIN r |-> new[f]]
  BY DEF Edited
<1>4. /\ DOMAIN patch \cap {"cursor", "rev", "nextRun", "dest"} = {}
      /\ "charter" \in DOMAIN patch => patch.charter \in Charters
      /\ "cron" \in DOMAIN patch => patch.cron \in Crons \cup {None}
      /\ "grace" \in DOMAIN patch => patch.grace \in Nat \cup {None}
      /\ "hook" \in DOMAIN patch => patch.hook \in Nat \cup {None}
      /\ "filter" \in DOMAIN patch => patch.filter \in Filters \cup {None}
      /\ "enabled" \in DOMAIN patch => patch.enabled \in BOOLEAN
  BY DEF Patch, IsPatch
<1> HIDE DEF new
<1>5. /\ new.cursor = r.cursor /\ new.rev = r.rev /\ new.nextRun = r.nextRun /\ new.dest = r.dest
      /\ new.charter = IF "charter" \in DOMAIN patch THEN patch.charter ELSE r.charter
      /\ new.cron = IF "cron" \in DOMAIN patch THEN patch.cron ELSE r.cron
      /\ new.grace = IF "grace" \in DOMAIN patch THEN patch.grace ELSE r.grace
      /\ new.hook = IF "hook" \in DOMAIN patch THEN patch.hook ELSE r.hook
      /\ new.filter = IF "filter" \in DOMAIN patch THEN patch.filter ELSE r.filter
      /\ new.enabled = IF "enabled" \in DOMAIN patch THEN patch.enabled ELSE r.enabled
  BY <1>1, <1>2, <1>4
<1>6. new \in Row
  BY <1>1, <1>3, <1>4, <1>5 DEF Row
<1> QED BY <1>5, <1>6 DEF new

\* The schedule goes on, or begins now.
OnSchedule(r, new) == new.cron = r.cron /\ new.nextRun = r.nextRun /\ (new.enabled => r.enabled)
Begins(new) == new.cron # None => new.nextRun = NextFire(new.cron, now)

\* The filter and its cursor stay, or a revision begins.
OnFilter(r, new) ==
    new.filter = r.filter /\ new.cursor = r.cursor /\ new.rev = r.rev /\ (new.enabled => r.enabled)
Rebased(r, new) == new.cursor = None /\ new.rev = r.rev + 1

WellFormed(r) == r \in Row /\ HasTrigger(r) /\ (r.cron = None <=> r.nextRun = None)

LEMMA PatchedRow ==
  ASSUME NEW r, WellFormed(r), NEW patch, Patch(patch), ValidPatch(r, patch), now \in Nat
  PROVE  LET new == Patched(r, patch)
         IN  /\ WellFormed(new) /\ Fingerprint(new) = Fingerprint(Edited(r, patch))
             /\ IF Reschedules(r, patch) THEN Begins(new) ELSE OnSchedule(r, new)
             /\ IF Rebaselines(r, patch) THEN Rebased(r, new) ELSE OnFilter(r, new)
<1> DEFINE old == Edited(r, patch)
           new == Patched(r, patch)
           nextRun == IF ~Reschedules(r, patch) THEN r.nextRun
                      ELSE IF old.cron = None THEN None ELSE NextFire(old.cron, now)
           cursor == IF Rebaselines(r, patch) THEN None ELSE r.cursor
           rev == IF Rebaselines(r, patch) THEN r.rev + 1 ELSE r.rev
<1>1. r \in Row /\ None \notin Nat /\ Crons \subseteq Nat \ {0}
  BY ProgramsAssumption DEF WellFormed
<1>2. /\ old \in Row /\ old.cursor = r.cursor /\ old.rev = r.rev /\ old.nextRun = r.nextRun
      /\ old.cron = IF "cron" \in DOMAIN patch THEN patch.cron ELSE r.cron
      /\ HasTrigger(old)
  BY <1>1, EditedRow DEF ValidPatch
<1>3. new = [old EXCEPT !.nextRun = nextRun, !.cursor = cursor, !.rev = rev]
  BY <1>2 DEF Patched
<1>4. old.cron # None => NextFire(old.cron, now) \in Nat
  BY <1>1, <1>2, Period DEF Row
<1>5. nextRun \in Nat \cup {None} /\ cursor \in Nat \cup {None} /\ rev \in Nat
  BY <1>1, <1>2, <1>4 DEF Row
<1>6. old.cron = None <=> nextRun = None
  BY <1>1, <1>2, <1>4 DEF WellFormed, Reschedules
<1>7. /\ Reschedules(r, patch) <=> ("cron" \in DOMAIN patch \/ (old.enabled /\ ~r.enabled))
      /\ Rebaselines(r, patch) <=> (old.filter # r.filter \/ (old.enabled /\ ~r.enabled))
  BY DEF Reschedules, Rebaselines, Reenables
<1>8. /\ Reschedules(r, patch) => (old.cron # None => nextRun = NextFire(old.cron, now))
      /\ ~Reschedules(r, patch) => nextRun = r.nextRun /\ old.cron = r.cron /\ (old.enabled => r.enabled)
  BY <1>2, <1>7
<1>9. /\ Rebaselines(r, patch) => cursor = None /\ rev = r.rev + 1
      /\ ~Rebaselines(r, patch) => cursor = r.cursor /\ rev = r.rev /\ old.filter = r.filter
                                   /\ (old.enabled => r.enabled)
  BY <1>7
<1> HIDE DEF old, new, nextRun, cursor, rev
<1>10. /\ new \in Row /\ new.nextRun = nextRun /\ new.cursor = cursor /\ new.rev = rev
       /\ new.cron = old.cron /\ new.filter = old.filter /\ new.hook = old.hook /\ new.enabled = old.enabled
       /\ new.charter = old.charter /\ new.grace = old.grace /\ new.dest = old.dest
  BY <1>2, <1>3, <1>5 DEF Row
<1>11. WellFormed(new)
  BY <1>2, <1>6, <1>10 DEF WellFormed, HasTrigger
<1>12. Fingerprint(new) = Fingerprint(old)
  BY <1>10 DEF Fingerprint, Settings
<1>13. /\ Reschedules(r, patch) => Begins(new)
       /\ ~Reschedules(r, patch) => OnSchedule(r, new)
  BY <1>8, <1>10 DEF Begins, OnSchedule
<1>14. /\ Rebaselines(r, patch) => Rebased(r, new)
       /\ ~Rebaselines(r, patch) => OnFilter(r, new)
  BY <1>9, <1>10 DEF Rebased, OnFilter
<1> QED BY <1>11, <1>12, <1>13, <1>14 DEF new, old

LEMMA HookRow ==
  ASSUME NEW r, WellFormed(r), NEW h \in Nat \cup {None}, HasTrigger([r EXCEPT !.hook = h])
  PROVE  LET new == [r EXCEPT !.hook = h]
         IN  /\ WellFormed(new) /\ OnSchedule(r, new) /\ OnFilter(r, new)
             /\ new.hook = h /\ new.charter = r.charter
  BY DEF WellFormed, OnSchedule, OnFilter, Row

LEMMA CreatedRow ==
  ASSUME NEW draft \in Draft, HasTrigger(draft), now \in Nat
  PROVE  LET new == Created(draft)
         IN  /\ WellFormed(new) /\ Begins(new) /\ new.cursor = None /\ new.rev = 0 /\ new.dest = draft.dest
             /\ new.enabled
<1>1. None \notin Nat /\ Crons \subseteq Nat \ {0}
  BY ProgramsAssumption
<1>2. draft.cron # None => NextFire(draft.cron, now) \in Nat
  BY <1>1, Period DEF Draft
<1> QED BY <1>1, <1>2 DEF Created, WellFormed, Begins, Row, Draft, HasTrigger

-----------------------------------------------------------------------------
(* The type invariant, by the module that writes each part. *)

RowsOK ==
    /\ now \in Nat /\ mailbox \in Seq(Filters)
    /\ rows \in [Ids -> Row \cup {None}] /\ since \in [Ids -> Nat] /\ base \in [Ids -> Seq(Nat)]
    /\ \A p \in Ids : rows[p] # None => WellFormed(rows[p]) /\ Len(base[p]) = rows[p].rev + 1
ProposalsOK ==
    /\ minted \in Nat /\ proposals \in Seq(Proposal)
    /\ \A i \in DOMAIN proposals :
        proposals[i].change \in IF proposals[i].target = None THEN Drafts ELSE Patches
SchedulerOK ==
    /\ fence \in [Ids -> Fence \cup {None}] /\ \A p \in Ids : fence[p] # None => fence[p].occ <= fence[p].at
    /\ turns \cup timers \subseteq Turn /\ \A t \in turns \cup timers : t.attempt <= Retries
    /\ handled \cup spent \subseteq Firing
    /\ attached \in BOOLEAN /\ active \in BOOLEAN /\ faults \in Nat
WatcherOK ==
    /\ scan # None => DOMAIN scan \subseteq Ids /\ \A p \in DOMAIN scan : scan[p] \in Row
    /\ check \in Check \cup {None} /\ landed \subseteq Landing /\ from \in [Ids -> Nat]
    /\ failing \subseteq Ids

LEMMA TypeParts == TypeOK <=> RowsOK /\ ProposalsOK /\ SchedulerOK /\ WatcherOK
<1>1. rows \in [Ids -> Row \cup {None}] =>
        (  (\A p \in Live : HasTrigger(rows[p]) /\ (rows[p].cron = None <=> rows[p].nextRun = None))
           /\ (\A p \in Live : Len(base[p]) = rows[p].rev + 1)
         <=> \A p \in Ids : rows[p] # None => WellFormed(rows[p]) /\ Len(base[p]) = rows[p].rev + 1)
  BY DEF Live, WellFormed
<1> QED BY <1>1 DEF TypeOK, RowsOK, ProposalsOK, SchedulerOK, WatcherOK

LEMMA TypePartsNext == TypeOK' <=> RowsOK' /\ ProposalsOK' /\ SchedulerOK' /\ WatcherOK'
BY TypeParts, PTL

-----------------------------------------------------------------------------
(* What a command does to the rows and their histories. *)

RowsStay == UNCHANGED <<rows, since, base>>
Revised(p, new) ==
    /\ rows[p] # None /\ WellFormed(new) /\ rows' = [rows EXCEPT ![p] = new]
    /\ \/ OnSchedule(rows[p], new) /\ since' = since
       \/ Begins(new) /\ since' = [since EXCEPT ![p] = now]
    /\ \/ OnFilter(rows[p], new) /\ base' = base
       \/ Rebased(rows[p], new) /\ base' = [base EXCEPT ![p] = Append(@, Len(mailbox))]
Opened(p, new) ==
    /\ base[p] = <<>> /\ WellFormed(new) /\ Begins(new) /\ new.cursor = None /\ new.rev = 0
    /\ rows' = [rows EXCEPT ![p] = new] /\ since' = [since EXCEPT ![p] = now]
    /\ base' = [base EXCEPT ![p] = <<Len(mailbox)>>]
Removed(p) == rows' = [rows EXCEPT ![p] = None] /\ UNCHANGED <<since, base>>

RowsMove == RowsStay \/ \E p \in Ids : Removed(p) \/ \E new : Revised(p, new) \/ Opened(p, new)

LEMMA UpdateShape ==
  ASSUME RowsOK, NEW p \in Ids, rows[p] # None, NEW patch, Patch(patch), Update(p, patch)
  PROVE  /\ rows' = [rows EXCEPT ![p] = Patched(rows[p], patch)] /\ Revised(p, Patched(rows[p], patch))
         /\ Fingerprint(Patched(rows[p], patch)) = Fingerprint(Edited(rows[p], patch))
<1> DEFINE r == rows[p]
           new == Patched(r, patch)
<1>1. WellFormed(r) /\ ValidPatch(r, patch) /\ now \in Nat
  BY DEF RowsOK, Update
<1>2. /\ rows' = [rows EXCEPT ![p] = new]
      /\ since' = IF Reschedules(r, patch) THEN [since EXCEPT ![p] = now] ELSE since
      /\ base' = IF Rebaselines(r, patch) THEN [base EXCEPT ![p] = Append(@, Len(mailbox))] ELSE base
  BY DEF Update
<1>3. /\ WellFormed(new) /\ Fingerprint(new) = Fingerprint(Edited(r, patch))
      /\ IF Reschedules(r, patch) THEN Begins(new) ELSE OnSchedule(r, new)
      /\ IF Rebaselines(r, patch) THEN Rebased(r, new) ELSE OnFilter(r, new)
  <2> HIDE DEF r
  <2> QED BY <1>1, PatchedRow
<1> QED BY <1>2, <1>3 DEF Revised

LEMMA InsertShape ==
  ASSUME RowsOK, NEW draft \in Draft, HasTrigger(draft), Insert(draft)
  PROVE  \E p \in Ids : /\ Opened(p, Created(draft)) /\ rows[p] = None
                        /\ rows' = [rows EXCEPT ![p] = Created(draft)] /\ Created(draft).dest = draft.dest
<1>1. PICK p \in Unused :
        /\ rows' = [rows EXCEPT ![p] = Created(draft)]
        /\ since' = [since EXCEPT ![p] = now]
        /\ base' = [base EXCEPT ![p] = <<Len(mailbox)>>]
  BY DEF Insert
<1>2. p \in Ids /\ base[p] = <<>>
  BY <1>1 DEF Unused
<1>3. rows[p] = None
  BY <1>2 DEF RowsOK, WellFormed, Row
<1>4. now \in Nat
  BY DEF RowsOK
<1>5. /\ WellFormed(Created(draft)) /\ Begins(Created(draft)) /\ Created(draft).cursor = None
      /\ Created(draft).rev = 0 /\ Created(draft).dest = draft.dest
  BY <1>4, CreatedRow
<1>6. Opened(p, Created(draft))
  BY <1>1, <1>2, <1>5 DEF Opened
<1> QED BY <1>1, <1>2, <1>3, <1>5, <1>6

\* What is granted has the shape of what was asked for.
LEMMA GrantedShape ==
  ASSUME minted \in Nat
  PROVE  /\ \A draft \in Drafts : Granted(draft) \in Draft /\ HasTrigger(Granted(draft))
         /\ \A patch \in Patches : Patch(Granted(patch))
<1>1. ASSUME NEW draft \in Drafts PROVE Granted(draft) \in Draft /\ HasTrigger(Granted(draft))
  <2>1. draft \in Draft /\ HasTrigger(draft) /\ None \notin Nat
    BY ProgramsAssumption
  <2>2. CASE draft.hook = None
    BY <2>1, <2>2 DEF Granted
  <2>3. CASE draft.hook # None
    <3>1. Granted(draft) = [draft EXCEPT !.hook = minted + 1]
      BY <2>1, <2>3 DEF Granted, Draft
    <3> QED BY <2>1, <3>1 DEF Draft, HasTrigger
  <2> QED BY <2>2, <2>3
<1>2. ASSUME NEW patch \in Patches PROVE IsPatch(Granted(patch))
  <2>1. IsPatch(patch)
    BY ProgramsAssumption
  <2>2. CASE Granted(patch) = patch
    BY <2>1, <2>2
  <2>3. CASE "hook" \in DOMAIN patch /\ Granted(patch) = [patch EXCEPT !.hook = minted + 1]
    BY <2>1, <2>3 DEF IsPatch
  <2> QED BY <2>2, <2>3 DEF Granted
<1> QED BY <1>1, <1>2 DEF Patch

LEMMA ProposalAt ==
  ASSUME ProposalsOK, NEW i \in DOMAIN proposals
  PROVE  /\ proposals[i] \in Proposal /\ proposals[i].target \in Ids \cup {None}
         /\ proposals[i].change \in IF proposals[i].target = None THEN Drafts ELSE Patches
<1>1. proposals[i] \in Proposal
  BY DEF ProposalsOK
<1> QED BY <1>1 DEF ProposalsOK, Proposal

LEMMA CommandRows ==
  ASSUME RowsOK, ProposalsOK, ProgramsNext
  PROVE  RowsMove
<1>1. ASSUME NEW p \in Ids, Toggle(p) PROVE RowsMove
  <2>1. rows[p] # None /\ rows[p] \in Row /\ Update(p, [enabled |-> ~rows[p].enabled])
    BY <1>1 DEF Toggle, Live, RowsOK
  <2>2. Patch([enabled |-> ~rows[p].enabled])
    BY <2>1 DEF Patch, Row
  <2> HIDE DEF RowsMove
  <2>3. Revised(p, Patched(rows[p], [enabled |-> ~rows[p].enabled]))
    BY <2>1, <2>2, UpdateShape
  <2> QED BY <2>3 DEF RowsMove
<1>2. ASSUME NEW p \in Ids, Remove(p) PROVE RowsMove
  BY <1>2 DEF Remove, RowsMove, Removed
<1>3. ASSUME NEW p \in Ids, NEW h \in Nat \cup {None}, rows[p] # None,
             HasTrigger([rows[p] EXCEPT !.hook = h]),
             rows' = [rows EXCEPT ![p].hook = h], UNCHANGED <<since, base>>
      PROVE RowsMove
  <2> DEFINE new == [rows[p] EXCEPT !.hook = h]
  <2>1. WellFormed(rows[p])
    BY <1>3 DEF RowsOK
  <2>2. WellFormed(new) /\ OnSchedule(rows[p], new) /\ OnFilter(rows[p], new)
    BY <1>3, <2>1, HookRow
  <2>3. rows' = [rows EXCEPT ![p] = new]
    BY <1>3
  <2> HIDE DEF new
  <2> QED BY <1>3, <2>2, <2>3 DEF RowsMove, Revised
<1>4. ASSUME NEW p \in Ids, RotateHook(p) PROVE RowsMove
  <2>1. minted' \in Nat /\ minted' # None
    BY <1>4, ProgramsAssumption DEF RotateHook, ProposalsOK
  <2>2. rows[p] # None /\ WellFormed(rows[p])
    BY <1>4 DEF RotateHook, RowsOK, Live
  <2>3. HasTrigger([rows[p] EXCEPT !.hook = minted'])
    BY <2>1, <2>2 DEF HasTrigger, WellFormed, Row
  <2> QED BY <1>3, <1>4, <2>1, <2>2, <2>3 DEF RotateHook
<1>5. ASSUME NEW p \in Ids, DisableHook(p) PROVE RowsMove
  BY <1>3, <1>5 DEF DisableHook, Live
<1>6. ASSUME NEW p \in Ids, NEW patch, Patch(patch), rows[p] # None, Update(p, patch) PROVE RowsMove
  BY <1>6, UpdateShape DEF RowsMove
<1>7. ASSUME NEW draft \in Draft, HasTrigger(draft), Insert(draft) PROVE RowsMove
  BY <1>7, InsertShape DEF RowsMove
<1>8. ASSUME NEW p \in Ids, NEW patch \in Patches, EditDirectly(p, patch) PROVE RowsMove
  <2>1. Patch(patch)
    BY ProgramsAssumption DEF Patch
  <2> QED BY <1>6, <1>8, <2>1 DEF EditDirectly, Live
<1>9. ASSUME NEW draft \in Drafts, CreateForResponsibility(draft) PROVE RowsMove
  <2>1. draft \in Draft /\ HasTrigger(draft)
    BY ProgramsAssumption
  <2>2. [draft EXCEPT !.dest = "resp"] \in Draft /\ HasTrigger([draft EXCEPT !.dest = "resp"])
    BY <2>1 DEF Draft, HasTrigger
  <2> QED BY <1>7, <1>9, <2>2 DEF CreateForResponsibility
<1>10. ASSUME NEW i \in DOMAIN proposals, Approve(i) PROVE RowsMove
  <2>1. /\ proposals[i].target \in Ids \cup {None}
        /\ proposals[i].change \in IF proposals[i].target = None THEN Drafts ELSE Patches
    BY ProposalAt
  <2>2. minted \in Nat
    BY DEF ProposalsOK
  <2>3. CASE proposals[i].target = None
    <3>1. Insert(Granted(proposals[i].change))
      BY <1>10, <2>3 DEF Approve
    <3>2. Granted(proposals[i].change) \in Draft /\ HasTrigger(Granted(proposals[i].change))
      BY <2>1, <2>2, <2>3, GrantedShape
    <3> QED BY <1>7, <3>1, <3>2
  <2>4. CASE proposals[i].target # None
    <3>1. rows[proposals[i].target] # None /\ Update(proposals[i].target, Granted(proposals[i].change))
      BY <1>10, <2>4 DEF Approve
    <3>2. Patch(Granted(proposals[i].change)) /\ proposals[i].target \in Ids
      BY <2>1, <2>2, <2>4, GrantedShape
    <3> QED BY <1>6, <3>1, <3>2
  <2> QED BY <2>3, <2>4
<1>11. ASSUME RowsStay PROVE RowsMove
  BY <1>11 DEF RowsMove
<1> QED
  BY <1>1, <1>2, <1>4, <1>5, <1>8, <1>9, <1>10, <1>11
  DEF ProgramsNext, ProposeUpdate, ProposeCreate, Reject, RowsStay

\* A decision only closes its own proposal, and only Approve approves.
LEMMA CommandProposals ==
  ASSUME RowsOK, ProposalsOK, ProgramsNext
  PROVE  /\ ProposalsOK' /\ (OnePending => OnePending')
         /\ \A i \in DOMAIN proposals : Approves(i) => Approve(i)
<1> DEFINE Goal == /\ ProposalsOK' /\ (OnePending => OnePending')
                   /\ \A i \in DOMAIN proposals : Approves(i) => Approve(i)
<1>1. ASSUME UNCHANGED proposals, minted' \in Nat PROVE Goal
  <2>1. ProposalsOK' /\ (OnePending => OnePending')
    BY <1>1 DEF ProposalsOK, OnePending
  <2>2. \A i \in DOMAIN proposals : ~Approves(i)
    BY <1>1 DEF Approves
  <2> QED BY <2>1, <2>2
<1>2. ASSUME NEW old \in Seq(Proposal), NEW prop \in Proposal, proposals' = Append(old, prop), UNCHANGED minted,
             Len(old) = Len(proposals),
             \A i \in DOMAIN old : /\ old[i].target = proposals[i].target /\ old[i].change = proposals[i].change
                                   /\ old[i].state = "pending" => proposals[i].state = "pending"
                                        /\ (prop.target = None \/ proposals[i].target # prop.target)
                                   /\ old[i].state = "approved" => proposals[i].state = "approved",
             prop.change \in IF prop.target = None THEN Drafts ELSE Patches
      PROVE Goal
  <2>1. /\ DOMAIN proposals = 1..Len(proposals) /\ DOMAIN old = 1..Len(old) /\ Len(proposals) \in Nat
        /\ DOMAIN proposals' = 1..(Len(proposals) + 1)
        /\ proposals' \in Seq(Proposal)
        /\ \A i \in DOMAIN proposals : proposals'[i] = old[i]
        /\ proposals'[Len(proposals) + 1] = prop
    BY <1>2 DEF ProposalsOK
  <2>2. ProposalsOK'
    BY <1>2, <2>1 DEF ProposalsOK
  <2>3. ASSUME OnePending PROVE OnePending'
    BY <1>2, <2>1, <2>3 DEF OnePending
  <2>4. \A i \in DOMAIN proposals : ~Approves(i)
    BY <1>2, <2>1 DEF Approves
  <2> QED BY <2>2, <2>3, <2>4
<1>3. ASSUME NEW i \in DOMAIN proposals, NEW state \in {"approved", "rejected"}, Decide(i, state), minted' \in Nat,
             state = "approved" => Approve(i)
      PROVE Goal
  <2>1. /\ proposals' = [proposals EXCEPT ![i].state = state]
        /\ proposals \in Seq(Proposal)
    BY <1>3 DEF Decide, ProposalsOK
  <2>2. /\ DOMAIN proposals' = DOMAIN proposals
        /\ \A j \in DOMAIN proposals :
            /\ proposals'[j].target = proposals[j].target /\ proposals'[j].change = proposals[j].change
            /\ j # i => proposals'[j] = proposals[j]
            /\ j = i => proposals'[j].state = state
    <3>1. \A j \in DOMAIN proposals : proposals'[j] = IF j = i THEN [proposals[i] EXCEPT !.state = state]
                                                      ELSE proposals[j]
      BY <2>1
    <3>2. /\ [proposals[i] EXCEPT !.state = state].target = proposals[i].target
          /\ [proposals[i] EXCEPT !.state = state].change = proposals[i].change
          /\ [proposals[i] EXCEPT !.state = state].state = state
      BY <1>3, ProposalAt DEF Proposal
    <3> QED BY <2>1, <3>1, <3>2
  <2>3. proposals' \in Seq(Proposal)
    <3>1. [proposals[i] EXCEPT !.state = state] \in Proposal
      BY <1>3, ProposalAt DEF Proposal
    <3> QED BY <2>1, <3>1
  <2>4. ProposalsOK'
    BY <1>3, <2>2, <2>3 DEF ProposalsOK
  <2>5. ASSUME OnePending PROVE OnePending'
    BY <2>2, <2>5 DEF OnePending
  <2>6. \A j \in DOMAIN proposals : Approves(j) => Approve(j)
    BY <1>3, <2>2 DEF Approves
  <2> QED BY <2>4, <2>5, <2>6
<1> HIDE DEF Goal
<1>4. ASSUME NEW draft \in Drafts, ProposeCreate(draft) PROVE Goal
  <2> DEFINE prop == [target |-> None, change |-> draft, on |-> None, state |-> "pending"]
  <2>1. proposals' = Append(proposals, prop) /\ minted' = minted
    BY <1>4 DEF ProposeCreate, Propose
  <2>2. prop \in Proposal /\ prop.target = None /\ prop.change = draft
    BY DEF Proposal
  <2>3. proposals \in Seq(Proposal)
    BY DEF ProposalsOK
  <2> HIDE DEF prop
  <2> QED BY <1>2, <2>1, <2>2, <2>3
<1>5. ASSUME NEW p \in Ids, NEW patch \in Patches, ProposeUpdate(p, patch) PROVE Goal
  <2> DEFINE prop == [target |-> p, change |-> patch, on |-> Fingerprint(rows[p]), state |-> "pending"]
  <2>1. /\ proposals' = Append(Superseded(p), prop) /\ minted' = minted
        /\ rows[p] \in Row /\ proposals \in Seq(Proposal) /\ p # None
    BY <1>5, ProgramsAssumption DEF ProposeUpdate, Live, RowsOK, ProposalsOK, Ids
  <2>2. Fingerprint(rows[p]) \in Shown
    BY <2>1 DEF Fingerprint, Settings, Row, Shown
  <2>3. prop \in Proposal /\ prop.target = p /\ prop.change = patch
    BY <2>2 DEF Proposal
  <2>4. \A i \in DOMAIN proposals :
          LET new == IF proposals[i].target = p /\ proposals[i].state = "pending"
                     THEN [proposals[i] EXCEPT !.state = "superseded"] ELSE proposals[i]
          IN  /\ new \in Proposal
              /\ new.target = proposals[i].target /\ new.change = proposals[i].change
              /\ new.state = "pending" => proposals[i].state = "pending" /\ proposals[i].target # p
              /\ new.state = "approved" => proposals[i].state = "approved"
    BY ProposalAt DEF Proposal
  <2>5. /\ Superseded(p) \in Seq(Proposal) /\ Len(Superseded(p)) = Len(proposals)
        /\ DOMAIN Superseded(p) = DOMAIN proposals
    BY <2>1, <2>4 DEF Superseded
  <2>6. \A i \in DOMAIN proposals :
          /\ Superseded(p)[i].target = proposals[i].target /\ Superseded(p)[i].change = proposals[i].change
          /\ Superseded(p)[i].state = "pending" => proposals[i].state = "pending" /\ proposals[i].target # p
          /\ Superseded(p)[i].state = "approved" => proposals[i].state = "approved"
    BY <2>4 DEF Superseded
  <2> HIDE DEF prop
  <2> QED BY <1>2, <2>1, <2>3, <2>5, <2>6
<1>6. ASSUME NEW i \in DOMAIN proposals, Approve(i) PROVE Goal
  <2>1. minted' \in Nat
    BY <1>6 DEF Approve, Mint, ProposalsOK
  <2> QED BY <1>3, <1>6, <2>1 DEF Approve
<1>7. ASSUME NEW i \in DOMAIN proposals, Reject(i) PROVE Goal
  BY <1>3, <1>7 DEF Reject, ProposalsOK
<1>8. ASSUME NEW p \in Ids, Toggle(p) \/ Remove(p) \/ RotateHook(p) \/ DisableHook(p) PROVE Goal
  BY <1>1, <1>8 DEF Toggle, Remove, RotateHook, DisableHook, ProposalsOK
<1>9. ASSUME NEW p \in Ids, NEW patch \in Patches, EditDirectly(p, patch) PROVE Goal
  BY <1>1, <1>9 DEF EditDirectly, ProposalsOK
<1>10. ASSUME NEW draft \in Drafts, CreateForResponsibility(draft) PROVE Goal
  BY <1>1, <1>10 DEF CreateForResponsibility, ProposalsOK
<1>11. Goal
  BY <1>4, <1>5, <1>6, <1>7, <1>8, <1>9, <1>10 DEF ProgramsNext
<1> QED BY <1>11 DEF Goal

-----------------------------------------------------------------------------
(* The same, of one row. *)

Keeps(p) == since'[p] = since[p] /\ base'[p] = base[p]
RowMove(p, new) ==
    \/ new = rows[p] /\ Keeps(p)
    \/ new = None /\ Keeps(p)
    \/ /\ rows[p] # None /\ WellFormed(new)
       /\ \/ OnSchedule(rows[p], new) /\ since'[p] = since[p]
          \/ Begins(new) /\ since'[p] = now
       /\ \/ OnFilter(rows[p], new) /\ base'[p] = base[p]
          \/ Rebased(rows[p], new) /\ base'[p] = Append(base[p], Len(mailbox))
    \/ /\ rows[p] = None /\ base[p] = <<>> /\ WellFormed(new) /\ Begins(new) /\ new.cursor = None /\ new.rev = 0
       /\ since'[p] = now /\ base'[p] = <<Len(mailbox)>>

LEMMA RowsMoveAt ==
  ASSUME RowsOK, RowsMove
  PROVE  /\ DOMAIN rows' = Ids /\ DOMAIN since' = Ids /\ DOMAIN base' = Ids
         /\ rows' = [p \in Ids |-> rows'[p]] /\ since' = [p \in Ids |-> since'[p]] /\ base' = [p \in Ids |-> base'[p]]
         /\ \A p \in Ids : \E new : new = rows'[p] /\ RowMove(p, new)
<1> DEFINE Goal == 
        /\ DOMAIN rows' = Ids /\ DOMAIN since' = Ids /\ DOMAIN base' = Ids
        /\ rows' = [p \in Ids |-> rows'[p]] /\ since' = [p \in Ids |-> since'[p]] /\ base' = [p \in Ids |-> base'[p]]
        /\ \A p \in Ids : \E new : new = rows'[p] /\ RowMove(p, new)
<1>1. ASSUME RowsStay PROVE Goal
  BY <1>1 DEF RowsStay, RowsOK, RowMove, Keeps
<1>2. ASSUME NEW q \in Ids, Removed(q) PROVE Goal
  BY <1>2 DEF Removed, RowsOK, RowMove, Keeps
<1>3. ASSUME NEW q \in Ids, NEW row, Revised(q, row) PROVE Goal
  <2>1. /\ rows' = [rows EXCEPT ![q] = row]
        /\ since' = since \/ since' = [since EXCEPT ![q] = now]
        /\ base' = base \/ base' = [base EXCEPT ![q] = Append(@, Len(mailbox))]
    BY <1>3 DEF Revised
  <2>2. ASSUME NEW p \in Ids PROVE \E new : new = rows'[p] /\ RowMove(p, new)
    <3>1. CASE p = q
      <4>1. row = rows'[p] /\ RowMove(p, row)
        BY <1>3, <3>1 DEF Revised, RowsOK, RowMove
      <4> QED BY <4>1
    <3>2. CASE p # q
      <4>1. rows[p] = rows'[p] /\ Keeps(p)
        BY <2>1, <3>2 DEF RowsOK, Keeps
      <4> QED BY <4>1 DEF RowMove
    <3> QED BY <3>1, <3>2
  <2> QED BY <2>1, <2>2 DEF RowsOK
<1>4. ASSUME NEW q \in Ids, NEW row, Opened(q, row) PROVE Goal
  <2>1. /\ rows' = [rows EXCEPT ![q] = row] /\ since' = [since EXCEPT ![q] = now]
        /\ base' = [base EXCEPT ![q] = <<Len(mailbox)>>]
    BY <1>4 DEF Opened
  <2>2. ASSUME NEW p \in Ids PROVE \E new : new = rows'[p] /\ RowMove(p, new)
    <3>1. CASE p = q
      <4>1. base[p] = <<>>
        BY <1>4, <3>1 DEF Opened
      <4>2. rows[p] = None
        BY <4>1 DEF RowsOK, WellFormed, Row
      <4>3. row = rows'[p] /\ RowMove(p, row)
        BY <1>4, <3>1, <4>2 DEF Opened, RowsOK, RowMove
      <4> QED BY <4>3
    <3>2. CASE p # q
      <4>1. rows[p] = rows'[p] /\ Keeps(p)
        BY <2>1, <3>2 DEF RowsOK, Keeps
      <4> QED BY <4>1 DEF RowMove
    <3> QED BY <3>1, <3>2
  <2> QED BY <2>1, <2>2 DEF RowsOK
<1> HIDE DEF Goal
<1>5. Goal
  BY <1>1, <1>2, <1>3, <1>4 DEF RowsMove
<1> QED BY <1>5 DEF Goal

\* A command leaves the rows well formed.
LEMMA RowMoveOK ==
  ASSUME RowsOK, NEW p \in Ids, NEW new, RowMove(p, new), new = rows'[p], now \in Nat
  PROVE  /\ new \in Row \cup {None} /\ since'[p] \in Nat /\ base'[p] \in Seq(Nat)
         /\ new # None => WellFormed(new) /\ Len(base'[p]) = new.rev + 1
<1>1. /\ rows[p] \in Row \cup {None} /\ since[p] \in Nat /\ base[p] \in Seq(Nat) /\ Len(mailbox) \in Nat
      /\ rows[p] # None => WellFormed(rows[p]) /\ rows[p].rev \in Nat /\ Len(base[p]) = rows[p].rev + 1
  BY DEF RowsOK, WellFormed, Row
<1>2. WellFormed(new) => new \in Row
  BY DEF WellFormed
<1>3. Append(base[p], Len(mailbox)) \in Seq(Nat) /\ Len(Append(base[p], Len(mailbox))) = Len(base[p]) + 1
  BY <1>1
<1>4. <<Len(mailbox)>> \in Seq(Nat) /\ Len(<<Len(mailbox)>>) = 0 + 1
  BY <1>1
<1>5. /\ OnFilter(rows[p], new) => new.rev = rows[p].rev
      /\ Rebased(rows[p], new) => new.rev = rows[p].rev + 1
  BY DEF OnFilter, Rebased
<1>6. since'[p] \in Nat /\ new \in Row \cup {None}
  BY <1>1, <1>2 DEF RowMove, Keeps
<1>7. base'[p] \in Seq(Nat)
  BY <1>1, <1>3, <1>4 DEF RowMove, Keeps
<1>8. new # None => WellFormed(new) /\ Len(base'[p]) = new.rev + 1
  BY <1>1, <1>3, <1>4, <1>5 DEF RowMove, Keeps
<1> QED BY <1>6, <1>7, <1>8

LEMMA MovedRows ==
  ASSUME RowsOK, RowsMove, UNCHANGED <<now, mailbox>>
  PROVE  RowsOK'
<1>1. /\ rows' = [p \in Ids |-> rows'[p]] /\ since' = [p \in Ids |-> since'[p]] /\ base' = [p \in Ids |-> base'[p]]
      /\ \A p \in Ids : \E new : new = rows'[p] /\ RowMove(p, new)
  BY RowsMoveAt
<1>2. ASSUME NEW p \in Ids
      PROVE  /\ rows'[p] \in Row \cup {None} /\ since'[p] \in Nat /\ base'[p] \in Seq(Nat)
             /\ rows'[p] # None => WellFormed(rows[p])' /\ Len(base'[p]) = rows'[p].rev + 1
  <2>1. PICK new : new = rows'[p] /\ RowMove(p, new)
    BY <1>1
  <2>2. now \in Nat
    BY DEF RowsOK
  <2>3. /\ new \in Row \cup {None} /\ since'[p] \in Nat /\ base'[p] \in Seq(Nat)
        /\ new # None => WellFormed(new) /\ Len(base'[p]) = new.rev + 1
    BY <2>1, <2>2, RowMoveOK
  <2>4. WellFormed(new) => WellFormed(rows[p])'
    BY <2>1 DEF WellFormed, HasTrigger
  <2> QED BY <2>1, <2>3, <2>4
<1> HIDE DEF RowsMove
<1> QED BY <1>1, <1>2 DEF RowsOK

-----------------------------------------------------------------------------
(* The clock under the commands. *)

\* A schedule that begins now owes nothing, and no fence of the old one reaches it.
LEMMA RowMoveClock ==
  ASSUME RowsOK, SchedulerOK, NEW p \in Ids, NEW new, RowMove(p, new), new = rows'[p],
         CursorAt(p), FenceAt(p), UNCHANGED <<now, fence, handled>>
  PROVE  CursorAt(p)' /\ FenceAt(p)' /\ \A occ \in Nat : Behind(p, occ) => Behind(p, occ)'
<1>1. /\ now \in Nat /\ since[p] \in Nat /\ None \notin Nat /\ Crons \subseteq Nat \ {0} /\ None \notin Row
      /\ None \notin Fence
      /\ rows[p] # None => rows[p] \in Row
      /\ fence[p] # None => fence[p].occ \in Nat /\ fence[p].at \in Nat /\ fence[p].occ <= fence[p].at
  BY ProgramsAssumption, SchedulerAssumption DEF RowsOK, SchedulerOK, Fence
<1>2. CASE new = rows[p] /\ Keeps(p)
  <2>1. rows'[p] = rows[p] /\ since'[p] = since[p]
    BY <1>2 DEF Keeps
  <2> QED BY <2>1 DEF CursorAt, FenceAt, Behind, Clocked, Fenced
<1>3. CASE new = None /\ Keeps(p)
  <2>1. ~Clocked(p)' /\ since'[p] = since[p]
    BY <1>3 DEF Keeps, Clocked
  <2> QED BY <2>1 DEF CursorAt, FenceAt, Behind
<1>4. CASE rows[p] # None /\ new # None /\ OnSchedule(rows[p], new) /\ since'[p] = since[p]
  <2>1. /\ Clocked(p)' <=> Clocked(p)
        /\ rows'[p].cron = rows[p].cron /\ rows'[p].nextRun = rows[p].nextRun
        /\ rows'[p].enabled => rows[p].enabled
    BY <1>4 DEF OnSchedule, Clocked
  <2>2. Fenced(p)' <=> Fenced(p)
    BY <2>1 DEF Fenced
  <2>3. CursorAt(p)' /\ FenceAt(p)'
    BY <1>4, <2>1, <2>2 DEF CursorAt, FenceAt
  <2>4. \A occ \in Nat : Behind(p, occ) => Behind(p, occ)'
    BY <2>1, <2>2 DEF Behind
  <2> QED BY <2>3, <2>4
<1>5. CASE WellFormed(new) /\ Begins(new) /\ since'[p] = now
  <2>1. CASE new.cron = None
    <3>1. ~Clocked(p)'
      BY <2>1 DEF Clocked
    <3> QED BY <1>1, <1>5, <3>1 DEF CursorAt, FenceAt, Behind
  <2>2. CASE new.cron # None
    <3>1. new.cron \in Nat \ {0} /\ rows'[p].nextRun = NextFire(rows'[p].cron, now) /\ rows'[p].cron = new.cron
      BY <1>1, <1>5, <2>2 DEF WellFormed, Row, Begins
    <3>2. /\ rows'[p].nextRun \in Nat /\ rows'[p].nextRun > now
          /\ rows'[p].nextRun - rows'[p].cron <= now
      <4>1. /\ NextFire(new.cron, now) \in Nat /\ now < NextFire(new.cron, now)
            /\ NextFire(new.cron, now) - new.cron <= now
        BY <1>1, <3>1, Period
      <4> QED BY <3>1, <4>1
    <3>3. ~Fenced(p)'
      BY <1>1, <3>2 DEF FenceAt, Fenced
    <3>4. CursorAt(p)'
      BY <1>1, <1>5, <3>1, <3>2 DEF CursorAt
    <3>5. FenceAt(p)'
      BY <1>1, <1>5, <3>3 DEF FenceAt
    <3>6. ASSUME NEW occ \in Nat, Behind(p, occ) PROVE Behind(p, occ)'
      <4>1. occ <= now
        BY <3>6 DEF Behind
      <4> QED BY <1>1, <3>2, <4>1 DEF Behind
    <3> QED BY <3>4, <3>5, <3>6
  <2> QED BY <2>1, <2>2
<1>6. WellFormed(new) => new # None
  BY <1>1 DEF WellFormed
<1> QED BY <1>2, <1>3, <1>4, <1>5, <1>6 DEF RowMove

LEMMA CommandClock ==
  ASSUME RowsOK, SchedulerOK, ClockInv, RowsMove, UNCHANGED <<now, sched>>
  PROVE  ClockInv'
<1>1. ASSUME NEW p \in Ids
      PROVE  CursorAt(p)' /\ FenceAt(p)' /\ \A occ \in Nat : Behind(p, occ) => Behind(p, occ)'
  <2>1. PICK new : new = rows'[p] /\ RowMove(p, new)
    BY RowsMoveAt
  <2>2. CursorAt(p) /\ FenceAt(p)
    BY DEF ClockInv
  <2> QED BY <2>1, <2>2, RowMoveClock DEF sched
<1>2. turns' = turns /\ timers' = timers /\ spent' = spent
  BY DEF sched
<1>3. PaidOnce'
  BY <1>2 DEF ClockInv, PaidOnce
<1>4. \A t \in turns \cup timers \cup spent : t.p \in Ids /\ t.occ \in Nat
  BY DEF SchedulerOK, Turn, Firing
<1>5. AttemptsSound'
  <2> HIDE DEF Behind
  <2> QED BY <1>1, <1>2, <1>4 DEF ClockInv, AttemptsSound
<1> QED BY <1>1, <1>3, <1>5 DEF ClockInv

-----------------------------------------------------------------------------
(* The mail under the commands. *)

\* What a command leaves to the watcher of a row: the same filter, cursor and revision, the
\* next revision without a cursor, or a row that no snapshot knows.
Handed(p, r, new) ==
    \/ /\ r # None
       /\ new.filter = r.filter /\ new.cursor = r.cursor /\ new.rev = r.rev /\ (new.enabled => r.enabled)
       /\ Len(base'[p]) = Len(base[p])
    \/ r # None /\ new.cursor = None /\ new.rev = r.rev + 1
    \/ new.cursor = None /\ base[p] = <<>>

LEMMA RowMoveHanded ==
  ASSUME RowsOK, NEW p \in Ids, NEW new, RowMove(p, new), new = rows'[p]
  PROVE  /\ new # None => Handed(p, rows[p], new)
         /\ base'[p] \in Seq(Nat) /\ Len(base[p]) <= Len(base'[p])
         /\ \A k \in 1 .. Len(base[p]) : base'[p][k] = base[p][k]
         /\ \A k \in 1 .. Len(base'[p]) : k <= Len(base[p]) \/ base'[p][k] = Len(mailbox)
<1>1. base[p] \in Seq(Nat) /\ Len(base[p]) \in Nat /\ Len(mailbox) \in Nat
  BY DEF RowsOK
<1>2. new # None => Handed(p, rows[p], new)
  BY DEF RowMove, Keeps, OnFilter, Rebased, Handed
<1>3. CASE base'[p] = base[p]
  BY <1>1, <1>2, <1>3
<1>4. CASE base'[p] = Append(base[p], Len(mailbox))
  BY <1>1, <1>2, <1>4
<1>5. CASE base'[p] = <<Len(mailbox)>> /\ base[p] = <<>>
  BY <1>1, <1>2, <1>5
<1> QED BY <1>3, <1>4, <1>5 DEF RowMove, Keeps

LEMMA RowMoveMail ==
  ASSUME RowsOK, NEW p \in Ids, NEW new, RowMove(p, new), new = rows'[p], MarkAt(p), UNCHANGED mailbox
  PROVE  MarkAt(p)' /\ \A snap \in Row : SnapSound(p, snap) => SnapSound(p, snap)'
<1>1. /\ base[p] \in Seq(Nat) /\ Len(base[p]) \in Nat /\ Len(mailbox) \in Nat
      /\ None \notin Nat /\ None \notin Row
      /\ rows[p] # None => rows[p] \in Row /\ rows[p].rev \in Nat /\ Len(base[p]) = rows[p].rev + 1
      /\ new # None => new \in Row
  BY ProgramsAssumption DEF RowsOK, RowMove, WellFormed, Row
<1>2. /\ new # None => Handed(p, rows[p], new)
      /\ base'[p] \in Seq(Nat) /\ Len(base[p]) <= Len(base'[p]) /\ Len(base'[p]) \in Nat
      /\ DOMAIN base'[p] = 1 .. Len(base'[p]) /\ DOMAIN base[p] = 1 .. Len(base[p])
      /\ \A k \in 1 .. Len(base[p]) : base'[p][k] = base[p][k]
      /\ \A k \in 1 .. Len(base'[p]) : k <= Len(base[p]) \/ base'[p][k] = Len(mailbox)
  BY <1>1, RowMoveHanded
<1>3. \A k \in DOMAIN base'[p] : base'[p][k] <= Len(mailbox)
  <2> SUFFICES ASSUME NEW k \in 1 .. Len(base'[p]) PROVE base'[p][k] <= Len(mailbox)
    BY <1>2
  <2>1. CASE k \in 1 .. Len(base[p])
    <3>1. base[p][k] <= Len(mailbox)
      BY <1>2, <2>1 DEF MarkAt
    <3> QED BY <1>2, <2>1, <3>1
  <2>2. CASE base'[p][k] = Len(mailbox)
    BY <1>1, <2>2
  <2>3. k \in 1 .. Len(base[p]) \/ base'[p][k] = Len(mailbox)
    BY <1>1, <1>2
  <2> QED BY <2>1, <2>2, <2>3
<1>4. ASSUME new # None, new.cursor # None
      PROVE  new.cursor <= Len(mailbox) /\ base'[p][new.rev + 1] <= new.cursor
  <2>1. rows[p] # None /\ new.cursor = rows[p].cursor /\ new.rev = rows[p].rev
    BY <1>2, <1>4 DEF Handed
  <2>2. rows[p].cursor <= Len(mailbox) /\ base[p][rows[p].rev + 1] <= rows[p].cursor
    BY <1>4, <2>1 DEF MarkAt
  <2>3. rows[p].rev + 1 \in 1 .. Len(base[p])
    BY <1>1, <2>1
  <2>4. base'[p][rows[p].rev + 1] = base[p][rows[p].rev + 1]
    BY <1>2, <2>3
  <2> QED BY <2>1, <2>2, <2>4
<1>5. MarkAt(p)'
  BY <1>3, <1>4 DEF MarkAt
<1>6. ASSUME NEW snap \in Row, SnapSound(p, snap) PROVE SnapSound(p, snap)'
  <2>1. snap.rev \in Nat /\ snap.rev + 1 \in 1 .. Len(base[p])
    <3>1. snap.rev \in Nat
      BY DEF Row
    <3>2. snap.rev + 1 <= Len(base[p])
      BY <1>6 DEF SnapSound
    <3> QED BY <1>1, <3>1, <3>2
  <2>2. base'[p][snap.rev + 1] = base[p][snap.rev + 1] /\ snap.rev + 1 <= Len(base'[p])
    <3> DEFINE k == snap.rev + 1
    <3>1. k \in Nat /\ k \in 1 .. Len(base[p])
      BY <2>1
    <3>2. base'[p][k] = base[p][k]
      BY <1>2, <3>1
    <3>3. k <= Len(base[p])
      BY <1>1, <3>1
    <3> HIDE DEF k
    <3>4. k <= Len(base'[p])
      BY <1>1, <1>2, <3>1, <3>3
    <3> QED BY <3>2, <3>4 DEF k
  <2>3. ASSUME new # None
        PROVE  /\ snap.rev <= new.rev
               /\ new.rev = snap.rev => new.filter = snap.filter /\ new.cursor = snap.cursor
               /\ new.rev # snap.rev => new.cursor = None
    <3>1. base[p] # <<>>
      BY <1>1, <2>1
    <3>2. /\ rows[p] # None /\ snap.rev <= rows[p].rev /\ rows[p].rev \in Nat
          /\ rows[p].rev = snap.rev => rows[p].filter = snap.filter /\ rows[p].cursor = snap.cursor
          /\ rows[p].rev # snap.rev => rows[p].cursor = None
      BY <1>1, <1>2, <1>6, <2>3, <3>1 DEF SnapSound, Handed
    <3>3. CASE new.filter = rows[p].filter /\ new.cursor = rows[p].cursor /\ new.rev = rows[p].rev
      BY <3>2, <3>3
    <3>4. CASE new.cursor = None /\ new.rev = rows[p].rev + 1
      BY <2>1, <3>2, <3>4
    <3> QED BY <1>2, <2>3, <3>1, <3>3, <3>4 DEF Handed
  <2> QED BY <1>6, <2>2, <2>3 DEF SnapSound
<1> QED BY <1>5, <1>6

\* What the watcher needs of a step that is not its own, of one row.
WatchedOn(p) ==
    /\ MarkAt(p)' /\ \A snap \in Row : SnapSound(p, snap) => SnapSound(p, snap)'
    /\ rows'[p] # None => Handed(p, rows[p], rows'[p])
    /\ Len(base'[p]) \in Nat /\ Len(base[p]) <= Len(base'[p])
    /\ \A k \in 1 .. Len(base[p]) : base'[p][k] = base[p][k]

LEMMA OthersMail ==
  ASSUME RowsOK, WatcherOK, MailInv, \A p \in Ids : WatchedOn(p), UNCHANGED <<mailbox, mail>>,
         faults \in Nat, faults' \in Nat, faults <= faults'
  PROVE  MailInv'
<1>1. scan' = scan /\ check' = check /\ landed' = landed /\ from' = from /\ mailbox' = mailbox
  BY DEF mail
<1>2. \A l \in landed : l.life \in Nat /\ l.life <= Life /\ l.life <= Life' /\ (l.life = Life' => l.life = Life)
  BY DEF WatcherOK, Landing, Life, MailInv, LandedSound, LandedAt
<1>3. ASSUME NEW p \in Ids
      PROVE  /\ MarkAt(p)' /\ \A snap \in Row : SnapSound(p, snap) => SnapSound(p, snap)'
             /\ rows'[p] # None => Handed(p, rows[p], rows'[p])
             /\ Len(base'[p]) \in Nat /\ Len(base[p]) <= Len(base'[p])
             /\ \A k \in 1 .. Len(base[p]) : base'[p][k] = base[p][k]
  BY DEF WatchedOn
<1>4. ScanSound'
  <2> SUFFICES ASSUME scan # None, NEW p \in DOMAIN scan PROVE SnapSound(p, scan[p])'
    BY <1>1 DEF ScanSound
  <2>1. p \in Ids /\ scan[p] \in Row /\ SnapSound(p, scan[p])
    BY DEF WatcherOK, MailInv, ScanSound
  <2> QED BY <1>1, <1>3, <2>1 DEF SnapSound
<1>5. ASSUME NEW p \in Ids, NEW k \in 1 .. Len(base[p])
      PROVE  k <= Len(base'[p]) /\ base'[p][k] = base[p][k]
  <2>1. Len(base[p]) \in Nat /\ k <= Len(base[p]) /\ k \in Nat
    BY DEF RowsOK
  <2> QED BY <1>3, <2>1
<1>6. CheckSound'
  <2> SUFFICES ASSUME check # None PROVE CheckSound'
    BY <1>1 DEF CheckSound
  <2> DEFINE p == check.p
             snap == check.snap
  <2>1. p \in Ids /\ snap \in Row /\ snap.rev \in Nat /\ CheckSound
    BY DEF WatcherOK, Check, MailInv, Row
  <2>2. SnapSound(p, snap) /\ snap.rev + 1 <= Len(base[p])
    BY <2>1 DEF CheckSound, SnapSound
  <2>3. SnapSound(p, snap)'
    BY <1>1, <1>3, <2>1, <2>2 DEF SnapSound
  <2>4. snap.rev + 1 \in 1 .. Len(base[p])
    BY <2>1, <2>2 DEF RowsOK
  <2>5. base'[p][snap.rev + 1] = base[p][snap.rev + 1]
    BY <1>5, <2>1, <2>4
  <2>6. Matches(snap, check.upto)' = Matches(snap, check.upto)
    BY <1>1 DEF Matches
  <2> HIDE DEF SnapSound, Life
  <2> QED BY <1>1, <1>2, <2>1, <2>3, <2>5, <2>6 DEF CheckSound
<1>7. LandedSound'
  <2> SUFFICES ASSUME NEW l \in landed
      PROVE  /\ l.mail <= Len(mailbox) /\ l.life <= Life'
             /\ l.rev + 1 <= Len(base'[l.p]) /\ base'[l.p][l.rev + 1] < l.mail
             /\ (l.life = Life /\ rows'[l.p] # None /\ rows'[l.p].cursor # None) => l.mail <= rows'[l.p].cursor
    BY <1>1, <1>2 DEF LandedSound, LandedAt
  <2>1. l.p \in Ids /\ l.rev \in Nat /\ l.mail \in Nat
    BY DEF WatcherOK, Landing
  <2>2. /\ l.mail <= Len(mailbox) /\ l.life <= Life
        /\ l.rev + 1 <= Len(base[l.p]) /\ base[l.p][l.rev + 1] < l.mail
        /\ (l.life = Life /\ rows[l.p] # None /\ rows[l.p].cursor # None) => l.mail <= rows[l.p].cursor
    BY DEF MailInv, LandedSound, LandedAt
  <2>3. l.rev + 1 \in 1 .. Len(base[l.p]) /\ base[l.p] # <<>>
    BY <2>1, <2>2 DEF RowsOK
  <2>4. l.rev + 1 <= Len(base'[l.p]) /\ base'[l.p][l.rev + 1] = base[l.p][l.rev + 1]
    BY <1>5, <2>1, <2>3
  <2>5. (rows'[l.p] # None /\ rows'[l.p].cursor # None)
          => rows[l.p] # None /\ rows'[l.p].cursor = rows[l.p].cursor
    BY <1>3, <2>1, <2>3 DEF Handed
  <2> QED BY <1>2, <2>2, <2>4, <2>5
<1>8. MailNotLost'
  <2> SUFFICES ASSUME NEW p \in Ids, rows'[p] # None, rows'[p].enabled, rows'[p].filter # None, rows'[p].cursor # None,
                      NEW i \in from[p] + 1 .. rows'[p].cursor, mailbox[i] = rows'[p].filter
               PROVE  \E l \in landed : l.p = p /\ l.mail = i /\ l.rev = rows'[p].rev
    BY <1>1 DEF MailNotLost, Live, Ids
  <2>1. /\ rows[p] # None /\ rows'[p].filter = rows[p].filter /\ rows'[p].cursor = rows[p].cursor
        /\ rows'[p].rev = rows[p].rev /\ rows[p].enabled
    BY <1>3 DEF Handed
  <2> QED BY <2>1 DEF MailInv, MailNotLost, Live
<1> QED BY <1>3, <1>4, <1>6, <1>7, <1>8 DEF MailInv

LEMMA CommandMail ==
  ASSUME RowsOK, WatcherOK, MailInv, RowsMove, UNCHANGED <<mailbox, faults, mail>>, faults \in Nat
  PROVE  MailInv'
<1>1. ASSUME NEW p \in Ids PROVE WatchedOn(p)
  <2>1. PICK new : new = rows'[p] /\ RowMove(p, new)
    BY RowsMoveAt
  <2>2. MarkAt(p)
    BY DEF MailInv
  <2>3. Handed(p, rows[p], new) => Handed(p, rows[p], rows'[p])
    BY <2>1
  <2>4. MarkAt(p)' /\ \A snap \in Row : SnapSound(p, snap) => SnapSound(p, snap)'
    BY <2>1, <2>2, RowMoveMail
  <2>5. /\ new # None => Handed(p, rows[p], new)
        /\ base'[p] \in Seq(Nat) /\ Len(base[p]) <= Len(base'[p])
        /\ \A k \in 1 .. Len(base[p]) : base'[p][k] = base[p][k]
    BY <2>1, RowMoveHanded
  <2> QED BY <2>1, <2>3, <2>4, <2>5 DEF WatchedOn
<1>2. faults <= faults' /\ faults' \in Nat
  OBVIOUS
<1> QED BY <1>1, <1>2, OthersMail

-----------------------------------------------------------------------------
(* The scheduler. *)

\* A step of the scheduler moves the cursor of one scheduled row at most.
CursorMoves ==
    \/ rows' = rows
    \/ \E p \in Ids, n \in Nat : Clocked(p) /\ rows' = [rows EXCEPT ![p].nextRun = n]

\* What a due row is.
LEMMA DueRow ==
  ASSUME RowsOK, NEW p \in Ids, CursorAt(p), Due(p)
  PROVE  /\ Clocked(p) /\ rows[p] \in Row /\ rows[p].enabled /\ rows[p].cron \in Nat \ {0}
         /\ rows[p].nextRun \in Nat /\ rows[p].nextRun <= now /\ since[p] \in Nat /\ now \in Nat
         /\ Occurrence(p) \in Nat /\ Occurrence(p) <= now
         /\ rows[p].nextRun <= Occurrence(p) /\ Occurrence(p) > since[p]
<1>1. /\ Clocked(p) /\ rows[p] \in Row /\ rows[p].enabled /\ rows[p].nextRun <= now
      /\ now \in Nat /\ since[p] \in Nat /\ WellFormed(rows[p])
  BY DEF Due, Live, Clocked, RowsOK
<1>2. rows[p].cron \in Nat \ {0} /\ rows[p].nextRun \in Nat
  BY <1>1, ProgramsAssumption DEF WellFormed, Row, Clocked
<1>3. PICK x \in 0 .. now : rows[p].nextRun = NextFire(rows[p].cron, x)
  BY <1>1 DEF CursorAt
<1>4. rows[p].nextRun > since[p]
  BY <1>1 DEF CursorAt
<1>5. x \in Nat
  BY <1>1
<1>6. rows[p].nextRun <= LatestFire(rows[p].cron, now)
  BY <1>1, <1>2, <1>3, <1>5, PeriodOrder
<1>7. LatestFire(rows[p].cron, now) \in Nat /\ LatestFire(rows[p].cron, now) <= now
  BY <1>1, <1>2, Period
<1> QED BY <1>1, <1>2, <1>4, <1>6, <1>7 DEF Occurrence

\* A fence the scan keeps holds its row back; one it drops was moot.
LEMMA KeptFence ==
  ASSUME NEW p \in Ids
  PROVE  /\ Kept[p] = fence[p] \/ (Kept[p] = None /\ Moot(p))
         /\ Kept[p] # None => rows[p] # None /\ rows[p].enabled /\ Fenced(p) /\ Kept[p] = fence[p]
         /\ Kept[p] = None => ~(rows[p] # None /\ rows[p].enabled /\ Fenced(p))
  BY DEF Kept, Moot, Live, Fenced

\* A row that the step leaves alone.
LEMMA Unmoved ==
  ASSUME NEW p \in Ids, CursorAt(p), FenceAt(p), rows'[p] = rows[p], since'[p] = since[p], now' = now,
         handled \subseteq handled', fence'[p] \in {fence[p], Kept[p]}
  PROVE  CursorAt(p)' /\ FenceAt(p)' /\ \A occ \in Nat : Behind(p, occ) => Behind(p, occ)'
<1>1. fence'[p] = fence[p] \/ (fence'[p] = None /\ ~(rows[p] # None /\ rows[p].enabled /\ Fenced(p)))
  BY KeptFence
<1>2. CursorAt(p)'
  BY DEF CursorAt, Clocked
<1>3. FenceAt(p)'
  BY <1>1 DEF FenceAt, Clocked, Fenced
<1>4. ASSUME NEW occ \in Nat, Behind(p, occ) PROVE Behind(p, occ)'
  <2>1. occ <= now /\ (Clocked(p)' <=> Clocked(p))
    BY <1>4 DEF Behind, Clocked
  <2>2. CASE fence'[p] = fence[p]
    BY <1>4, <2>1, <2>2 DEF Behind, Fenced
  <2>3. CASE ~(rows[p] # None /\ rows[p].enabled /\ Fenced(p))
    BY <1>4, <2>1, <2>3 DEF Behind, Clocked
  <2> QED BY <1>1, <2>2, <2>3
<1> QED BY <1>2, <1>3, <1>4

\* A row whose cursor moves past what was fired at a time.
LEMMA Marked ==
  ASSUME RowsOK, NEW p \in Ids, CursorAt(p), FenceAt(p), Due(p), NEW t \in Nat,
         rows[p].nextRun <= t, t <= now, rows' = Advanced(p, t), since' = since, now' = now,
         handled \subseteq handled', [p |-> p, occ |-> LatestFire(rows[p].cron, t)] \in handled',
         fence'[p] = None
  PROVE  /\ CursorAt(p)' /\ FenceAt(p)'
         /\ \A occ \in Nat : occ <= t => Behind(p, occ)'
         /\ \A occ \in Nat : Behind(p, occ) /\ (Fenced(p) => fence[p].at <= t) /\ fence[p] \in Fence \cup {None}
                                => Behind(p, occ)'
<1>1. /\ Clocked(p) /\ rows[p] \in Row /\ rows[p].enabled /\ rows[p].cron \in Nat \ {0}
      /\ rows[p].nextRun \in Nat /\ since[p] \in Nat /\ now \in Nat
  BY DueRow
<1>2. /\ NextFire(rows[p].cron, t) \in Nat /\ t < NextFire(rows[p].cron, t)
      /\ NextFire(rows[p].cron, t) - rows[p].cron = LatestFire(rows[p].cron, t)
  BY <1>1, Period
<1>3. rows'[p] = [rows[p] EXCEPT !.nextRun = NextFire(rows[p].cron, t)]
  BY DEF Advanced, RowsOK
<1>4. rows'[p].nextRun = NextFire(rows[p].cron, t) /\ rows'[p].cron = rows[p].cron /\ since'[p] = since[p]
  BY <1>1, <1>3 DEF Row
<1>5. rows[p].nextRun > since[p] /\ since[p] <= now
  BY <1>1 DEF CursorAt, FenceAt
<1>6. CursorAt(p)'
  <2>1. t \in 0 .. now
    BY <1>1
  <2> QED BY <1>1, <1>2, <1>4, <1>5, <2>1 DEF CursorAt
<1>7. FenceAt(p)'
  BY <1>5 DEF FenceAt, Fenced
<1>8. ASSUME NEW occ \in Nat, occ <= t PROVE Behind(p, occ)'
  BY <1>1, <1>2, <1>4, <1>8 DEF Behind
<1>9. ASSUME NEW occ \in Nat, Behind(p, occ), Fenced(p) => fence[p].at <= t, fence[p] \in Fence \cup {None}
      PROVE Behind(p, occ)'
  <2>1. occ < rows[p].nextRun \/ (Fenced(p) /\ occ <= fence[p].at)
    BY <1>1, <1>9 DEF Behind
  <2>2. Fenced(p) => fence[p].at \in Nat
    BY <1>9 DEF Fenced, Fence
  <2>3. occ <= t
    BY <1>1, <1>9, <2>1, <2>2
  <2> QED BY <1>8, <2>3
<1> QED BY <1>6, <1>7, <1>8, <1>9

\* A row whose cursor the store refused to move.
LEMMA FencedOff ==
  ASSUME RowsOK, NEW p \in Ids, CursorAt(p), FenceAt(p), Due(p),
         UNCHANGED <<rows, since, now>>, handled' = handled \cup {[p |-> p, occ |-> Occurrence(p)]},
         fence'[p] = [occ |-> rows[p].nextRun, at |-> now]
  PROVE  /\ CursorAt(p)' /\ FenceAt(p)' /\ \A occ \in Nat : occ <= now => Behind(p, occ)'
<1>1. Clocked(p) /\ since[p] <= now /\ fence'[p].occ = rows[p].nextRun /\ fence'[p].at = now
  BY DueRow DEF FenceAt
<1>2. Fenced(p)' /\ now <= now
  BY <1>1, SchedulerAssumption, DueRow DEF Fenced, Fence
<1>3. CursorAt(p)'
  BY DEF CursorAt, Clocked
<1>4. FenceAt(p)'
  BY <1>1, <1>2 DEF FenceAt, Occurrence
<1>5. \A occ \in Nat : occ <= now => Behind(p, occ)'
  BY <1>1, <1>2 DEF Behind
<1> QED BY <1>3, <1>4, <1>5

\* Every row is as the clock wants it, and nothing attempted comes before a cursor again.
ClockOn ==
    \A p \in Ids : CursorAt(p)' /\ FenceAt(p)' /\ \A occ \in Nat : Behind(p, occ) => Behind(p, occ)'

LEMMA AdvancedMoves ==
  ASSUME RowsOK, NEW p \in Ids, Clocked(p), NEW t \in Nat, rows' = Advanced(p, t)
  PROVE  CursorMoves /\ \A q \in Ids : q # p => rows'[q] = rows[q]
<1>1. rows[p].cron \in Nat \ {0}
  BY ProgramsAssumption DEF RowsOK, Clocked, WellFormed, Row
<1>2. NextFire(rows[p].cron, t) \in Nat
  BY <1>1, Period
<1> QED BY <1>2 DEF Advanced, CursorMoves, RowsOK

LEMMA ScanIdleClock ==
  ASSUME RowsOK, SchedulerOK, ClockInv, UNCHANGED <<now, since, rows>>, handled \subseteq handled', fence' \in {Kept, fence}
  PROVE  ClockOn
<1> SUFFICES ASSUME NEW p \in Ids
             PROVE  CursorAt(p)' /\ FenceAt(p)' /\ \A occ \in Nat : Behind(p, occ) => Behind(p, occ)'
  BY DEF ClockOn
<1>1. CursorAt(p) /\ FenceAt(p) /\ rows'[p] = rows[p] /\ since'[p] = since[p] /\ fence'[p] \in {fence[p], Kept[p]}
  BY DEF ClockInv
<1> QED BY <1>1, Unmoved

LEMMA RetryMarkClock ==
  ASSUME RowsOK, SchedulerOK, ClockInv, NEW p \in Ids, RetryMark(p), UNCHANGED <<now, since>>
  PROVE  ClockOn /\ CursorMoves /\ SchedulerOK'
<1>1. /\ Due(p) /\ Kept[p] = fence[p] /\ fence[p] # None /\ Fenced(p) /\ Clocked(p)
      /\ CursorAt(p) /\ FenceAt(p) /\ fence[p] \in Fence /\ DOMAIN Kept = Ids
      /\ handled' = handled /\ turns' = turns /\ timers' = timers /\ spent' = spent
      /\ attached' = attached /\ active' = active
  BY KeptFence, SchedulerAssumption, DueRow DEF RetryMark, ClockInv, SchedulerOK, Kept
<1>2. /\ fence[p].at \in Nat /\ fence[p].at <= now /\ fence[p].occ <= fence[p].at /\ rows[p].nextRun = fence[p].occ
      /\ [p |-> p, occ |-> LatestFire(rows[p].cron, fence[p].at)] \in handled
  BY <1>1 DEF FenceAt, Fenced, Fence, SchedulerOK
<1>3. CASE rows' = Advanced(p, fence[p].at) /\ fence' = [Kept EXCEPT ![p] = None] /\ UNCHANGED faults
  <2>1. CursorMoves /\ \A q \in Ids : q # p => rows'[q] = rows[q]
    BY <1>1, <1>2, <1>3, AdvancedMoves
  <2>2. fence'[p] = None /\ \A q \in Ids : q # p => fence'[q] = Kept[q]
    BY <1>1, <1>3
  <2>3. CursorAt(p)' /\ FenceAt(p)' /\ \A occ \in Nat : Behind(p, occ) => Behind(p, occ)'
    BY <1>1, <1>2, <1>3, <2>2, Marked
  <2>4. ASSUME NEW q \in Ids, q # p
        PROVE CursorAt(q)' /\ FenceAt(q)' /\ \A occ \in Nat : Behind(q, occ) => Behind(q, occ)'
    <3>1. CursorAt(q) /\ FenceAt(q) /\ rows'[q] = rows[q] /\ since'[q] = since[q] /\ fence'[q] = Kept[q]
      BY <2>1, <2>2, <2>4 DEF ClockInv
    <3> QED BY <1>1, <3>1, Unmoved
  <2>5. SchedulerOK'
    BY <1>1, <1>3 DEF SchedulerOK, Kept
  <2> QED BY <2>1, <2>3, <2>4, <2>5 DEF ClockOn
<1>4. CASE Fault /\ UNCHANGED rows /\ fence' = Kept
  <2>1. ClockOn
    BY <1>1, <1>4, ScanIdleClock
  <2>2. SchedulerOK'
    BY <1>1, <1>4 DEF SchedulerOK, Kept, Fault
  <2> QED BY <1>4, <2>1, <2>2 DEF CursorMoves
<1> QED BY <1>1, <1>3, <1>4 DEF RetryMark, MarkRan

\* An occurrence that is fired or passed over, whether or not the store takes the cursor.
UsesUp(p) ==
    /\ Due(p) /\ Kept[p] = None /\ Passed(p)
    /\ \/ MarkRan(p, now) /\ fence' = Kept
       \/ UNCHANGED rows /\ FenceOff(p)

LEMMA UsesUpClock ==
  ASSUME RowsOK, SchedulerOK, ClockInv, NEW p \in Ids, UsesUp(p), UNCHANGED <<now, since>>
  PROVE  /\ ClockOn /\ CursorMoves
         /\ \A occ \in Nat : occ <= now => Behind(p, occ)'
         /\ Clocked(p) /\ rows[p].enabled /\ Occurrence(p) \in Nat /\ Occurrence(p) <= now /\ Occurrence(p) > since[p]
         /\ \A occ \in Nat : Behind(p, occ) => occ < Occurrence(p)
         /\ fence' \in [Ids -> Fence \cup {None}] /\ \A q \in Ids : fence'[q] # None => fence'[q].occ <= fence'[q].at
         /\ handled' = handled \cup {[p |-> p, occ |-> Occurrence(p)]} /\ handled' \subseteq Firing
<1>1. /\ Due(p) /\ CursorAt(p) /\ FenceAt(p) /\ Kept[p] = None /\ DOMAIN Kept = Ids
      /\ handled' = handled \cup {[p |-> p, occ |-> Occurrence(p)]}
  BY DEF UsesUp, ClockInv, Passed, Kept
<1>2. /\ Clocked(p) /\ rows[p] \in Row /\ rows[p].enabled /\ rows[p].cron \in Nat \ {0}
      /\ rows[p].nextRun \in Nat /\ rows[p].nextRun <= now /\ now \in Nat
      /\ Occurrence(p) \in Nat /\ Occurrence(p) <= now /\ rows[p].nextRun <= Occurrence(p) /\ Occurrence(p) > since[p]
  BY <1>1, DueRow
<1>3. ~Fenced(p)
  BY <1>1, <1>2, KeptFence DEF Clocked
<1>4. ASSUME NEW occ \in Nat, Behind(p, occ) PROVE occ < Occurrence(p)
  BY <1>2, <1>3, <1>4 DEF Behind
<1>5. handled' \subseteq Firing
  BY <1>1, <1>2 DEF SchedulerOK, Firing
<1>6. ASSUME NEW q \in Ids, q # p, rows'[q] = rows[q], fence'[q] = Kept[q]
      PROVE CursorAt(q)' /\ FenceAt(q)' /\ \A occ \in Nat : Behind(q, occ) => Behind(q, occ)'
  <2>1. CursorAt(q) /\ FenceAt(q) /\ since'[q] = since[q]
    BY DEF ClockInv
  <2> QED BY <1>1, <1>6, <2>1, Unmoved
<1>7. CASE rows' = Advanced(p, now) /\ fence' = Kept
  <2>1. CursorMoves /\ \A q \in Ids : q # p => rows'[q] = rows[q]
    BY <1>2, <1>7, AdvancedMoves
  <2>2. CursorAt(p)' /\ FenceAt(p)' /\ \A occ \in Nat : occ <= now => Behind(p, occ)'
    BY <1>1, <1>2, <1>7, Marked DEF Occurrence
  <2>3. fence' \in [Ids -> Fence \cup {None}] /\ \A q \in Ids : fence'[q] # None => fence'[q].occ <= fence'[q].at
    BY <1>7 DEF Kept, SchedulerOK
  <2>4. \A occ \in Nat : Behind(p, occ) => occ <= now
    BY DEF Behind
  <2>5. ClockOn
    BY <1>6, <1>7, <2>1, <2>2, <2>4 DEF ClockOn
  <2> QED BY <1>1, <1>2, <1>4, <1>5, <2>1, <2>2, <2>3, <2>5
<1>8. CASE UNCHANGED rows /\ FenceOff(p)
  <2>1. fence' = [Kept EXCEPT ![p] = [occ |-> rows[p].nextRun, at |-> now]]
    BY <1>8 DEF FenceOff
  <2>2. fence'[p] = [occ |-> rows[p].nextRun, at |-> now] /\ \A q \in Ids : q # p => fence'[q] = Kept[q]
    BY <1>1, <2>1
  <2>3. CursorAt(p)' /\ FenceAt(p)' /\ \A occ \in Nat : occ <= now => Behind(p, occ)'
    BY <1>1, <1>8, <2>2, FencedOff
  <2>4. [occ |-> rows[p].nextRun, at |-> now] \in Fence
    BY <1>2 DEF Fence
  <2>5. \A q \in Ids : Kept[q] \in Fence \cup {None} /\ (Kept[q] # None => Kept[q].occ <= Kept[q].at)
    BY DEF Kept, SchedulerOK
  <2>6. fence' \in [Ids -> Fence \cup {None}] /\ \A q \in Ids : fence'[q] # None => fence'[q].occ <= fence'[q].at
    BY <1>1, <1>2, <2>1, <2>2, <2>4, <2>5
  <2>7. \A occ \in Nat : Behind(p, occ) => occ <= now
    BY DEF Behind
  <2>8. ClockOn
    BY <1>6, <1>8, <2>2, <2>3, <2>7 DEF ClockOn
  <2>9. CursorMoves
    BY <1>8 DEF CursorMoves
  <2> QED BY <1>1, <1>2, <1>4, <1>5, <2>3, <2>6, <2>8, <2>9
<1> QED BY <1>7, <1>8 DEF UsesUp, MarkRan

LEMMA AttemptsStay ==
  ASSUME SchedulerOK, ClockInv, ClockOn, UNCHANGED <<turns, timers, spent>>
  PROVE  ClockInv'
<1>1. \A t \in turns \cup timers \cup spent : t.p \in Ids /\ t.occ \in Nat
  BY DEF SchedulerOK, Turn, Firing
<1>2. AttemptsSound'
  BY <1>1 DEF ClockInv, AttemptsSound, ClockOn
<1>3. PaidOnce'
  BY DEF ClockInv, PaidOnce
<1> QED BY <1>2, <1>3 DEF ClockInv, ClockOn

LEMMA FireConversationClock ==
  ASSUME RowsOK, SchedulerOK, ClockInv, NEW p \in Ids, FireConversation(p), UNCHANGED <<now, since>>
  PROVE  ClockInv' /\ SchedulerOK' /\ CursorMoves /\ Occurrence(p) > since[p]
         /\ handled' = handled \cup {[p |-> p, occ |-> Occurrence(p)]}
<1>1. UsesUp(p)
  BY DEF FireConversation, UsesUp
<1>2. /\ turns' \in {turns \cup {Attempt(p, 0)}, turns}
      /\ timers' = timers /\ spent' = spent /\ attached' = attached /\ active' = active
      /\ faults' = faults \/ faults' = faults + 1
  BY DEF FireConversation, Fault
<1>3. /\ ClockOn /\ CursorMoves
      /\ \A occ \in Nat : occ <= now => Behind(p, occ)'
      /\ Occurrence(p) \in Nat /\ Occurrence(p) <= now /\ Occurrence(p) > since[p]
      /\ \A occ \in Nat : Behind(p, occ) => occ < Occurrence(p)
      /\ fence' \in [Ids -> Fence \cup {None}] /\ \A q \in Ids : fence'[q] # None => fence'[q].occ <= fence'[q].at
      /\ handled' = handled \cup {[p |-> p, occ |-> Occurrence(p)]} /\ handled' \subseteq Firing
  BY <1>1, UsesUpClock
<1>4. PICK new : new = Attempt(p, 0)
  OBVIOUS
<1>5. /\ new \in Turn /\ new.p = p /\ new.occ = Occurrence(p) /\ new.attempt = 0 /\ 0 <= Retries
  BY <1>3, <1>4, SchedulerAssumption DEF Attempt, Turn
<1>6. SchedulerOK'
  BY <1>2, <1>3, <1>5, <1>4 DEF SchedulerOK
<1>7. \A t \in turns \cup timers \cup spent :
        /\ t.p \in Ids /\ t.occ \in Nat /\ Behind(t.p, t.occ)
        /\ t.p = p => t.occ # Occurrence(p)
  <2>1. \A t \in turns \cup timers \cup spent : t.p \in Ids /\ t.occ \in Nat /\ Behind(t.p, t.occ)
    BY DEF SchedulerOK, Turn, Firing, ClockInv, AttemptsSound
  <2> QED BY <1>3, <2>1
<1>8. Behind(new.p, new.occ)'
  BY <1>3, <1>5
<1>9. AttemptsSound'
  <2>1. turns' \cap timers' = {}
    BY <1>2, <1>5, <1>7, <1>4 DEF ClockInv, AttemptsSound
  <2>2. \A t \in turns \cup timers \cup spent : Behind(t.p, t.occ)'
    BY <1>3, <1>7 DEF ClockOn
  <2>3. \A t \in turns' \cup timers' : t \in turns \cup timers \/ t = new
    BY <1>2, <1>4
  <2>4. ASSUME NEW t \in turns' \cup timers' PROVE Behind(t.p, t.occ)'
    BY <1>8, <2>2, <2>3
  <2> QED BY <1>2, <2>1, <2>2, <2>4 DEF AttemptsSound
<1>10. PaidOnce'
  <2>1. \A t \in turns' \cup timers' : t \in turns \cup timers \/ t = new
    BY <1>2, <1>4
  <2>2. [p |-> p, occ |-> Occurrence(p)] \notin spent
    BY <1>7
  <2>3. ASSUME NEW t \in turns' \cup timers' PROVE [p |-> t.p, occ |-> t.occ] \notin spent
    BY <1>5, <2>1, <2>2 DEF ClockInv, PaidOnce
  <2>4. ASSUME NEW t \in turns' \cup timers', NEW u \in turns' \cup timers', u.p = t.p, u.occ = t.occ PROVE u = t
    BY <1>5, <1>7, <2>1, <2>4 DEF ClockInv, PaidOnce
  <2> QED BY <1>2, <2>3, <2>4 DEF PaidOnce
<1> QED BY <1>3, <1>6, <1>9, <1>10 DEF ClockInv, ClockOn

LEMMA TurnDoneClock ==
  ASSUME RowsOK, SchedulerOK, ClockInv, NEW t \in turns, TurnDone(t), UNCHANGED <<now, since>>
  PROVE  ClockInv' /\ SchedulerOK'
<1>1. /\ turns' = turns \ {t} /\ UNCHANGED <<rows, fence, attached, active, handled, faults>>
      /\ t \in Turn /\ t.attempt <= Retries
      /\ \A u \in turns \cup timers \cup spent : u.p \in Ids /\ u.occ \in Nat
      /\ turns \cap timers = {} /\ PaidOnce
  BY DEF TurnDone, SchedulerOK, Turn, Firing, ClockInv, AttemptsSound
<1>2. ClockOn
  BY <1>1, ScanIdleClock
<1>3. \A u \in turns \cup timers \cup spent : Behind(u.p, u.occ)'
  BY <1>1, <1>2 DEF ClockOn, ClockInv, AttemptsSound
<1>4. CASE Spends(t)
  <2> DEFINE paid == [p |-> t.p, occ |-> t.occ]
  <2>1. spent' = spent \cup {paid} /\ timers' = timers /\ paid \in Firing /\ paid.p = t.p /\ paid.occ = t.occ
    BY <1>1, <1>4 DEF Spends, Firing
  <2>2. \A u \in turns' \cup timers' : u \in turns \cup timers /\ u # t
    BY <1>1, <2>1
  <2>3. SchedulerOK'
    BY <1>1, <2>1, <2>2 DEF SchedulerOK
  <2>4. AttemptsSound'
    <3>1. turns' \cap timers' = {}
      BY <1>1, <2>1
    <3>2. \A s \in spent' : Behind(s.p, s.occ)'
      BY <1>3, <2>1
    <3> QED BY <1>3, <2>2, <3>1, <3>2 DEF AttemptsSound
  <2>5. PaidOnce'
    <3>1. ASSUME NEW u \in turns' \cup timers' PROVE [p |-> u.p, occ |-> u.occ] \notin spent'
      BY <1>1, <2>1, <2>2 DEF PaidOnce
    <3> QED BY <1>1, <2>2, <3>1 DEF PaidOnce
  <2> QED BY <1>2, <2>3, <2>4, <2>5 DEF ClockInv, ClockOn
<1>5. CASE UNCHANGED <<spent, timers>>
  <2>1. \A u \in turns' \cup timers' : u \in turns \cup timers
    BY <1>1, <1>5
  <2>2. SchedulerOK'
    BY <1>1, <1>5 DEF SchedulerOK
  <2>3. AttemptsSound'
    BY <1>1, <1>3, <1>5 DEF AttemptsSound
  <2>4. PaidOnce'
    BY <1>1, <1>5, <2>1 DEF PaidOnce
  <2> QED BY <1>2, <2>2, <2>3, <2>4 DEF ClockInv, ClockOn
<1>6. CASE t.attempt < Retries /\ timers' = timers \cup {[t EXCEPT !.attempt = @ + 1]} /\ UNCHANGED spent
  <2> DEFINE next == [t EXCEPT !.attempt = @ + 1]
  <2>1. next \in Turn /\ next.p = t.p /\ next.occ = t.occ /\ next.attempt = t.attempt + 1 /\ t.attempt \in Nat
    BY <1>1 DEF Turn
  <2>2. timers' = timers \cup {next}
    BY <1>6
  <2> HIDE DEF next
  <2>3. next \notin turns \cup timers
    <3>1. \A u \in turns \cup timers : (u.p = t.p /\ u.occ = t.occ) => u = t
      BY <1>1 DEF PaidOnce
    <3>2. next # t
      BY <2>1
    <3> QED BY <2>1, <3>1, <3>2
  <2>4. \A u \in turns' \cup timers' : (u \in turns \cup timers /\ u # t) \/ u = next
    BY <1>1, <2>2
  <2>5. next.attempt <= Retries
    BY <1>6, <2>1, SchedulerAssumption
  <2>6. SchedulerOK'
    BY <1>1, <1>6, <2>1, <2>2, <2>5 DEF SchedulerOK
  <2>7. AttemptsSound'
    <3>1. turns' \cap timers' = {}
      BY <1>1, <2>2, <2>3
    <3>2. Behind(next.p, next.occ)'
      BY <1>3, <2>1
    <3>3. \A u \in turns' \cup timers' : Behind(u.p, u.occ)'
      BY <1>3, <2>4, <3>2
    <3> QED BY <1>3, <1>6, <3>1, <3>3 DEF AttemptsSound
  <2>8. PaidOnce'
    <3>1. ASSUME NEW u \in turns' \cup timers' PROVE [p |-> u.p, occ |-> u.occ] \notin spent
      BY <1>1, <2>1, <2>4 DEF PaidOnce
    <3>2. ASSUME NEW u \in turns' \cup timers', NEW v \in turns' \cup timers', v.p = u.p, v.occ = u.occ PROVE v = u
      BY <1>1, <2>1, <2>4, <3>2 DEF PaidOnce
    <3> QED BY <1>6, <3>1, <3>2 DEF PaidOnce
  <2> QED BY <1>2, <2>6, <2>7, <2>8 DEF ClockInv, ClockOn
<1> QED BY <1>4, <1>5, <1>6 DEF TurnDone

LEMMA RefireClock ==
  ASSUME RowsOK, SchedulerOK, ClockInv, NEW t \in timers, Refire(t), UNCHANGED <<now, since>>
  PROVE  ClockInv' /\ SchedulerOK'
<1>1. /\ timers' = timers \ {t} /\ turns' \in {turns, turns \cup {t}}
      /\ UNCHANGED <<rows, fence, attached, active, handled, spent, faults>>
      /\ \A u \in turns \cup timers \cup spent : u.p \in Ids /\ u.occ \in Nat
      /\ turns \cap timers = {} /\ PaidOnce
  BY DEF Refire, SchedulerOK, Turn, Firing, ClockInv, AttemptsSound
<1>2. ClockOn
  BY <1>1, ScanIdleClock
<1>3. \A u \in turns \cup timers \cup spent : Behind(u.p, u.occ)'
  BY <1>1, <1>2 DEF ClockOn, ClockInv, AttemptsSound
<1>4. \A u \in turns' \cup timers' : u \in turns \cup timers
  BY <1>1
<1>5. SchedulerOK'
  BY <1>1, <1>4 DEF SchedulerOK
<1>6. AttemptsSound'
  <2>1. turns' \cap timers' = {}
    BY <1>1
  <2> QED BY <1>1, <1>3, <1>4, <2>1 DEF AttemptsSound
<1>7. PaidOnce'
  BY <1>1, <1>4 DEF PaidOnce
<1> QED BY <1>2, <1>5, <1>6, <1>7 DEF ClockInv, ClockOn

LEMMA SchedulerStep ==
  ASSUME RowsOK, SchedulerOK, ClockInv, SchedulerNext, UNCHANGED <<now, since>>
  PROVE  /\ ClockInv' /\ SchedulerOK' /\ CursorMoves
         /\ \A h \in handled' \ handled : h.occ > since[h.p]
<1> DEFINE Goal == /\ ClockInv' /\ SchedulerOK' /\ CursorMoves
                   /\ \A h \in handled' \ handled : h.occ > since[h.p]
<1>1. ASSUME ScanIdle \/ Attach \/ PauseOrResume PROVE Goal
  <2>1. /\ UNCHANGED <<rows, turns, timers, handled, spent, faults>>
        /\ attached' \in BOOLEAN /\ active' \in BOOLEAN /\ fence' \in {fence, Kept}
    BY <1>1 DEF ScanIdle, Attach, PauseOrResume, SchedulerOK
  <2>2. ClockInv'
    BY <2>1, ScanIdleClock, AttemptsStay
  <2>3. SchedulerOK'
    BY <2>1 DEF SchedulerOK, Kept
  <2> QED BY <2>1, <2>2, <2>3 DEF CursorMoves
<1>2. ASSUME NEW p \in Ids, RetryMark(p) PROVE Goal
  <2>1. UNCHANGED <<turns, timers, spent, handled>>
    BY <1>2 DEF RetryMark
  <2> QED BY <1>2, <2>1, RetryMarkClock, AttemptsStay
<1>3. ASSUME NEW p \in Ids, UsesUp(p), UNCHANGED <<turns, timers, spent, attached, active>>, faults' \in Nat PROVE Goal
  <2>1. /\ ClockOn /\ CursorMoves /\ Occurrence(p) > since[p]
        /\ fence' \in [Ids -> Fence \cup {None}] /\ \A q \in Ids : fence'[q] # None => fence'[q].occ <= fence'[q].at
        /\ handled' = handled \cup {[p |-> p, occ |-> Occurrence(p)]} /\ handled' \subseteq Firing
    BY <1>3, UsesUpClock
  <2>2. ClockInv'
    BY <1>3, <2>1, AttemptsStay
  <2>3. SchedulerOK'
    BY <1>3, <2>1 DEF SchedulerOK
  <2> QED BY <2>1, <2>2, <2>3
<1>4. ASSUME NEW p \in Ids, SkipLate(p) PROVE Goal
  <2>1. UsesUp(p) /\ UNCHANGED <<turns, timers, spent, attached, active>> /\ faults' = faults
    BY <1>4 DEF SkipLate, UsesUp
  <2> QED BY <1>3, <2>1 DEF SchedulerOK
<1>5. ASSUME NEW p \in Ids, FireConversation(p) PROVE Goal
  BY <1>5, FireConversationClock
<1>6. ASSUME NEW p \in Ids, FireResponsibility(p) PROVE Goal
  <2>1. UNCHANGED <<turns, timers, spent, attached, active>> /\ faults' \in Nat
    BY <1>6 DEF FireResponsibility, Fault, SchedulerOK
  <2>2. UsesUp(p) \/ (UNCHANGED <<rows, handled>> /\ fence' = Kept)
    BY <1>6 DEF FireResponsibility, UsesUp
  <2>3. CASE UsesUp(p)
    BY <1>3, <2>1, <2>3
  <2>4. CASE UNCHANGED <<rows, handled>> /\ fence' = Kept
    <3>1. ClockInv'
      BY <2>1, <2>4, ScanIdleClock, AttemptsStay
    <3>2. SchedulerOK'
      BY <2>1, <2>4 DEF SchedulerOK, Kept
    <3> QED BY <2>4, <3>1, <3>2 DEF CursorMoves
  <2> QED BY <2>2, <2>3, <2>4
<1>7. ASSUME NEW t \in turns, TurnDone(t) PROVE Goal
  BY <1>7, TurnDoneClock DEF TurnDone, CursorMoves
<1>8. ASSUME NEW t \in timers, Refire(t) PROVE Goal
  BY <1>8, RefireClock DEF Refire, CursorMoves
<1> HIDE DEF Goal
<1>9. Goal
  BY <1>1, <1>2, <1>4, <1>5, <1>6, <1>7, <1>8 DEF SchedulerNext
<1> QED BY <1>9 DEF Goal

\* Two rows that differ in their cursors only.
SameSettings(old, new) ==
    /\ new.charter = old.charter /\ new.cron = old.cron /\ new.grace = old.grace /\ new.hook = old.hook
    /\ new.filter = old.filter /\ new.dest = old.dest /\ new.enabled = old.enabled /\ new.rev = old.rev
Steady(p) == rows'[p] = None <=> rows[p] = None

LEMMA CursorMovesAt ==
  ASSUME RowsOK, CursorMoves
  PROVE  /\ rows' \in [Ids -> Row \cup {None}]
         /\ \A p \in Ids : Steady(p) /\ (rows[p] # None => /\ SameSettings(rows[p], rows'[p])
                                                           /\ rows'[p].cursor = rows[p].cursor
                                                           /\ rows'[p].cron = None <=> rows'[p].nextRun = None)
<1>1. /\ rows \in [Ids -> Row \cup {None}] /\ None \notin Row /\ None \notin Nat
      /\ \A p \in Ids : rows[p] # None => /\ rows[p] \in Row 
                                          /\ rows[p].cron = None <=> rows[p].nextRun = None
  BY ProgramsAssumption DEF RowsOK, WellFormed
<1>2. CASE rows' = rows
  BY <1>1, <1>2 DEF SameSettings, Steady
<1>3. ASSUME NEW p \in Ids, NEW n \in Nat, Clocked(p), rows' = [rows EXCEPT ![p].nextRun = n]
      PROVE  /\ rows' \in [Ids -> Row \cup {None}]
             /\ \A q \in Ids : Steady(q) /\ (rows[q] # None => /\ SameSettings(rows[q], rows'[q])
                                                               /\ rows'[q].cursor = rows[q].cursor
                                                               /\ rows'[q].cron = None <=> rows'[q].nextRun = None)
  <2>1. rows[p] \in Row /\ rows[p] # None /\ rows[p].cron # None
    BY <1>1, <1>3 DEF Clocked
  <2> DEFINE new == [rows[p] EXCEPT !.nextRun = n]
  <2>2. /\ new \in Row /\ SameSettings(rows[p], new) /\ new.cursor = rows[p].cursor /\ new.nextRun = n
        /\ new.cron = rows[p].cron
    BY <2>1 DEF Row, SameSettings
  <2>3. rows'[p] = new /\ \A q \in Ids : q # p => rows'[q] = rows[q]
    BY <1>1, <1>3
  <2> HIDE DEF new
  <2>4. rows' \in [Ids -> Row \cup {None}]
    <3>1. rows' = [rows EXCEPT ![p] = new]
      BY <1>3 DEF new
    <3> QED BY <1>1, <2>2, <3>1
  <2>5. ASSUME NEW q \in Ids, q # p, rows[q] # None
        PROVE  SameSettings(rows[q], rows'[q]) /\ rows'[q].cursor = rows[q].cursor 
               /\ (rows'[q].cron = None <=> rows'[q].nextRun = None)
    BY <1>1, <2>3, <2>5 DEF SameSettings
  <2>6. SameSettings(rows[p], rows'[p]) /\ rows'[p].cursor = rows[p].cursor /\ rows'[p].nextRun # None
        /\ rows'[p].cron # None
    BY <1>1, <2>1, <2>2, <2>3 DEF SameSettings
  <2>7. \A q \in Ids : Steady(q)
    BY <1>1, <2>1, <2>2, <2>3 DEF Steady
  <2> QED BY <2>4, <2>5, <2>6, <2>7
<1> QED BY <1>2, <1>3 DEF CursorMoves

LEMMA CursorMovesRows ==
  ASSUME RowsOK, CursorMoves, UNCHANGED <<now, mailbox, since, base>>
  PROVE  RowsOK'
<1>1. ASSUME NEW p \in Ids, rows'[p] # None PROVE WellFormed(rows[p])' /\ Len(base'[p]) = rows'[p].rev + 1
  <2>1. rows[p] # None /\ WellFormed(rows[p]) /\ Len(base[p]) = rows[p].rev + 1
    BY <1>1, CursorMovesAt DEF Steady, RowsOK
  <2>2. /\ SameSettings(rows[p], rows'[p]) /\ (rows'[p].cron = None <=> rows'[p].nextRun = None)
        /\ rows'[p] \in Row
    BY <1>1, <2>1, CursorMovesAt
  <2> QED BY <2>1, <2>2 DEF WellFormed, HasTrigger, SameSettings
<1>2. rows' \in [Ids -> Row \cup {None}]
  BY CursorMovesAt
<1> HIDE DEF CursorMoves
<1> QED BY <1>1, <1>2 DEF RowsOK

LEMMA SchedulerMail ==
  ASSUME RowsOK, WatcherOK, MailInv, CursorMoves, UNCHANGED <<mailbox, base, mail>>,
         faults \in Nat, faults' \in Nat, faults <= faults'
  PROVE  MailInv'
<1>1. ASSUME NEW p \in Ids PROVE WatchedOn(p)
  <2>1. /\ Steady(p) /\ base'[p] = base[p] /\ Len(base[p]) \in Nat /\ MarkAt(p) /\ mailbox' = mailbox
        /\ rows[p] # None => SameSettings(rows[p], rows'[p]) /\ rows'[p].cursor = rows[p].cursor
    BY CursorMovesAt DEF RowsOK, MailInv
  <2>2. MarkAt(p)'
    BY <2>1 DEF MarkAt, Steady, SameSettings
  <2>3. \A snap \in Row : SnapSound(p, snap) => SnapSound(p, snap)'
    BY <2>1 DEF SnapSound, Steady, SameSettings
  <2>4. rows'[p] # None => Handed(p, rows[p], rows'[p])
    BY <2>1 DEF Handed, Steady, SameSettings
  <2> QED BY <2>1, <2>2, <2>3, <2>4 DEF WatchedOn
<1> QED BY <1>1, OthersMail

-----------------------------------------------------------------------------
(* The watcher. *)

\* A step of the watcher moves the mail cursor of one row at most.
CheckpointMoves ==
    \/ rows' = rows
    \/ \E p \in Ids, n \in Nat : rows[p] # None /\ rows' = [rows EXCEPT ![p].cursor = n]

LEMMA CheckpointAt ==
  ASSUME RowsOK, NEW p \in Ids, rows[p] # None, NEW n \in Nat, rows' = [rows EXCEPT ![p].cursor = n]
  PROVE  /\ rows' \in [Ids -> Row \cup {None}]
         /\ rows'[p] # None /\ SameSettings(rows[p], rows'[p]) /\ rows'[p].nextRun = rows[p].nextRun
         /\ rows'[p].cursor = n
         /\ \A q \in Ids : q # p => rows'[q] = rows[q]
<1>1. rows \in [Ids -> Row \cup {None}] /\ None \notin Row /\ rows[p] \in Row
  BY ProgramsAssumption DEF RowsOK
<1> DEFINE new == [rows[p] EXCEPT !.cursor = n]
<1>2. new \in Row /\ SameSettings(rows[p], new) /\ new.nextRun = rows[p].nextRun /\ new.cursor = n
  BY <1>1 DEF Row, SameSettings
<1>3. rows' = [rows EXCEPT ![p] = new]
  OBVIOUS
<1> HIDE DEF new
<1>4. rows'[p] = new /\ (\A q \in Ids : q # p => rows'[q] = rows[q]) /\ rows' \in [Ids -> Row \cup {None}]
  BY <1>1, <1>2, <1>3
<1> QED BY <1>1, <1>2, <1>4 DEF SameSettings

LEMMA CheckpointMovesAt ==
  ASSUME RowsOK, CheckpointMoves
  PROVE  /\ rows' \in [Ids -> Row \cup {None}]
         /\ \A p \in Ids : Steady(p) /\ (rows[p] # None => /\ SameSettings(rows[p], rows'[p])
                                                           /\ rows'[p].nextRun = rows[p].nextRun)
<1>1. CASE rows' = rows
  BY <1>1 DEF SameSettings, Steady, RowsOK
<1>2. ASSUME NEW p \in Ids, NEW n \in Nat, rows[p] # None, rows' = [rows EXCEPT ![p].cursor = n]
      PROVE  /\ rows' \in [Ids -> Row \cup {None}]
             /\ \A q \in Ids : Steady(q) /\ (rows[q] # None => /\ SameSettings(rows[q], rows'[q])
                                                               /\ rows'[q].nextRun = rows[q].nextRun)
  <2>1. /\ rows' \in [Ids -> Row \cup {None}]
        /\ rows'[p] # None /\ SameSettings(rows[p], rows'[p]) /\ rows'[p].nextRun = rows[p].nextRun
        /\ \A q \in Ids : q # p => rows'[q] = rows[q]
    BY <1>2, CheckpointAt
  <2> QED BY <1>2, <2>1 DEF SameSettings, Steady
<1> QED BY <1>1, <1>2 DEF CheckpointMoves

LEMMA CheckpointMovesRows ==
  ASSUME RowsOK, CheckpointMoves, UNCHANGED <<now, mailbox, since, base>>
  PROVE  RowsOK'
<1>1. ASSUME NEW p \in Ids, rows'[p] # None PROVE WellFormed(rows[p])' /\ Len(base'[p]) = rows'[p].rev + 1
  <2>1. rows[p] # None /\ WellFormed(rows[p]) /\ Len(base[p]) = rows[p].rev + 1
    BY <1>1, CheckpointMovesAt DEF Steady, RowsOK
  <2>2. /\ SameSettings(rows[p], rows'[p]) /\ rows'[p].nextRun = rows[p].nextRun /\ rows'[p] \in Row
    BY <1>1, <2>1, CheckpointMovesAt
  <2> QED BY <2>1, <2>2 DEF WellFormed, HasTrigger, SameSettings
<1>2. rows' \in [Ids -> Row \cup {None}]
  BY CheckpointMovesAt
<1> HIDE DEF CheckpointMoves
<1> QED BY <1>1, <1>2 DEF RowsOK

LEMMA WatcherClock ==
  ASSUME RowsOK, SchedulerOK, ClockInv, CheckpointMoves, UNCHANGED <<now, since, sched>>
  PROVE  ClockInv'
<1>1. ASSUME NEW p \in Ids
      PROVE  CursorAt(p)' /\ FenceAt(p)' /\ \A occ \in Nat : Behind(p, occ) => Behind(p, occ)'
  <2>1. /\ Steady(p) /\ since'[p] = since[p] /\ now' = now /\ fence'[p] = fence[p] /\ handled' = handled
        /\ rows[p] # None => SameSettings(rows[p], rows'[p]) /\ rows'[p].nextRun = rows[p].nextRun
        /\ CursorAt(p) /\ FenceAt(p)
    BY CheckpointMovesAt DEF sched, ClockInv
  <2>2. /\ Clocked(p)' <=> Clocked(p)
        /\ Clocked(p) => /\ rows'[p].cron = rows[p].cron /\ rows'[p].nextRun = rows[p].nextRun
                         /\ rows'[p].enabled = rows[p].enabled
    BY <2>1 DEF Clocked, Steady, SameSettings
  <2>3. Clocked(p) => (Fenced(p)' <=> Fenced(p))
    BY <2>1, <2>2 DEF Fenced
  <2>4. CursorAt(p)'
    BY <2>1, <2>2 DEF CursorAt
  <2>5. FenceAt(p)'
    BY <2>1, <2>2, <2>3 DEF FenceAt
  <2>6. \A occ \in Nat : Behind(p, occ) => Behind(p, occ)'
    BY <2>1, <2>2, <2>3 DEF Behind
  <2> QED BY <2>4, <2>5, <2>6
<1>2. ClockOn
  BY <1>1 DEF ClockOn
<1> QED BY <1>2, AttemptsStay DEF sched

SnapOn(p) == \A snap \in Row : SnapSound(p, snap) => SnapSound(p, snap)'

\* A step that leaves the rows and the matches alone.
LEMMA StillMail ==
  ASSUME MailInv, UNCHANGED <<rows, base, mailbox, landed, from, faults>>
  PROVE  (\A p \in Ids : MarkAt(p)' /\ SnapOn(p)) /\ LandedSound' /\ MailNotLost'
<1>1. \A p \in Ids : MarkAt(p)'
  BY DEF MailInv, MarkAt
<1>2. \A p \in Ids : SnapOn(p)
  BY DEF SnapOn, SnapSound
<1>3. LandedSound'
  BY DEF MailInv, LandedSound, LandedAt, Life
<1>4. MailNotLost'
  BY DEF MailInv, MailNotLost, Live
<1> QED BY <1>1, <1>2, <1>3, <1>4

\* A scan that goes on over rows that are as they were.
LEMMA ScanOn ==
  ASSUME WatcherOK, MailInv, (scan # None /\ scan' # None) =>
             DOMAIN scan' \subseteq DOMAIN scan /\ \A p \in DOMAIN scan' : scan'[p] = scan[p] /\ SnapOn(p),
         scan' # None => scan # None
  PROVE  ScanSound'
<1> SUFFICES ASSUME scan' # None, NEW p \in DOMAIN scan' PROVE SnapSound(p, scan[p])'
  BY DEF ScanSound
<1>1. p \in DOMAIN scan /\ scan'[p] = scan[p] /\ SnapOn(p) /\ scan[p] \in Row /\ SnapSound(p, scan[p])
  BY DEF WatcherOK, MailInv, ScanSound
<1>2. PICK snap \in Row : snap = scan[p]
  BY <1>1
<1>3. SnapSound(p, snap)'
  BY <1>1, <1>2 DEF SnapOn
<1>4. scan'[p] = snap
  BY <1>1, <1>2
<1> QED BY <1>3, <1>4 DEF SnapSound

LEMMA StartScanMail ==
  ASSUME RowsOK, WatcherOK, MailInv, StartScan, UNCHANGED <<base, mailbox>>
  PROVE  MailInv' /\ WatcherOK'
<1>1. /\ scan = None /\ scan' = [p \in Watched |-> rows[p]] /\ UNCHANGED <<rows, check, failing, landed, from, faults>>
      /\ check = None
  BY DEF StartScan, MailInv, CheckSound
<1>2. (\A p \in Ids : MarkAt(p)' /\ SnapOn(p)) /\ LandedSound' /\ MailNotLost'
  BY <1>1, StillMail
<1>3. \A p \in Watched : p \in Ids /\ rows[p] \in Row /\ rows[p] # None /\ Len(base[p]) = rows[p].rev + 1 /\ MarkAt(p)
  BY DEF Watched, Live, RowsOK, MailInv
<1>4. ScanSound'
  <2> SUFFICES ASSUME NEW p \in Watched PROVE SnapSound(p, scan[p])'
    BY <1>1 DEF ScanSound
  <2>1. scan'[p] = rows[p] /\ rows'[p] = rows[p] /\ base'[p] = base[p] /\ mailbox' = mailbox /\ rows[p].rev \in Nat
    BY <1>1, <1>3 DEF Row
  <2> QED BY <1>3, <2>1 DEF SnapSound, MarkAt
<1>5. CheckSound'
  BY <1>1 DEF CheckSound
<1>6. WatcherOK'
  BY <1>1, <1>3 DEF WatcherOK
<1> QED BY <1>2, <1>4, <1>5, <1>6 DEF MailInv

LEMMA NextCheckMail ==
  ASSUME RowsOK, WatcherOK, MailInv, NextCheck, UNCHANGED <<base, mailbox>>
  PROVE  MailInv' /\ WatcherOK'
<1>1. scan # None /\ check = None /\ UNCHANGED <<rows, failing, landed, from, faults, base, mailbox>>
  BY DEF NextCheck
<1>2. (\A p \in Ids : MarkAt(p)' /\ SnapOn(p)) /\ LandedSound' /\ MailNotLost'
  BY <1>1, StillMail
<1>3. \A p \in DOMAIN scan : p \in Ids /\ scan[p] \in Row /\ SnapSound(p, scan[p]) /\ SnapOn(p)
  BY <1>1, <1>2 DEF WatcherOK, MailInv, ScanSound
<1>4. CASE scan' = None /\ UNCHANGED check
  BY <1>1, <1>2, <1>4 DEF MailInv, WatcherOK, ScanSound, CheckSound
<1>5. ASSUME NEW p \in DOMAIN scan,
             scan' = [q \in DOMAIN scan \ {p} |-> scan[q]],
             check' = Checking(IF scan[p].cursor = None THEN "head" ELSE "poll", p, scan[p], Len(mailbox), {}, None)
      PROVE MailInv' /\ WatcherOK'
  <2>1. PICK snap \in Row : snap = scan[p]
    BY <1>3
  <2>2. /\ check'.p = p /\ check'.snap = snap /\ check'.asked = Len(mailbox) /\ check'.phase \in {"head", "poll"}
        /\ check'.phase = "poll" => snap.cursor # None
        /\ check' \in Check
    BY <1>3, <1>5, <2>1 DEF Checking, Check, RowsOK
  <2>3. DOMAIN scan' = DOMAIN scan \ {p} /\ scan' # None
    <3>1. scan' \in [DOMAIN scan \ {p} -> Row] /\ DOMAIN scan \ {p} \in SUBSET Ids
      BY <1>3, <1>5
    <3> QED BY <3>1, MailWatcherAssumption
  <2>4. \A q \in DOMAIN scan' : q \in DOMAIN scan /\ scan'[q] = scan[q] /\ SnapOn(q)
    BY <1>3, <1>5, <2>3
  <2>5. ScanSound'
    BY <1>1, <2>3, <2>4, ScanOn
  <2>6. SnapSound(p, snap)'
    BY <1>3, <2>1 DEF SnapOn
  <2>7. SnapSound(p, snap) /\ snap.rev \in Nat /\ MarkAt(p) /\ p \in Ids
    BY <1>3, <2>1 DEF MailInv, Row
  <2>8. base[p][snap.rev + 1] <= Len(mailbox)
    <3>1. snap.rev + 1 \in DOMAIN base[p]
      BY <2>7 DEF SnapSound, RowsOK
    <3> QED BY <2>7, <3>1 DEF MarkAt
  <2>9. \A l \in landed : l.mail <= Len(mailbox)
    BY DEF MailInv, LandedSound, LandedAt
  <2>10. CheckSound'
    <3>1. Len(mailbox) \in Nat
      BY DEF RowsOK
    <3>2. snap.cursor # None => snap.cursor <= Len(mailbox)
      BY <2>7 DEF SnapSound
    <3> HIDE DEF SnapSound
    <3>3. SnapSound(check.p, check.snap)'
      BY <2>2, <2>6 DEF SnapSound
    <3> QED BY <1>1, <2>2, <2>3, <2>8, <2>9, <3>1, <3>2, <3>3 DEF CheckSound
  <2>11. WatcherOK'
    BY <1>1, <1>3, <2>2, <2>3, <2>4 DEF WatcherOK
  <2> QED BY <1>2, <2>5, <2>10, <2>11 DEF MailInv
<1> QED BY <1>4, <1>5 DEF NextCheck

\* A check that ends and leaves the rows and the matches alone.
LEMMA CheckEnds ==
  ASSUME RowsOK, WatcherOK, MailInv, UNCHANGED <<rows, base, mailbox, landed, from, faults, scan>>,
         check' = None, failing' \subseteq Ids
  PROVE  MailInv' /\ WatcherOK'
<1>1. (\A p \in Ids : MarkAt(p)' /\ SnapOn(p)) /\ LandedSound' /\ MailNotLost'
  BY StillMail
<1>2. \A p \in DOMAIN scan : scan # None => p \in Ids
  BY DEF WatcherOK
<1>3. ScanSound'
  BY <1>1, <1>2, ScanOn
<1>4. CheckSound'
  BY DEF CheckSound
<1>5. WatcherOK'
  BY DEF WatcherOK
<1> QED BY <1>1, <1>3, <1>4, <1>5 DEF MailInv

\* A check that ends with a checkpoint, past the matches of this life.
LEMMA CheckpointMail ==
  ASSUME RowsOK, WatcherOK, MailInv, check # None, check' = None,
         rows[check.p] # None, NEW n \in Nat, n <= Len(mailbox), check.asked <= n,
         rows[check.p].rev = check.snap.rev,
         rows' = [rows EXCEPT ![check.p].cursor = n], UNCHANGED <<base, mailbox, scan, faults>>
  PROVE  /\ CheckpointMoves /\ (\A p \in Ids : MarkAt(p)') /\ ScanSound' /\ CheckSound'
         /\ \A p \in Ids : p # check.p => rows'[p] = rows[p]
         /\ rows'[check.p] # None /\ SameSettings(rows[check.p], rows'[check.p]) /\ rows'[check.p].cursor = n
         /\ \A l \in landed : LandedAt(l)'
<1>1. PICK p \in Ids : p = check.p
  BY DEF WatcherOK, Check
<1>2. /\ rows'[p] # None /\ SameSettings(rows[p], rows'[p]) /\ rows'[p].cursor = n
      /\ \A q \in Ids : q # p => rows'[q] = rows[q]
  BY <1>1, CheckpointAt
<1>3. CheckpointMoves
  BY <1>1 DEF CheckpointMoves
<1>4. /\ scan # None /\ p \notin DOMAIN scan /\ base[p][rows[p].rev + 1] <= check.asked
      /\ \A l \in landed : l.p = p /\ l.life = Life => l.mail <= check.asked
  BY <1>1 DEF MailInv, CheckSound
<1>5. /\ check.asked \in Nat /\ Len(mailbox) \in Nat
      /\ rows[p].rev + 1 \in DOMAIN base[p] /\ base[p] \in Seq(Nat)
  <2>1. check.asked \in Nat
    BY DEF WatcherOK, Check
  <2>2. rows[p].rev \in Nat /\ Len(base[p]) = rows[p].rev + 1 /\ base[p] \in Seq(Nat)
    BY <1>1 DEF RowsOK, WellFormed, Row
  <2> QED BY <2>1, <2>2 DEF RowsOK
<1>6. base[p][rows[p].rev + 1] \in Nat
  BY <1>5
<1>7. MarkAt(p)'
  <2>1. \A k \in DOMAIN base[p] : base[p][k] <= Len(mailbox)
    BY DEF MailInv, MarkAt
  <2>2. base[p][rows[p].rev + 1] <= n
    BY <1>4, <1>5, <1>6, <1>1
  <2>3. rows'[p].rev = rows[p].rev
    BY <1>2 DEF SameSettings
  <2> QED BY <1>2, <2>1, <2>2, <2>3 DEF MarkAt
<1>8. ASSUME NEW q \in Ids, q # p PROVE MarkAt(q)' /\ SnapOn(q)
  <2>1. MarkAt(q)'
    BY <1>2, <1>8 DEF MailInv, MarkAt
  <2>2. SnapOn(q)
    BY <1>2, <1>8 DEF SnapOn, SnapSound
  <2> QED BY <2>1, <2>2
<1>9. ScanSound'
  <2>1. \A q \in DOMAIN scan : SnapOn(q)
    BY <1>4, <1>8 DEF WatcherOK
  <2> QED BY <2>1, ScanOn
<1>10. CheckSound'
  BY DEF CheckSound
<1>11. ASSUME NEW l \in landed PROVE LandedAt(l)'
  <2>1. l.p \in Ids /\ LandedAt(l) /\ l.mail \in Nat
    BY DEF WatcherOK, Landing, MailInv, LandedSound
  <2>2. CASE l.p # p
    BY <1>2, <2>1, <2>2 DEF LandedAt, Life
  <2>3. CASE l.p = p
    <3>1. l.life = Life => l.mail <= n
      BY <1>1, <1>4, <1>5, <2>1, <2>3
    <3> QED BY <1>2, <2>1, <2>3, <3>1 DEF LandedAt, Life
  <2> QED BY <2>2, <2>3
<1> QED BY <1>1, <1>2, <1>3, <1>7, <1>8, <1>9, <1>10, <1>11

LEMMA HeadReturnsMail ==
  ASSUME RowsOK, WatcherOK, MailInv, HeadReturns, UNCHANGED <<base, mailbox>>
  PROVE  MailInv' /\ WatcherOK' /\ CheckpointMoves
<1>1. /\ check # None /\ check' = None /\ UNCHANGED <<scan, landed, faults>> /\ failing' \subseteq Ids
      /\ check.p \in Ids /\ check.asked \in Nat /\ Len(mailbox) \in Nat
  BY DEF HeadReturns, CheckDone, Recovered, WatcherOK, Check, RowsOK
<1>2. CASE UNCHANGED <<rows, from>>
  BY <1>1, <1>2, CheckEnds DEF CheckpointMoves
<1>3. ASSUME NEW head \in check.asked .. Len(mailbox), ~UNCHANGED <<rows, from>>, Baseline(check.p, check.snap, head)
      PROVE MailInv' /\ WatcherOK' /\ CheckpointMoves
  <2>1. PICK p \in Ids : p = check.p
    BY <1>1
  <2>2. /\ rows[p] # None /\ rows[p].rev = check.snap.rev
        /\ rows' = [rows EXCEPT ![p].cursor = head] /\ from' = [from EXCEPT ![p] = head]
    BY <1>3, <2>1 DEF Baseline
  <2>3. head \in Nat /\ check.asked <= head /\ head <= Len(mailbox)
    BY <1>1
  <2>4. /\ CheckpointMoves /\ (\A q \in Ids : MarkAt(q)') /\ ScanSound' /\ CheckSound'
        /\ \A q \in Ids : q # p => rows'[q] = rows[q]
        /\ rows'[p].cursor = head
        /\ \A l \in landed : LandedAt(l)'
    BY <1>1, <2>1, <2>2, <2>3, CheckpointMail
  <2>5. MailNotLost'
    <3> SUFFICES ASSUME NEW q \in Ids, rows'[q] # None, rows'[q].enabled, rows'[q].filter # None,
                        rows'[q].cursor # None,
                        NEW i \in from'[q] + 1 .. rows'[q].cursor, mailbox[i] = rows'[q].filter
                 PROVE  \E l \in landed : l.p = q /\ l.mail = i /\ l.rev = rows'[q].rev
      BY <1>1 DEF MailNotLost, Live, Ids
    <3>1. CASE q = p
      <4>1. from'[p] = head
        BY <2>1, <2>2 DEF WatcherOK
      <4> QED BY <2>3, <2>4, <3>1, <4>1
    <3>2. CASE q # p
      <4>1. from'[q] = from[q] /\ rows'[q] = rows[q]
        BY <2>2, <2>4, <3>2 DEF WatcherOK
      <4> QED BY <4>1 DEF MailInv, MailNotLost, Live
    <3> QED BY <3>1, <3>2
  <2>6. WatcherOK'
    BY <1>1, <2>2, <2>3 DEF WatcherOK
  <2>7. LandedSound'
    BY <1>1, <2>4 DEF LandedSound
  <2> QED BY <2>4, <2>5, <2>6, <2>7 DEF MailInv
<1>4. UNCHANGED <<rows, from>> \/ \E head \in check.asked .. Len(mailbox) : Baseline(check.p, check.snap, head)
  BY DEF HeadReturns
<1> QED BY <1>2, <1>3, <1>4

LEMMA HistoryExpiredMail ==
  ASSUME RowsOK, WatcherOK, MailInv, HistoryExpired, UNCHANGED <<base, mailbox>>
  PROVE  MailInv' /\ WatcherOK'
<1>1. /\ check # None /\ check' = [check EXCEPT !.phase = "head", !.asked = Len(mailbox)]
      /\ UNCHANGED <<rows, scan, failing, landed, from, faults>>
      /\ check \in Check /\ Len(mailbox) \in Nat
  BY DEF HistoryExpired, WatcherOK, RowsOK
<1>2. (\A p \in Ids : MarkAt(p)' /\ SnapOn(p)) /\ LandedSound' /\ MailNotLost'
  BY <1>1, StillMail
<1>3. ScanSound'
  BY <1>1, <1>2, ScanOn DEF WatcherOK
<1>4. PICK p \in Ids, snap \in Row : p = check.p /\ snap = check.snap
  BY <1>1 DEF Check
<1>5. check'.p = p /\ check'.snap = snap /\ check'.phase = "head" /\ check'.asked = Len(mailbox) /\ check' \in Check
  BY <1>1, <1>4 DEF Check
<1>6. SnapSound(p, snap)' /\ scan # None /\ p \notin DOMAIN scan /\ base[p][snap.rev + 1] <= Len(mailbox)
  <2>1. SnapSound(p, snap) /\ scan # None /\ p \notin DOMAIN scan /\ snap.rev \in Nat
    BY <1>1, <1>4 DEF MailInv, CheckSound, Row
  <2>2. snap.rev + 1 \in DOMAIN base[p]
    BY <2>1 DEF SnapSound, RowsOK
  <2>3. base[p][snap.rev + 1] <= Len(mailbox)
    BY <2>2 DEF MailInv, MarkAt
  <2> QED BY <1>2, <2>1, <2>3 DEF SnapOn
<1>7. \A l \in landed : l.mail <= Len(mailbox)
  BY DEF MailInv, LandedSound, LandedAt
<1>8. CheckSound'
  <2>1. SnapSound(check.p, check.snap)'
    BY <1>5, <1>6 DEF SnapSound
  <2> QED BY <1>1, <1>5, <1>6, <1>7, <2>1 DEF CheckSound
<1>9. WatcherOK'
  BY <1>1, <1>5 DEF WatcherOK
<1> QED BY <1>2, <1>3, <1>8, <1>9 DEF MailInv

\* What the check knows of its row, as long as their revisions agree.
LEMMA CheckRow ==
  ASSUME RowsOK, WatcherOK, MailInv, check # None, check.phase \in {"poll", "gate"}
  PROVE  /\ check.p \in Ids /\ check.snap \in Row /\ check.asked \in Nat /\ scan # None
         /\ check.snap.cursor \in Nat /\ check.snap.cursor <= check.asked
         /\ (rows[check.p] # None /\ rows[check.p].rev = check.snap.rev) =>
                rows[check.p].filter = check.snap.filter /\ rows[check.p].cursor = check.snap.cursor
         /\ (rows[check.p] # None /\ rows[check.p].rev # check.snap.rev) => rows[check.p].cursor = None
         /\ check.snap.rev + 1 <= Len(base[check.p]) /\ base[check.p][check.snap.rev + 1] <= check.snap.cursor
<1>1. check.p \in Ids /\ check.snap \in Row /\ check.asked \in Nat
  BY DEF WatcherOK, Check
<1>2. CheckSound /\ SnapSound(check.p, check.snap)
  BY DEF MailInv, CheckSound
<1>3. check.snap.cursor # None /\ check.snap.cursor <= check.asked /\ scan # None
  BY <1>2 DEF CheckSound
<1>4. check.snap.cursor \in Nat
  BY <1>1, <1>3 DEF Row
<1> QED BY <1>1, <1>2, <1>3, <1>4 DEF SnapSound

\* A checkpoint loses no mail when all that matched up to it has landed, or the row is disabled.
LEMMA CheckpointKeeps ==
  ASSUME RowsOK, WatcherOK, MailInv, NEW p \in Ids, NEW n \in Nat, rows[p] # None, rows[p].cursor \in Nat,
         rows'[p] # None, SameSettings(rows[p], rows'[p]), rows'[p].cursor = n,
         \A q \in Ids : q # p => rows'[q] = rows[q],
         landed \subseteq landed', UNCHANGED <<mailbox, from>>,
         rows[p].enabled => \A i \in rows[p].cursor + 1 .. n : mailbox[i] = rows[p].filter =>
                                \E l \in landed' : l.p = p /\ l.mail = i /\ l.rev = rows[p].rev
  PROVE  MailNotLost'
<1> SUFFICES ASSUME NEW q \in Ids, rows'[q] # None, rows'[q].enabled, rows'[q].filter # None,
                    rows'[q].cursor # None,
                    NEW i \in from[q] + 1 .. rows'[q].cursor, mailbox[i] = rows'[q].filter
             PROVE  \E l \in landed' : l.p = q /\ l.mail = i /\ l.rev = rows'[q].rev
  BY DEF MailNotLost, Live, Ids
<1>1. CASE q # p
  <2>1. rows'[q] = rows[q]
    BY <1>1
  <2> QED BY <2>1 DEF MailInv, MailNotLost, Live
<1>2. CASE q = p
  <2>1. rows[p].enabled /\ rows[p].filter # None /\ mailbox[i] = rows[p].filter /\ rows'[p].rev = rows[p].rev
        /\ i \in from[p] + 1 .. n /\ from[p] \in Nat
    BY <1>2 DEF SameSettings, WatcherOK
  <2>2. CASE i <= rows[p].cursor
    <3>1. i \in from[p] + 1 .. rows[p].cursor /\ rows[p].cursor # None
      BY <2>1, <2>2, ProgramsAssumption
    <3>2. \E l \in landed : l.p = p /\ l.mail = i /\ l.rev = rows[p].rev
      BY <2>1, <3>1 DEF MailInv, MailNotLost, Live
    <3> QED BY <1>2, <2>1, <3>2
  <2>3. CASE ~(i <= rows[p].cursor)
    <3>1. i \in rows[p].cursor + 1 .. n
      BY <2>1, <2>3
    <3> QED BY <1>2, <2>1, <3>1
  <2> QED BY <2>2, <2>3
<1> QED BY <1>1, <1>2

LEMMA PollReturnsMail ==
  ASSUME RowsOK, WatcherOK, MailInv, PollReturns, UNCHANGED <<base, mailbox>>
  PROVE  MailInv' /\ WatcherOK' /\ CheckpointMoves
<1> DEFINE Goal == MailInv' /\ WatcherOK' /\ CheckpointMoves
<1>1. /\ check # None /\ check.phase = "poll" /\ rows[check.p] # None /\ StillMine(check.p, check.snap)
      /\ UNCHANGED <<scan, landed, from, faults>> /\ failing' \subseteq Ids
  BY DEF PollReturns, Recovered, WatcherOK
<1>2. /\ check.p \in Ids /\ check.snap \in Row /\ check.asked \in Nat /\ scan # None
      /\ check.snap.cursor \in Nat /\ check.snap.cursor <= check.asked
      /\ base[check.p][check.snap.rev + 1] <= check.snap.cursor
      /\ Len(mailbox) \in Nat
  BY <1>1, CheckRow DEF RowsOK
<1>3. PICK p \in Ids : p = check.p
  BY <1>2
<1>4. PICK row \in Row : row = rows[p]
  BY <1>1, <1>3 DEF RowsOK
<1>5. row.filter = check.snap.filter /\ row.rev = check.snap.rev /\ row.cursor = check.snap.cursor
  BY <1>1, <1>3, <1>4 DEF StillMine
<1>6. CASE check' = None /\ UNCHANGED rows
  BY <1>1, <1>6, CheckEnds DEF CheckpointMoves
<1>7. ASSUME NEW upto \in check.asked .. Len(mailbox), Matches(check.snap, upto) = {} \/ ~rows[p].enabled,
             SetHistory(p, rows[p], upto), check' = None
      PROVE Goal
  <2>1. upto \in Nat /\ check.asked <= upto /\ upto <= Len(mailbox)
    BY <1>2
  <2>2. rows' = [rows EXCEPT ![p].cursor = upto] /\ rows[p] # None
    BY <1>1, <1>3, <1>7 DEF SetHistory
  <2>3. /\ CheckpointMoves /\ (\A q \in Ids : MarkAt(q)') /\ ScanSound' /\ CheckSound'
        /\ \A q \in Ids : q # p => rows'[q] = rows[q]
        /\ rows'[p] # None /\ SameSettings(rows[p], rows'[p]) /\ rows'[p].cursor = upto
        /\ \A l \in landed : LandedAt(l)'
    BY <1>1, <1>3, <1>4, <1>5, <1>7, <2>1, <2>2, CheckpointMail
  <2>4. rows[p].enabled => \A i \in rows[p].cursor + 1 .. upto : mailbox[i] # rows[p].filter
    BY <1>4, <1>5, <1>7 DEF Matches
  <2>5. MailNotLost'
    BY <1>1, <1>2, <1>4, <1>5, <2>1, <2>2, <2>3, <2>4, CheckpointKeeps
  <2>6. WatcherOK'
    BY <1>1, <1>7 DEF WatcherOK
  <2>7. LandedSound'
    BY <1>1, <2>3 DEF LandedSound
  <2> QED BY <2>3, <2>5, <2>6, <2>7 DEF MailInv
<1>8. ASSUME NEW upto \in check.asked .. Len(mailbox), UNCHANGED rows,
             check' = Checking("gate", p, rows[p], check.asked, Matches(check.snap, upto), upto)
      PROVE Goal
  <2>1. upto \in Nat /\ check.asked <= upto /\ upto <= Len(mailbox)
    BY <1>2
  <2>2. (\A q \in Ids : MarkAt(q)' /\ SnapOn(q)) /\ LandedSound' /\ MailNotLost'
    BY <1>1, <1>8, StillMail
  <2>3. ScanSound'
    BY <1>1, <2>2, ScanOn DEF WatcherOK
  <2>4. /\ check'.p = p /\ check'.snap = row /\ check'.asked = check.asked /\ check'.phase = "gate"
        /\ check'.hits = Matches(check.snap, upto) /\ check'.upto = upto
    BY <1>4, <1>8 DEF Checking
  <2>5. Matches(check.snap, upto) \in SUBSET Nat
    BY <1>2, <2>1 DEF Matches
  <2>6. check' \in Check
    BY <1>2, <1>4, <1>8, <2>1, <2>5 DEF Checking, Check
  <2>7. Matches(check.snap, upto) = Matches(row, upto)
    BY <1>5 DEF Matches
  <2>8. /\ row.rev \in Nat /\ Len(base[p]) = row.rev + 1 /\ MarkAt(p) /\ row # None
    BY <1>1, <1>3, <1>4 DEF RowsOK, MailInv, Row
  <2>9. SnapSound(p, row)'
    BY <1>2, <1>4, <1>5, <1>8, <2>8 DEF SnapSound, MarkAt
  <2>10. scan # None /\ p \notin DOMAIN scan /\ base[p][row.rev + 1] <= check.asked
         /\ \A l \in landed : l.p = p /\ l.life = Life => l.mail <= check.asked
    BY <1>1, <1>3, <1>5 DEF MailInv, CheckSound
  <2>11. \A l \in landed : l.p = p /\ l.life = Life => l.mail <= row.cursor
    BY <1>2, <1>4, <1>5, <2>8, ProgramsAssumption DEF MailInv, LandedSound, LandedAt
  <2>12. row.cursor # None /\ row.cursor <= check.asked /\ upto # None
    BY <1>2, <1>5, <2>1, ProgramsAssumption
  <2>13. CheckSound'
    <3>1. SnapSound(check.p, check.snap)'
      BY <2>4, <2>9 DEF SnapSound
    <3>2. Matches(check.snap, check.upto)' = Matches(row, upto)
      BY <2>4 DEF Matches
    <3> HIDE DEF Matches
    <3> QED BY <1>1, <1>2, <2>1, <2>4, <2>7, <2>10, <2>11, <2>12, <3>1, <3>2 DEF CheckSound, Life
  <2>14. WatcherOK'
    BY <1>1, <2>6 DEF WatcherOK
  <2> QED BY <1>8, <2>2, <2>3, <2>13, <2>14 DEF MailInv, CheckpointMoves
<1>9. \/ check' = None /\ UNCHANGED rows
      \/ \E upto \in check.asked .. Len(mailbox) :
            \/ /\ Matches(check.snap, upto) = {} \/ ~rows[p].enabled
               /\ SetHistory(p, rows[p], upto) /\ check' = None
            \/ UNCHANGED rows
               /\ check' = Checking("gate", p, rows[p], check.asked, Matches(check.snap, upto), upto)
  BY <1>3 DEF PollReturns
<1> HIDE DEF Goal
<1>10. Goal
  BY <1>6, <1>7, <1>8, <1>9 DEF Goal
<1> QED BY <1>10 DEF Goal

\* What waits at the gate came after the snapshot's cursor, and lands as such.
LEMMA GateRow ==
  ASSUME RowsOK, WatcherOK, SchedulerOK, MailInv, check # None, check.phase = "gate"
  PROVE  /\ check.p \in Ids /\ check.snap \in Row /\ check.asked \in Nat /\ check.upto \in Nat
         /\ check.asked <= check.upto /\ check.upto <= Len(mailbox) /\ Len(mailbox) \in Nat
         /\ check.hits = Matches(check.snap, check.upto)
         /\ \A i \in check.hits : i \in Nat /\ check.snap.cursor < i /\ i <= check.upto
         /\ \A l \in landed : l.p = check.p /\ l.life = Life => l.mail <= check.snap.cursor
<1>1. /\ check.p \in Ids /\ check.snap \in Row /\ check.asked \in Nat /\ check.upto \in Nat \cup {None}
      /\ Len(mailbox) \in Nat /\ CheckSound
  BY DEF WatcherOK, Check, RowsOK, MailInv
<1>2. /\ check.upto # None /\ check.asked <= check.upto /\ check.upto <= Len(mailbox)
      /\ check.hits = Matches(check.snap, check.upto)
      /\ \A l \in landed : l.p = check.p /\ l.life = Life => l.mail <= check.snap.cursor
  BY <1>1 DEF CheckSound
<1>3. check.snap.cursor \in Nat
  BY CheckRow
<1> QED BY <1>1, <1>2, <1>3 DEF Matches

LEMMA LandsSound ==
  ASSUME RowsOK, WatcherOK, SchedulerOK, MailInv, check # None, check.phase = "gate", Lands
  PROVE  /\ landed \subseteq landed' /\ landed' \subseteq Landing
         /\ \A i \in check.hits : [p |-> check.p, mail |-> i, rev |-> check.snap.rev, life |-> Life] \in landed'
         /\ \A l \in landed' : l \in landed \/ (/\ l.p = check.p /\ l.rev = check.snap.rev /\ l.life = Life
                                                /\ l.mail \in check.hits)
<1>1. \A i \in check.hits : [p |-> check.p, mail |-> i, rev |-> check.snap.rev, life |-> Life] \in Landing
  BY GateRow DEF Row, Landing, Life, SchedulerOK
<1> QED BY <1>1 DEF Lands, WatcherOK

\* A landing that the row's cursor, if it has one, is past.
LEMMA NewLanding ==
  ASSUME RowsOK, WatcherOK, SchedulerOK, MailInv, check # None, check.phase = "gate",
         NEW l, l.p = check.p, l.rev = check.snap.rev, l.life = Life, l.mail \in check.hits,
         UNCHANGED <<base, mailbox>>, Life <= Life',
         Life' # Life \/ rows'[check.p] = None \/ rows'[check.p].cursor = None
            \/ (rows'[check.p].cursor \in Nat /\ check.upto <= rows'[check.p].cursor)
  PROVE  LandedAt(l)'
<1>1. /\ check.p \in Ids /\ check.snap \in Row /\ check.upto \in Nat /\ check.upto <= Len(mailbox)
      /\ Len(mailbox) \in Nat /\ l.mail \in Nat /\ check.snap.cursor < l.mail /\ l.mail <= check.upto
  BY GateRow
<1>2. /\ check.snap.cursor \in Nat /\ check.snap.rev + 1 <= Len(base[check.p])
      /\ base[check.p][check.snap.rev + 1] <= check.snap.cursor
  BY CheckRow
<1>3. base[check.p][check.snap.rev + 1] \in Nat
  <2>1. base[check.p] \in Seq(Nat) /\ check.snap.rev \in Nat
    BY <1>1 DEF RowsOK, Row
  <2>2. check.snap.rev + 1 \in DOMAIN base[check.p]
    BY <1>2, <2>1
  <2> QED BY <2>1, <2>2
<1>4. base[l.p][l.rev + 1] < l.mail /\ l.mail <= Len(mailbox) /\ l.rev + 1 <= Len(base[l.p])
  BY <1>1, <1>2, <1>3
<1>5. (l.life = Life' /\ rows'[l.p] # None /\ rows'[l.p].cursor # None) => l.mail <= rows'[l.p].cursor
  BY <1>1
<1> QED BY <1>4, <1>5 DEF LandedAt

LEMMA GateReturnsMail ==
  ASSUME RowsOK, WatcherOK, SchedulerOK, MailInv, GateReturns, UNCHANGED <<base, mailbox>>
  PROVE  MailInv' /\ WatcherOK' /\ CheckpointMoves
<1> DEFINE Goal == MailInv' /\ WatcherOK' /\ CheckpointMoves
<1>1. /\ check # None /\ check.phase = "gate" /\ check' = None
      /\ UNCHANGED <<scan, from, faults, base, mailbox>> /\ failing' \subseteq Ids
  BY DEF GateReturns, CheckDone, Recovered, WatcherOK
<1>2. CASE UNCHANGED <<rows, landed>>
  BY <1>1, <1>2, CheckEnds DEF CheckpointMoves
<1>3. PICK p \in Ids, snap \in Row, upto \in Nat : p = check.p /\ snap = check.snap /\ upto = check.upto
  BY <1>1, GateRow
<1>4. /\ check.asked \in Nat /\ check.asked <= upto /\ upto <= Len(mailbox) /\ Len(mailbox) \in Nat
      /\ check.hits = Matches(snap, upto)
      /\ snap.cursor \in Nat /\ snap.cursor <= check.asked
      /\ (rows[p] # None /\ rows[p].rev = snap.rev) => rows[p].filter = snap.filter /\ rows[p].cursor = snap.cursor
      /\ (rows[p] # None /\ rows[p].rev # snap.rev) => rows[p].cursor = None
  BY <1>1, <1>3, GateRow, CheckRow
<1>5. (Revoked(p) /\ UNCHANGED landed) \/ (~Revoked(p) /\ Lands)
        \/ UNCHANGED <<rows, landed>>
  BY <1>3 DEF GateReturns
<1>6. SetHistory(p, snap, upto) \/ UNCHANGED <<rows, landed>>
  BY <1>3 DEF GateReturns
<1>7. ASSUME landed \subseteq landed', landed' \subseteq Landing,
             \A l \in landed' : l \in landed \/ (/\ l.p = p /\ l.rev = snap.rev /\ l.life = Life
                                                 /\ l.mail \in check.hits),
             SetHistory(p, snap, upto),
             ~Revoked(p) => \A i \in check.hits : \E l \in landed' : l.p = p /\ l.mail = i /\ l.rev = snap.rev
      PROVE Goal
  <2>1. WatcherOK'
    BY <1>1, <1>7 DEF WatcherOK
  <2>2. CASE rows[p] # None /\ rows[p].rev = snap.rev
    <3>1. rows' = [rows EXCEPT ![p].cursor = upto]
      BY <1>7, <2>2 DEF SetHistory
    <3>2. /\ CheckpointMoves /\ (\A q \in Ids : MarkAt(q)') /\ ScanSound' /\ CheckSound'
          /\ \A q \in Ids : q # p => rows'[q] = rows[q]
          /\ rows'[p] # None /\ SameSettings(rows[p], rows'[p]) /\ rows'[p].cursor = upto
          /\ \A l \in landed : LandedAt(l)'
      BY <1>1, <1>3, <1>4, <2>2, <3>1, CheckpointMail
    <3>3. rows[p].enabled => \A i \in rows[p].cursor + 1 .. upto : mailbox[i] = rows[p].filter =>
                                \E l \in landed' : l.p = p /\ l.mail = i /\ l.rev = rows[p].rev
      <4> SUFFICES ASSUME rows[p].enabled, NEW i \in rows[p].cursor + 1 .. upto, mailbox[i] = rows[p].filter
                   PROVE  \E l \in landed' : l.p = p /\ l.mail = i /\ l.rev = rows[p].rev
        OBVIOUS
      <4>1. i \in check.hits
        BY <1>4, <2>2 DEF Matches
      <4>2. ~Revoked(p)
        BY <2>2 DEF Revoked, Live
      <4> QED BY <1>7, <2>2, <4>1, <4>2
    <3>4. MailNotLost'
      BY <1>1, <1>4, <1>7, <2>2, <3>2, <3>3, CheckpointKeeps
    <3>5. LandedSound'
      <4> SUFFICES ASSUME NEW l \in landed' PROVE LandedAt(l)'
        BY DEF LandedSound
      <4>1. CASE l \in landed
        BY <3>2, <4>1
      <4>2. CASE l.p = p /\ l.rev = snap.rev /\ l.life = Life /\ l.mail \in check.hits
        <5>1. Life' = Life /\ Life <= Life' /\ rows'[check.p].cursor \in Nat /\ check.upto <= rows'[check.p].cursor
          BY <1>1, <1>3, <3>2 DEF Life, SchedulerOK
        <5> QED BY <1>1, <1>3, <4>2, <5>1, NewLanding
      <4> QED BY <1>7, <4>1, <4>2
    <3> QED BY <2>1, <3>2, <3>4, <3>5 DEF MailInv
  <2>3. CASE ~(rows[p] # None /\ rows[p].rev = snap.rev)
    <3>1. rows' = rows
      BY <1>7, <2>3 DEF SetHistory
    <3>2. \A q \in Ids : MarkAt(q)' /\ SnapOn(q)
      BY <1>1, <3>1 DEF MailInv, MarkAt, SnapOn, SnapSound
    <3>3. ScanSound' /\ CheckSound'
      BY <1>1, <3>2, ScanOn DEF CheckSound, WatcherOK
    <3>4. MailNotLost'
      BY <1>1, <1>7, <3>1 DEF MailInv, MailNotLost, Live
    <3>5. LandedSound'
      <4> SUFFICES ASSUME NEW l \in landed' PROVE LandedAt(l)'
        BY DEF LandedSound
      <4>1. CASE l \in landed
        BY <1>1, <3>1, <4>1 DEF MailInv, LandedSound, LandedAt, Life
      <4>2. CASE l.p = p /\ l.rev = snap.rev /\ l.life = Life /\ l.mail \in check.hits
        <5>1. Life <= Life' /\ (rows'[check.p] = None \/ rows'[check.p].cursor = None)
          BY <1>1, <1>3, <1>4, <2>3, <3>1 DEF Life, SchedulerOK
        <5> QED BY <1>1, <1>3, <4>2, <5>1, NewLanding
      <4> QED BY <1>7, <4>1, <4>2
    <3> QED BY <2>1, <3>1, <3>2, <3>3, <3>4, <3>5 DEF MailInv, CheckpointMoves
  <2> QED BY <2>2, <2>3
<1>8. CASE SetHistory(p, snap, upto) /\ Revoked(p) /\ UNCHANGED landed
  <2>1. landed \subseteq landed' /\ landed' \subseteq Landing
    BY <1>8 DEF WatcherOK
  <2> HIDE DEF Goal
  <2>2. Goal
    BY <1>7, <1>8, <2>1
  <2> QED BY <2>2 DEF Goal
<1>9. CASE SetHistory(p, snap, upto) /\ ~Revoked(p) /\ Lands
  <2>1. /\ landed \subseteq landed' /\ landed' \subseteq Landing
        /\ \A i \in check.hits : [p |-> p, mail |-> i, rev |-> snap.rev, life |-> Life] \in landed'
        /\ \A l \in landed' : l \in landed \/ (/\ l.p = p /\ l.rev = snap.rev /\ l.life = Life
                                               /\ l.mail \in check.hits)
    BY <1>1, <1>3, <1>9, LandsSound
  <2>2. \A i \in check.hits : \E l \in landed' : l.p = p /\ l.mail = i /\ l.rev = snap.rev
    BY <2>1
  <2> HIDE DEF Goal
  <2>3. Goal
    BY <1>7, <1>9, <2>1, <2>2
  <2> QED BY <2>3 DEF Goal
<1> HIDE DEF Goal
<1>10. Goal
  BY <1>2, <1>5, <1>6, <1>8, <1>9 DEF Goal
<1> QED BY <1>10 DEF Goal

\* The matches land and a new life begins: nothing that landed counts for it.
LEMMA LandsAnew ==
  ASSUME RowsOK, WatcherOK, SchedulerOK, MailInv, check # None, check.phase = "gate", Lands,
         UNCHANGED <<rows, base, mailbox, from>>, faults' = faults + 1
  PROVE  LandedSound' /\ MailNotLost' /\ landed' \subseteq Landing
<1>1. /\ landed \subseteq landed' /\ landed' \subseteq Landing
      /\ \A l \in landed' : l \in landed \/ (/\ l.p = check.p /\ l.rev = check.snap.rev /\ l.life = Life
                                             /\ l.mail \in check.hits)
  BY LandsSound
<1>2. Life \in Nat /\ Life' = Life + 1 /\ Life <= Life' /\ Life' # Life
  BY DEF Life, SchedulerOK
<1>3. LandedSound'
  <2> SUFFICES ASSUME NEW l \in landed' PROVE LandedAt(l)'
    BY DEF LandedSound
  <2>1. CASE l \in landed
    <3>1. LandedAt(l) /\ l.life \in Nat
      BY <2>1 DEF MailInv, LandedSound, WatcherOK, Landing
    <3> HIDE DEF Life
    <3> QED BY <1>2, <3>1 DEF LandedAt
  <2>2. CASE l.p = check.p /\ l.rev = check.snap.rev /\ l.life = Life /\ l.mail \in check.hits
    BY <1>2, <2>2, NewLanding
  <2> QED BY <1>1, <2>1, <2>2
<1>4. MailNotLost'
  BY <1>1 DEF MailInv, MailNotLost, Live
<1> QED BY <1>1, <1>3, <1>4

LEMMA WatcherStep ==
  ASSUME RowsOK, WatcherOK, SchedulerOK, ClockInv, MailInv, WatcherNext, UNCHANGED <<now, mailbox, since, base, sched>>
  PROVE  RowsOK' /\ WatcherOK' /\ SchedulerOK' /\ ClockInv' /\ MailInv' /\ CheckpointMoves
<1> DEFINE Goal == MailInv' /\ WatcherOK' /\ CheckpointMoves /\ faults' \in Nat
<1>1. ASSUME StartScan \/ NextCheck \/ HistoryExpired PROVE Goal
  <2>1. MailInv' /\ WatcherOK'
    BY <1>1, StartScanMail, NextCheckMail, HistoryExpiredMail
  <2> QED BY <1>1, <2>1 DEF StartScan, NextCheck, HistoryExpired, CheckpointMoves, SchedulerOK
<1>2. ASSUME HeadReturns PROVE Goal
  BY <1>2, HeadReturnsMail DEF HeadReturns, SchedulerOK
<1>3. ASSUME PollReturns PROVE Goal
  BY <1>3, PollReturnsMail DEF PollReturns, SchedulerOK
<1>4. ASSUME GateReturns PROVE Goal
  BY <1>4, GateReturnsMail DEF GateReturns, SchedulerOK
<1>5. ASSUME PollLost \/ GmailFails PROVE Goal
  <2>1. UNCHANGED <<rows, landed, from, faults, scan>> /\ check' = None /\ failing' \subseteq Ids
    BY <1>5 DEF PollLost, GmailFails, CheckDone, Recovered, WatcherOK, Check
  <2>2. MailInv' /\ WatcherOK'
    BY <2>1, CheckEnds
  <2> QED BY <2>1, <2>2 DEF CheckpointMoves, SchedulerOK
<1>6. ASSUME CheckpointRefused PROVE Goal
  <2>1. /\ check # None /\ check.phase = "gate" /\ Lands /\ faults' = faults + 1 /\ check' = None
        /\ UNCHANGED <<rows, from, scan>> /\ failing' \subseteq Ids
    BY <1>6 DEF CheckpointRefused, CheckDone, Fault, WatcherOK, Check
  <2>2. LandedSound' /\ MailNotLost' /\ landed' \subseteq Landing
    BY <2>1, LandsAnew
  <2>3. \A p \in Ids : MarkAt(p)' /\ SnapOn(p)
    BY <2>1 DEF MailInv, MarkAt, SnapOn, SnapSound
  <2>4. ScanSound' /\ CheckSound'
    BY <2>1, <2>3, ScanOn DEF CheckSound, WatcherOK
  <2>5. WatcherOK'
    BY <2>1, <2>2 DEF WatcherOK
  <2> QED BY <2>1, <2>2, <2>3, <2>4, <2>5 DEF MailInv, CheckpointMoves, SchedulerOK
<1> HIDE DEF Goal
<1>7. Goal
  BY <1>1, <1>2, <1>3, <1>4, <1>5, <1>6 DEF WatcherNext
<1>8. SchedulerOK'
  BY <1>7 DEF Goal, SchedulerOK, sched
<1> QED BY <1>7, <1>8, CheckpointMovesRows, WatcherClock DEF Goal

-----------------------------------------------------------------------------
(* The clock, the mailbox and the crash. *)

LEMMA TickStep ==
  ASSUME IInv, Tick
  PROVE  IInv'
<1>1. /\ RowsOK /\ ProposalsOK /\ SchedulerOK /\ WatcherOK
      /\ now' = now + 1 /\ UNCHANGED <<mailbox, faults, store, sched, mail>>
  BY TypeParts DEF IInv, Tick
<1>2. RowsOK'
  BY <1>1 DEF RowsOK, store, WellFormed, HasTrigger
<1>3. ProposalsOK' /\ SchedulerOK' /\ WatcherOK'
  BY <1>1 DEF ProposalsOK, SchedulerOK, WatcherOK, store, sched, mail
<1>4. OnePending'
  BY <1>1 DEF IInv, OnePending, store
<1>5. now \in Nat /\ \A p \in Ids : since[p] \in Nat /\ (fence[p] # None => fence[p].at \in Nat)
  BY <1>1 DEF RowsOK, SchedulerOK, Fence
<1>6. ASSUME NEW p \in Ids PROVE CursorAt(p)' /\ FenceAt(p)' /\ \A occ \in Nat : Behind(p, occ) => Behind(p, occ)'
  <2>1. CursorAt(p) /\ FenceAt(p)
    BY DEF IInv, ClockInv
  <2>2. CursorAt(p)'
    BY <1>1, <1>5, <2>1 DEF CursorAt, Clocked, store, sched
  <2>3. FenceAt(p)'
    BY <1>1, <1>5, <2>1 DEF FenceAt, Clocked, Fenced, store, sched
  <2>4. \A occ \in Nat : Behind(p, occ) => Behind(p, occ)'
    BY <1>1, <1>5 DEF Behind, Clocked, Fenced, store, sched
  <2> QED BY <2>2, <2>3, <2>4
<1>7. ClockInv'
  <2>1. ClockOn
    BY <1>6 DEF ClockOn
  <2> QED BY <1>1, <2>1, AttemptsStay DEF IInv, sched
<1>8. MailInv'
  <2>1. /\ UNCHANGED <<rows, base, mailbox, landed, from, faults>> /\ scan' = scan /\ check' = check
        /\ MailInv
    BY <1>1 DEF store, mail, IInv
  <2>2. (\A p \in Ids : MarkAt(p)' /\ SnapOn(p)) /\ LandedSound' /\ MailNotLost'
    BY <2>1, StillMail
  <2>3. ScanSound' /\ CheckSound'
    BY <2>1 DEF MailInv, ScanSound, CheckSound, SnapSound, Matches, Life
  <2> QED BY <2>2, <2>3 DEF MailInv
<1> QED BY <1>2, <1>3, <1>4, <1>7, <1>8, TypePartsNext DEF IInv

LEMMA ArriveStep ==
  ASSUME IInv, Arrive
  PROVE  IInv'
<1>1. /\ RowsOK /\ ProposalsOK /\ SchedulerOK /\ WatcherOK /\ MailInv
      /\ UNCHANGED <<now, faults, store, sched, mail>>
  BY TypeParts DEF IInv, Arrive
<1>2. PICK f \in Filters : mailbox' = Append(mailbox, f)
  BY DEF Arrive
<1>3. /\ mailbox' \in Seq(Filters) /\ Len(mailbox) \in Nat /\ Len(mailbox') = Len(mailbox) + 1
      /\ \A i \in 1 .. Len(mailbox) : mailbox'[i] = mailbox[i]
  BY <1>1, <1>2 DEF RowsOK
<1>4. RowsOK'
  BY <1>1, <1>3 DEF RowsOK, store, WellFormed, HasTrigger
<1>5. ProposalsOK' /\ SchedulerOK' /\ WatcherOK' /\ OnePending'
  BY <1>1 DEF ProposalsOK, SchedulerOK, WatcherOK, store, sched, mail, IInv, OnePending
<1>6. ClockInv'
  <2>1. UNCHANGED <<now, since, rows, fence, handled, turns, timers, spent>> /\ ClockInv
    BY <1>1 DEF store, sched, IInv
  <2>2. ClockOn
    BY <1>1, <2>1, ScanIdleClock
  <2> QED BY <1>1, <2>1, <2>2, AttemptsStay
<1>7. UNCHANGED <<rows, base, scan, check, landed, from>> /\ Life' = Life /\ faults' = faults
  BY <1>1 DEF store, mail, Life
<1>8. \A n \in Nat : n <= Len(mailbox) => n <= Len(mailbox')
  BY <1>3
<1>9. ASSUME NEW p \in Ids PROVE MarkAt(p)' /\ SnapOn(p)
  <2>1. /\ MarkAt(p) /\ base[p] \in Seq(Nat) /\ rows'[p] = rows[p] /\ base'[p] = base[p]
        /\ rows[p] # None => rows[p].cursor \in Nat \cup {None}
    BY <1>1, <1>7 DEF MailInv, RowsOK, WellFormed, Row
  <2>2. \A k \in DOMAIN base[p] : base[p][k] \in Nat
    BY <2>1
  <2>3. MarkAt(p)'
    BY <1>8, <2>1, <2>2 DEF MarkAt
  <2>4. \A snap \in Row : snap.cursor \in Nat \cup {None}
    BY DEF Row
  <2>5. SnapOn(p)
    BY <1>8, <2>1, <2>4 DEF SnapOn, SnapSound
  <2> QED BY <2>3, <2>5
<1>10. ScanSound'
  BY <1>1, <1>7, <1>9, ScanOn DEF WatcherOK
<1>11. LandedSound'
  BY <1>1, <1>7, <1>8 DEF MailInv, LandedSound, LandedAt, WatcherOK, Landing
<1>12. MailNotLost'
  <2> SUFFICES ASSUME NEW p \in Ids, rows[p] # None, rows[p].enabled, rows[p].filter # None, rows[p].cursor # None,
                      NEW i \in from[p] + 1 .. rows[p].cursor, mailbox'[i] = rows[p].filter
               PROVE  \E l \in landed : l.p = p /\ l.mail = i /\ l.rev = rows[p].rev
    BY <1>7 DEF MailNotLost, Live, Ids
  <2>1. rows[p].cursor \in Nat /\ rows[p].cursor <= Len(mailbox) /\ from[p] \in Nat
    BY <1>1 DEF RowsOK, WellFormed, Row, WatcherOK, MailInv, MarkAt
  <2>2. i \in 1 .. Len(mailbox)
    BY <1>3, <2>1
  <2>3. mailbox[i] = rows[p].filter
    BY <1>3, <2>2
  <2> QED BY <1>1, <2>3 DEF MailInv, MailNotLost, Live
<1>13. CheckSound'
  <2> SUFFICES ASSUME check # None PROVE CheckSound'
    BY <1>7 DEF CheckSound
  <2>1. CheckSound /\ check \in Check
    BY <1>1 DEF MailInv, WatcherOK
  <2>2. SnapSound(check.p, check.snap)'
    <3>1. PICK p \in Ids, snap \in Row : p = check.p /\ snap = check.snap
      BY <2>1 DEF Check
    <3>2. SnapSound(p, snap)'
      BY <1>9, <2>1, <3>1 DEF SnapOn, CheckSound
    <3> QED BY <1>7, <3>1, <3>2 DEF SnapSound
  <2>3. check.asked \in Nat /\ check.upto \in Nat \cup {None}
    BY <2>1 DEF Check
  <2>4. check.phase = "gate" => Matches(check.snap, check.upto)' = Matches(check.snap, check.upto)
    <3> SUFFICES ASSUME check.phase = "gate" PROVE Matches(check.snap, check.upto)' = Matches(check.snap, check.upto)
      OBVIOUS
    <3>1. check.upto \in Nat /\ check.upto <= Len(mailbox) /\ check.snap.cursor \in Nat
      BY <1>1, GateRow, CheckRow
    <3>2. \A i \in check.snap.cursor + 1 .. check.upto : mailbox'[i] = mailbox[i]
      BY <1>3, <3>1
    <3> QED BY <1>7, <3>2 DEF Matches
  <2> HIDE DEF Matches, SnapSound
  <2> QED BY <1>7, <1>8, <2>1, <2>2, <2>3, <2>4 DEF CheckSound
<1> QED BY <1>4, <1>5, <1>6, <1>9, <1>10, <1>11, <1>12, <1>13, TypePartsNext DEF IInv, MailInv

LEMMA CrashStep ==
  ASSUME IInv, Crash
  PROVE  IInv'
<1>1. /\ RowsOK /\ ProposalsOK /\ SchedulerOK /\ WatcherOK /\ MailInv /\ ClockInv
      /\ UNCHANGED <<now, mailbox, store, from>> /\ UNCHANGED <<active, handled>>
      /\ fence' = [p \in Ids |-> None] /\ turns' = {} /\ timers' = {} /\ attached' = FALSE /\ spent' = {}
      /\ scan' = None /\ check' = None /\ failing' = {} /\ faults' = faults + 1
  BY TypeParts DEF IInv, Crash, Fault, Forget
<1>2. RowsOK'
  BY <1>1 DEF RowsOK, store, WellFormed, HasTrigger
<1>3. ProposalsOK' /\ SchedulerOK' /\ OnePending'
  <2>1. ProposalsOK' /\ OnePending'
    BY <1>1 DEF ProposalsOK, store, IInv, OnePending
  <2>2. /\ turns' \cup timers' \subseteq Turn /\ \A t \in turns' \cup timers' : t.attempt <= Retries
        /\ handled' \cup spent' \subseteq Firing /\ faults' \in Nat
    BY <1>1 DEF SchedulerOK
  <2>3. attached' \in BOOLEAN /\ active' \in BOOLEAN
    BY <1>1, Zenon DEF SchedulerOK
  <2>4. fence' \in [Ids -> Fence \cup {None}] /\ \A p \in Ids : fence'[p] = None
    BY <1>1
  <2>5. SchedulerOK'
    BY <2>2, <2>4, <2>3 DEF SchedulerOK
  <2> QED BY <2>1, <2>5
<1>4. ClockInv'
  <2>1. ASSUME NEW p \in Ids PROVE CursorAt(p)' /\ FenceAt(p)'
    <3>1. /\ CursorAt(p) /\ since[p] <= now /\ fence'[p] = None
          /\ rows'[p] = rows[p] /\ since'[p] = since[p] /\ now' = now /\ handled' = handled
      BY <1>1 DEF ClockInv, FenceAt, store
    <3>2. CursorAt(p)'
      BY <3>1 DEF CursorAt, Clocked
    <3>3. FenceAt(p)'
      BY <3>1 DEF FenceAt, Fenced
    <3> QED BY <3>2, <3>3
  <2>2. AttemptsSound' /\ PaidOnce'
    BY <1>1 DEF AttemptsSound, PaidOnce
  <2> QED BY <2>1, <2>2 DEF ClockInv
<1>5. UNCHANGED <<rows, base>>
  BY <1>1 DEF store
<1>6. LandedSound' /\ MailNotLost' /\ landed' \subseteq Landing
  <2>1. CASE landed' = landed
    <3>1. ASSUME NEW l \in landed PROVE LandedAt(l)'
      <4>1. LandedAt(l) /\ l.life \in Nat /\ Life \in Nat /\ Life' = Life + 1
        BY <1>1 DEF MailInv, LandedSound, WatcherOK, Landing, Life, SchedulerOK
      <4> HIDE DEF Life
      <4> QED BY <1>1, <1>5, <4>1 DEF LandedAt
    <3>2. MailNotLost'
      BY <1>1, <1>5, <2>1 DEF MailInv, MailNotLost, Live
    <3> QED BY <1>1, <2>1, <3>1, <3>2 DEF LandedSound, WatcherOK
  <2>2. CASE check # None /\ check.phase = "gate" /\ Lands
    BY <1>1, <1>5, <2>2, LandsAnew
  <2> QED BY <2>1, <2>2 DEF Crash
<1>7. \A p \in Ids : MarkAt(p)'
  BY <1>1, <1>5 DEF MailInv, MarkAt
<1>8. MailInv'
  BY <1>1, <1>6, <1>7 DEF MailInv, ScanSound, CheckSound
<1>9. WatcherOK'
  BY <1>1, <1>6 DEF WatcherOK
<1> QED BY <1>2, <1>3, <1>4, <1>8, <1>9, TypePartsNext DEF IInv

-----------------------------------------------------------------------------
(* The invariant. *)

LEMMA InitHolds ==
  ASSUME Init
  PROVE  IInv
<1>1. PICK seed \in Seeds \cup {None} :
        /\ rows = [p \in Ids |-> IF p = 1 /\ seed # None THEN Created(seed) ELSE None]
        /\ since = [p \in Ids |-> now]
        /\ base = [p \in Ids |-> IF p = 1 /\ seed # None THEN <<0>> ELSE <<>>]
  BY DEF Init, ProgramsInit
<1>2. /\ now = 1 /\ mailbox = <<>> /\ proposals = <<>> /\ minted = 1 /\ edits = 0
      /\ fence = [p \in Ids |-> None] /\ turns = {} /\ timers = {}
      /\ attached = FALSE /\ active = TRUE /\ faults = 0 /\ handled = {} /\ spent = {}
      /\ scan = None /\ check = None /\ failing = {} /\ landed = {} /\ from = [p \in Ids |-> 0]
  BY DEF Init, ProgramsInit, SchedulerInit, WatcherInit
<1>3. ASSUME NEW p \in Ids, rows[p] # None
      PROVE  /\ WellFormed(rows[p]) /\ Begins(rows[p]) /\ rows[p].cursor = None /\ rows[p].rev = 0
             /\ base[p] = <<0>>
  <2>1. p = 1 /\ seed \in Seeds /\ rows[p] = Created(seed) /\ base[p] = <<0>>
    BY <1>1, <1>3
  <2>2. seed \in Draft /\ HasTrigger(seed) /\ now \in Nat
    BY <1>2, <2>1, ProgramsAssumption
  <2> QED BY <2>1, <2>2, CreatedRow
<1>4. /\ None \notin Nat /\ None \notin Row /\ Crons \subseteq Nat \ {0}
  BY ProgramsAssumption
<1>5. RowsOK
  <2>1. \A p \in Ids : rows[p] \in Row \cup {None} /\ base[p] \in Seq(Nat) /\ since[p] \in Nat
    BY <1>1, <1>2, <1>3 DEF WellFormed
  <2>2. DOMAIN rows = Ids /\ DOMAIN base = Ids /\ DOMAIN since = Ids
    BY <1>1
  <2>3. rows \in [Ids -> Row \cup {None}] /\ base \in [Ids -> Seq(Nat)] /\ since \in [Ids -> Nat]
    <3>1. /\ rows = [p \in Ids |-> rows[p]] /\ base = [p \in Ids |-> base[p]] /\ since = [p \in Ids |-> since[p]]
      BY <1>1
    <3> QED BY <2>1, <2>2, <3>1
  <2>4. ASSUME NEW p \in Ids, rows[p] # None PROVE Len(base[p]) = rows[p].rev + 1
    <3>1. base[p] = <<0>> /\ rows[p].rev = 0
      BY <1>3, <2>4
    <3>2. Len(<<0>>) = 0 + 1
      OBVIOUS
    <3> QED BY <3>1, <3>2
  <2>5. mailbox \in Seq(Filters) /\ now \in Nat
    BY <1>2
  <2> QED BY <1>3, <2>3, <2>4, <2>5 DEF RowsOK
<1>6. ProposalsOK /\ OnePending
  BY <1>2 DEF ProposalsOK, OnePending
<1>7. SchedulerOK /\ WatcherOK
  BY <1>2 DEF SchedulerOK, WatcherOK
<1>8. ASSUME NEW p \in Ids PROVE CursorAt(p) /\ FenceAt(p) /\ MarkAt(p)
  <2>1. since[p] = now /\ fence[p] = None /\ now = 1 /\ now \in 0 .. now
    BY <1>1, <1>2
  <2>2. FenceAt(p)
    BY <2>1 DEF FenceAt, Fenced
  <2>3. CursorAt(p)
    <3> SUFFICES ASSUME Clocked(p) PROVE CursorAt(p)
      BY DEF CursorAt
    <3>1. rows[p].cron \in Nat \ {0} /\ rows[p].nextRun = NextFire(rows[p].cron, now)
      BY <1>3, <1>4 DEF Clocked, Begins, WellFormed, Row
    <3>2. PICK c \in Nat \ {0} : c = rows[p].cron
      BY <3>1
    <3>3. now \in Nat
      BY <2>1
    <3>4. NextFire(c, now) \in Nat /\ NextFire(c, now) > now /\ NextFire(c, now) - c <= now
      BY <3>3, Period
    <3>5. NextFire(rows[p].cron, now) = NextFire(c, now)
      BY <3>2
    <3> QED BY <2>1, <3>1, <3>2, <3>3, <3>4, <3>5 DEF CursorAt
  <2>4. MarkAt(p)
    <3>1. base[p] \in {<<0>>, <<>>} /\ Len(mailbox) = 0
      BY <1>1, <1>2
    <3> QED BY <1>3, <3>1 DEF MarkAt
  <2> QED BY <2>2, <2>3, <2>4
<1>9. AttemptsSound /\ PaidOnce
  BY <1>2 DEF AttemptsSound, PaidOnce
<1>10. ScanSound /\ CheckSound /\ LandedSound
  BY <1>2 DEF ScanSound, CheckSound, LandedSound
<1>11. MailNotLost
  BY <1>3 DEF MailNotLost, Live, Ids
<1> QED BY <1>5, <1>6, <1>7, <1>8, <1>9, <1>10, <1>11, TypeParts DEF IInv, ClockInv, MailInv

LEMMA InvHolds ==
  ASSUME IInv, [Next]_vars
  PROVE  IInv'
<1>1. /\ RowsOK /\ ProposalsOK /\ SchedulerOK /\ WatcherOK
      /\ OnePending /\ ClockInv /\ MailInv /\ faults \in Nat
  BY TypeParts DEF IInv, SchedulerOK
<1>2. CASE ProgramsNext /\ UNCHANGED <<now, mailbox, faults, sched, mail>>
  <2>1. RowsMove
    BY <1>1, <1>2, CommandRows
  <2>2. ProposalsOK' /\ OnePending'
    BY <1>1, <1>2, CommandProposals
  <2>3. RowsOK'
    BY <1>1, <1>2, <2>1, MovedRows
  <2>4. SchedulerOK' /\ WatcherOK'
    BY <1>1, <1>2 DEF SchedulerOK, WatcherOK, sched, mail
  <2>5. ClockInv'
    BY <1>1, <1>2, <2>1, CommandClock
  <2>6. MailInv'
    BY <1>1, <1>2, <2>1, CommandMail
  <2> QED BY <2>2, <2>3, <2>4, <2>5, <2>6, TypePartsNext DEF IInv
<1>3. CASE SchedulerNext /\ UNCHANGED <<now, mailbox, proposals, minted, edits, since, base, mail>>
  <2>1. ClockInv' /\ SchedulerOK' /\ CursorMoves
    BY <1>1, <1>3, SchedulerStep
  <2>2. ProposalsOK' /\ OnePending'
    BY <1>1, <1>3 DEF ProposalsOK, OnePending
  <2>3. WatcherOK'
    BY <1>1, <1>3 DEF WatcherOK, mail
  <2>4. RowsOK'
    BY <1>1, <1>3, <2>1, CursorMovesRows
  <2>5. faults' \in Nat /\ faults <= faults'
    BY <1>1, <1>3 DEF SchedulerNext, ScanIdle, Attach, PauseOrResume, RetryMark, SkipLate, FireConversation,
                       FireResponsibility, TurnDone, Refire, Fault
  <2>6. MailInv'
    BY <1>1, <1>3, <2>1, <2>5, SchedulerMail
  <2> QED BY <2>1, <2>2, <2>3, <2>4, <2>6, TypePartsNext DEF IInv
<1>4. CASE WatcherNext /\ UNCHANGED <<now, mailbox, proposals, minted, edits, since, base, sched>>
  <2>1. RowsOK' /\ WatcherOK' /\ SchedulerOK' /\ ClockInv' /\ MailInv'
    BY <1>1, <1>4, WatcherStep
  <2>2. ProposalsOK' /\ OnePending'
    BY <1>1, <1>4 DEF ProposalsOK, OnePending
  <2> QED BY <2>1, <2>2, TypePartsNext DEF IInv
<1>5. CASE UNCHANGED vars
  <2>1. /\ UNCHANGED <<now, mailbox, faults, rows, proposals, minted, since, base>>
        /\ UNCHANGED <<fence, turns, timers, attached, active, handled, spent>>
        /\ UNCHANGED <<scan, check, failing, landed, from>>
    BY <1>5 DEF vars, store, sched, mail
  <2>2. RowsOK'
    BY <1>1, <2>1 DEF RowsOK, WellFormed, HasTrigger
  <2>3. ProposalsOK' /\ SchedulerOK' /\ WatcherOK' /\ OnePending'
    BY <1>1, <2>1 DEF ProposalsOK, SchedulerOK, WatcherOK, OnePending
  <2>4. ClockInv'
    BY <1>1, <2>1, ScanIdleClock, AttemptsStay
  <2>5. (\A p \in Ids : MarkAt(p)' /\ SnapOn(p)) /\ LandedSound' /\ MailNotLost'
    BY <1>1, <2>1, StillMail
  <2>6. ScanSound' /\ CheckSound'
    BY <1>1, <2>1 DEF MailInv, ScanSound, CheckSound, SnapSound, Matches, Life
  <2> QED BY <2>2, <2>3, <2>4, <2>5, <2>6, TypePartsNext DEF IInv, MailInv
<1> QED BY <1>2, <1>3, <1>4, <1>5, TickStep, ArriveStep, CrashStep DEF Next

\* Every reachable state satisfies the inductive invariant, for all rows, patches and bounds.
THEOREM ProgramsInvariant == Spec => []IInv
<1>1. Init => IInv
  BY InitHolds
<1>2. IInv /\ [Next]_vars => IInv'
  BY InvHolds
<1> QED BY <1>1, <1>2, PTL DEF Spec

\* Rows and proposals are well formed, and one grant at most waits for a program.
THEOREM StoreIsSound == Spec => []StoreSound
<1>1. IInv => StoreSound
  BY DEF IInv, StoreSound
<1> QED BY <1>1, ProgramsInvariant, PTL

\* The cursor is where the fires are, no occurrence is paid for twice, no mail is lost, none is
\* fired that came before, and none comes twice but after a refused write or a crash.
THEOREM FiresAreOnce == Spec => []FiresOnce
<1>1. ASSUME IInv PROVE FiresOnce
  <2>1. RowsOK /\ SchedulerOK /\ WatcherOK /\ ClockInv /\ MailInv
    BY <1>1, TypeParts DEF IInv
  <2>2. CursorFollowsFires
    <3> SUFFICES ASSUME NEW p \in Live, rows[p].enabled, rows[p].cron # None
                 PROVE  LET last == rows[p].nextRun - rows[p].cron
                        IN  /\ rows[p].nextRun <= NextFire(rows[p].cron, now)
                            /\ last > since[p] => [p |-> p, occ |-> last] \in handled
      BY DEF CursorFollowsFires
    <3>1. p \in Ids /\ Clocked(p) /\ CursorAt(p) /\ now \in Nat
      BY <2>1 DEF Live, Clocked, ClockInv, RowsOK
    <3>2. PICK c \in Nat \ {0} : c = rows[p].cron
      BY <2>1, <3>1, ProgramsAssumption DEF RowsOK, WellFormed, Row, Clocked
    <3>3. PICK x \in 0 .. now : rows[p].nextRun = NextFire(c, x)
      BY <3>1, <3>2 DEF CursorAt
    <3>4. x \in Nat /\ x <= now
      BY <3>1
    <3>5. NextFire(c, x) <= NextFire(c, now)
      BY <3>1, <3>4, PeriodOrder
    <3>6. rows[p].nextRun - c > since[p] => [p |-> p, occ |-> rows[p].nextRun - c] \in handled
      BY <3>1, <3>2 DEF CursorAt
    <3> QED BY <3>2, <3>3, <3>5, <3>6
  <2>3. PaidOnce /\ MailNotLost
    BY <2>1 DEF ClockInv, MailInv
  <2>4. NoBacklogFired
    <3> SUFFICES ASSUME NEW l \in landed PROVE l.mail > base[l.p][l.rev + 1]
      BY DEF NoBacklogFired
    <3>1. base[l.p][l.rev + 1] < l.mail
      BY <2>1 DEF MailInv, LandedSound, LandedAt
    <3> QED BY <3>1
  <2>5. FiredOnce
    <3> SUFFICES ASSUME check # None, check.phase = "gate", NEW l \in landed, l.p = check.p, l.mail \in check.hits,
                        l.life = Life
                 PROVE  FALSE
      BY DEF FiredOnce
    <3>1. l.mail \in Nat /\ check.snap.cursor < l.mail /\ l.mail <= check.snap.cursor
      BY <2>1, GateRow
    <3>2. check.snap.cursor \in Nat
      BY <2>1, CheckRow
    <3> QED BY <3>1, <3>2
  <2> QED BY <2>2, <2>3, <2>4, <2>5 DEF FiresOnce
<1> QED BY <1>1, ProgramsInvariant, PTL

-----------------------------------------------------------------------------
(* What a step may never do. *)

\* What an approval applies is what its card showed, setting by setting.
LEMMA ApprovalShown ==
  ASSUME RowsOK, ProposalsOK, NEW i \in DOMAIN proposals, Approve(i), proposals[i].target # None
  PROVE  /\ Fingerprint(rows'[proposals[i].target])
              = Fingerprint(Edited(proposals[i].on, Granted(proposals[i].change)))
         /\ proposals[i].target \in Ids /\ rows[proposals[i].target] # None
         /\ \A q \in Ids : q # proposals[i].target => rows'[q] = rows[q]
<1> DEFINE p == proposals[i].target
           patch == Granted(proposals[i].change)
<1>1. /\ p \in Ids /\ proposals[i].change \in Patches /\ minted \in Nat
  BY ProposalAt DEF ProposalsOK
<1>2. /\ rows[p] # None /\ Fingerprint(rows[p]) = proposals[i].on /\ Update(p, patch)
  BY DEF Approve, Stale
<1>3. Patch(patch)
  BY <1>1, GrantedShape
<1> HIDE DEF p, patch
<1>4. /\ rows' = [rows EXCEPT ![p] = Patched(rows[p], patch)]
      /\ Fingerprint(Patched(rows[p], patch)) = Fingerprint(Edited(rows[p], patch))
  BY <1>1, <1>2, <1>3, UpdateShape
<1>5. rows[p] \in Row /\ rows \in [Ids -> Row \cup {None}]
  BY <1>1, <1>2 DEF RowsOK
<1>6. Fingerprint(Edited(rows[p], patch)) = Fingerprint(Edited(Fingerprint(rows[p]), patch))
  <2>1. Settings \subseteq DOMAIN rows[p]
    BY <1>5 DEF Settings, Row
  <2>2. DOMAIN Fingerprint(rows[p]) = Settings /\ \A f \in Settings : Fingerprint(rows[p])[f] = rows[p][f]
    BY DEF Fingerprint
  <2>3. \A f \in Settings : Edited(rows[p], patch)[f] = Edited(Fingerprint(rows[p]), patch)[f]
    BY <2>1, <2>2 DEF Edited
  <2> QED BY <2>3 DEF Fingerprint
<1>7. rows'[p] = Patched(rows[p], patch) /\ \A q \in Ids : q # p => rows'[q] = rows[q]
  BY <1>1, <1>4, <1>5
<1> QED BY <1>1, <1>2, <1>4, <1>6, <1>7 DEF p, patch

\* A step that is not a command changes no setting.
NoneWidens == \A p \in Ids : rows'[p] = None \/ (rows[p] # None /\ ~Widens(rows[p], rows'[p]))

Entitled(p) ==
    \/ rows'[p] = None
    \/ rows[p] = None /\ \/ rows'[p].dest = "resp"
                         \/ \E i \in DOMAIN proposals : Approves(i) /\ proposals[i].target = None
    \/ rows[p] # None /\ Widens(rows[p], rows'[p])
        /\ \E i \in DOMAIN proposals : Approves(i) /\ proposals[i].target = p
    \/ rows[p] # None /\ ~Widens(rows[p], rows'[p])

LEMMA NoneWidensEntitles ==
  ASSUME NoneWidens
  PROVE  \A p \in Ids : Entitled(p)
BY DEF NoneWidens, Entitled

LEMMA SettingsStay ==
  ASSUME RowsOK, CursorMoves \/ CheckpointMoves
  PROVE  NoneWidens
<1> SUFFICES ASSUME NEW p \in Ids, rows'[p] # None PROVE rows[p] # None /\ ~Widens(rows[p], rows'[p])
  BY DEF NoneWidens
<1>1. Steady(p) /\ (rows[p] # None => SameSettings(rows[p], rows'[p]))
  BY CursorMovesAt, CheckpointMovesAt
<1>2. rows[p] # None /\ SameSettings(rows[p], rows'[p])
  BY <1>1 DEF Steady
<1>3. /\ rows'[p].charter = rows[p].charter /\ rows'[p].cron = rows[p].cron /\ rows'[p].hook = rows[p].hook
      /\ rows'[p].filter = rows[p].filter
  BY <1>2 DEF SameSettings
<1> QED BY <1>2, <1>3 DEF Widens

LEMMA UpdateWithin ==
  ASSUME RowsOK, NEW q \in Ids, rows[q] # None, NEW patch, Patch(patch), Update(q, patch),
         ~RequiresApproval(rows[q], patch)
  PROVE  NoneWidens
<1> DEFINE r == rows[q]
           new == Patched(r, patch)
           edited == Edited(r, patch)
<1>1. rows' = [rows EXCEPT ![q] = new] /\ Fingerprint(new) = Fingerprint(edited)
  BY UpdateShape
<1>2. r \in Row /\ rows \in [Ids -> Row \cup {None}]
  BY DEF RowsOK
<1>3. /\ edited.charter = IF "charter" \in DOMAIN patch THEN patch.charter ELSE r.charter
      /\ edited.cron = IF "cron" \in DOMAIN patch THEN patch.cron ELSE r.cron
      /\ edited.hook = IF "hook" \in DOMAIN patch THEN patch.hook ELSE r.hook
      /\ edited.filter = IF "filter" \in DOMAIN patch THEN patch.filter ELSE r.filter
  <2> HIDE DEF r
  <2> QED BY <1>2, EditedRow
<1>4. ~Widens(r, edited)
  BY <1>3 DEF RequiresApproval, Widens
<1> HIDE DEF r, new, edited
<1>5. new.charter = edited.charter /\ new.cron = edited.cron /\ new.hook = edited.hook /\ new.filter = edited.filter
  <2>1. \A f \in Settings : new[f] = edited[f]
    <3>1. \A f \in Settings : Fingerprint(new)[f] = new[f] /\ Fingerprint(edited)[f] = edited[f]
      BY DEF Fingerprint
    <3> QED BY <1>1, <3>1
  <2> QED BY <2>1 DEF Settings
<1>6. ~Widens(r, new)
  BY <1>4, <1>5 DEF Widens
<1>7. rows'[q] = new /\ \A p \in Ids : p # q => rows'[p] = rows[p]
  BY <1>1, <1>2
<1>8. \A p \in Ids : ~Widens(rows[p], rows[p])
  BY DEF Widens
<1> QED BY <1>6, <1>7, <1>8 DEF NoneWidens, r

LEMMA CommandEntitled ==
  ASSUME RowsOK, ProposalsOK, ProgramsNext
  PROVE  \A p \in Ids : Entitled(p)
<1> DEFINE Goal == \A p \in Ids : Entitled(p)
<1>1. rows \in [Ids -> Row \cup {None}] /\ \A p \in Ids : ~Widens(rows[p], rows[p])
  BY DEF RowsOK, Widens
<1>2. ASSUME UNCHANGED rows PROVE Goal
  BY <1>1, <1>2 DEF Entitled
<1>3. ASSUME NEW q \in Ids, Remove(q) PROVE Goal
  <2>1. rows'[q] = None /\ \A p \in Ids : p # q => rows'[p] = rows[p]
    BY <1>1, <1>3 DEF Remove
  <2> QED BY <1>1, <2>1 DEF Entitled
<1>4. ASSUME NEW q \in Ids, Toggle(q) PROVE Goal
  <2>1. rows[q] # None /\ rows[q] \in Row /\ Update(q, [enabled |-> ~rows[q].enabled])
    BY <1>4 DEF Toggle, Live, RowsOK
  <2>2. PICK patch : patch = [enabled |-> ~rows[q].enabled]
    OBVIOUS
  <2>3. Patch(patch) /\ ~RequiresApproval(rows[q], patch)
    BY <2>1, <2>2 DEF Patch, Row, RequiresApproval
  <2>4. NoneWidens
    BY <2>1, <2>2, <2>3, UpdateWithin
  <2> QED BY <2>4, NoneWidensEntitles
<1>5. ASSUME NEW q \in Ids, NEW patch \in Patches, EditDirectly(q, patch) PROVE Goal
  <2>1. Patch(patch)
    BY ProgramsAssumption DEF Patch
  <2>2. NoneWidens
    BY <1>5, <2>1, UpdateWithin DEF EditDirectly, Live
  <2> QED BY <2>2, NoneWidensEntitles
<1>6. ASSUME NEW q \in Ids, RotateHook(q) \/ DisableHook(q) PROVE Goal
  <2>1. PICK h : rows' = [rows EXCEPT ![q].hook = h] /\ rows[q] \in Row /\ rows[q] # None
                 /\ (h # None => rows[q].hook # None)
    BY <1>6 DEF RotateHook, DisableHook, RowsOK, Live
  <2> DEFINE new == [rows[q] EXCEPT !.hook = h]
  <2>2. ~Widens(rows[q], new)
    BY <2>1 DEF Widens, Row
  <2>3. rows'[q] = new /\ \A p \in Ids : p # q => rows'[p] = rows[p]
    BY <1>1, <2>1
  <2> QED BY <1>1, <2>1, <2>2, <2>3 DEF Entitled
<1>7. ASSUME NEW draft \in Drafts, CreateForResponsibility(draft) PROVE Goal
  <2>1. draft \in Draft /\ HasTrigger(draft)
    BY ProgramsAssumption
  <2>2. PICK bound : bound = [draft EXCEPT !.dest = "resp"]
    OBVIOUS
  <2>3. bound \in Draft /\ bound.dest = "resp" /\ HasTrigger(bound)
    BY <2>1, <2>2 DEF Draft, HasTrigger
  <2>4. Insert(bound)
    BY <1>7, <2>2 DEF CreateForResponsibility
  <2>5. PICK q \in Ids : /\ rows[q] = None /\ rows' = [rows EXCEPT ![q] = Created(bound)]
                         /\ Created(bound).dest = "resp"
    BY <2>4, <2>3, InsertShape
  <2>6. rows'[q] = Created(bound) /\ \A p \in Ids : p # q => rows'[p] = rows[p]
    BY <1>1, <2>5
  <2> QED BY <1>1, <2>5, <2>6 DEF Entitled
<1>8. ASSUME NEW i \in DOMAIN proposals, Approve(i) PROVE Goal
  <2>1. Approves(i)
    BY <1>8, ProposalAt DEF Approve, Decide, Approves, Proposal, ProposalsOK
  <2>2. CASE proposals[i].target = None
    <3>1. proposals[i].change \in Drafts /\ minted \in Nat
      BY <2>2, ProposalAt DEF ProposalsOK
    <3>2. PICK draft \in Draft : draft = Granted(proposals[i].change) /\ HasTrigger(draft) /\ Insert(draft)
      BY <1>8, <2>2, <3>1, GrantedShape, ProgramsAssumption DEF Approve
    <3>3. PICK q \in Ids : rows[q] = None /\ rows' = [rows EXCEPT ![q] = Created(draft)]
      BY <3>2, InsertShape
    <3>4. \A p \in Ids : p # q => rows'[p] = rows[p]
      BY <1>1, <3>3
    <3> QED BY <1>1, <2>1, <2>2, <3>3, <3>4 DEF Entitled
  <2>3. CASE proposals[i].target # None
    <3>1. /\ proposals[i].target \in Ids /\ rows[proposals[i].target] # None
          /\ \A q \in Ids : q # proposals[i].target => rows'[q] = rows[q]
      BY <1>8, <2>3, ApprovalShown
    <3> QED BY <1>1, <2>1, <3>1 DEF Entitled
  <2> QED BY <2>2, <2>3
<1>9. ASSUME NEW p \in Ids, NEW patch \in Patches, ProposeUpdate(p, patch) PROVE Goal
  BY <1>2, <1>9 DEF ProposeUpdate
<1>10. ASSUME NEW draft \in Drafts, ProposeCreate(draft) PROVE Goal
  BY <1>2, <1>10 DEF ProposeCreate
<1>11. ASSUME NEW i \in DOMAIN proposals, Reject(i) PROVE Goal
  BY <1>2, <1>11 DEF Reject
<1> HIDE DEF Goal
<1>12. Goal
  BY <1>3, <1>4, <1>5, <1>6, <1>7, <1>8, <1>9, <1>10, <1>11 DEF ProgramsNext
<1> QED BY <1>12 DEF Goal

\* A program holds only what an operator approved, as it was shown.
THEOREM AuthorityHolds == Spec => AuthorityIsGranted
<1> DEFINE Shows == \A i \in DOMAIN proposals :
               (Approves(i) /\ proposals[i].target # None) =>
                   Fingerprint(rows'[proposals[i].target])
                       = Fingerprint(Edited(proposals[i].on, Granted(proposals[i].change)))
           Entitles == \A p \in Ids : Entitled(p)
<1>1. ASSUME IInv, [Next]_vars PROVE [Shows /\ Entitles]_store
  <2>1. RowsOK /\ ProposalsOK /\ SchedulerOK /\ WatcherOK /\ ClockInv /\ MailInv
    BY <1>1, TypeParts DEF IInv
  <2>2. ASSUME UNCHANGED proposals PROVE Shows
    BY <2>2 DEF Approves
  <2>3. CASE ProgramsNext
    <3>1. Shows
      BY <2>1, <2>3, CommandProposals, ApprovalShown
    <3>2. Entitles
      BY <2>1, <2>3, CommandEntitled
    <3> QED BY <3>1, <3>2
  <2>4. CASE SchedulerNext /\ UNCHANGED <<now, mailbox, proposals, minted, edits, since, base, mail>>
    <3>1. CursorMoves
      BY <2>1, <2>4, SchedulerStep
    <3>2. Entitles
      BY <2>1, <3>1, SettingsStay, NoneWidensEntitles
    <3> QED BY <2>2, <2>4, <3>2
  <2>5. CASE WatcherNext /\ UNCHANGED <<now, mailbox, proposals, minted, edits, since, base, sched>>
    <3>1. CheckpointMoves
      BY <2>1, <2>5, WatcherStep
    <3>2. Entitles
      BY <2>1, <3>1, SettingsStay, NoneWidensEntitles
    <3> QED BY <2>2, <2>5, <3>2
  <2>6. CASE Tick \/ Arrive \/ Crash \/ UNCHANGED vars
    BY <2>6 DEF Tick, Arrive, Crash, vars
  <2> QED BY <1>1, <2>3, <2>4, <2>5, <2>6 DEF Next
<1>2. [Shows /\ Entitles]_store => [Shows]_store /\ [Entitles]_store
  OBVIOUS
<1>3. Spec => [][Shows]_store /\ [][Entitles]_store
  BY <1>1, <1>2, ProgramsInvariant, PTL DEF Spec
<1> QED BY <1>3 DEF AuthorityIsGranted, GrantIsWhatWasShown, AuthorityNeedsApproval, Entitled

\* An edit, a disable or a deletion wins over what was under way.
THEOREM WithdrawalsWin == Spec => WithdrawalWins
<1> DEFINE NotOwed == \A h \in handled' \ handled : h.occ > since[h.p]
           Admitted == \A l \in landed' \ landed : l.p \in Live /\ rows[l.p].enabled
<1>1. ASSUME IInv, [Next]_vars PROVE NotOwed /\ Admitted
  <2>1. RowsOK /\ SchedulerOK /\ WatcherOK /\ ClockInv /\ MailInv
    BY <1>1, TypeParts DEF IInv
  <2>2. ASSUME Lands, check # None, check.phase = "gate", ~Revoked(check.p) PROVE Admitted
    <3>1. \A l \in landed' : l \in landed \/ l.p = check.p
      BY <2>1, <2>2, LandsSound
    <3> QED BY <2>2, <3>1 DEF Revoked
  <2>3. CASE ProgramsNext /\ UNCHANGED <<now, mailbox, faults, sched, mail>>
    BY <2>3 DEF sched, mail
  <2>4. CASE SchedulerNext /\ UNCHANGED <<now, mailbox, proposals, minted, edits, since, base, mail>>
    BY <2>1, <2>4, SchedulerStep DEF mail
  <2>5. CASE WatcherNext /\ UNCHANGED <<now, mailbox, proposals, minted, edits, since, base, sched>>
    <3>1. handled' = handled
      BY <2>5 DEF sched
    <3>2. landed' = landed \/ (Lands /\ check # None /\ check.phase = "gate" /\ ~Revoked(check.p))
      BY <2>5 DEF WatcherNext, StartScan, NextCheck, HeadReturns, PollLost, PollReturns, HistoryExpired, GmailFails,
                  GateReturns, CheckpointRefused
    <3> QED BY <2>2, <3>1, <3>2
  <2>6. CASE Tick \/ Arrive \/ UNCHANGED vars
    BY <2>6 DEF Tick, Arrive, vars, sched, mail
  <2>7. CASE Crash
    BY <2>2, <2>7 DEF Crash, Forget
  <2> QED BY <1>1, <2>3, <2>4, <2>5, <2>6, <2>7 DEF Next
<1>2. Spec => [][NotOwed]_<<handled, since>> /\ [][Admitted]_landed
  BY <1>1, ProgramsInvariant, PTL DEF Spec
<1> QED BY <1>2 DEF WithdrawalWins, SkippedNotOwed, WithdrawnNeverFires
=============================================================================
