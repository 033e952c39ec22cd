-------------------------- MODULE TurnJournalProofs --------------------------
(***************************************************************************)
(* Proofs about TurnJournal: the inductive invariant IInv and what it      *)
(* gives, for any number of runs, calls, signatures and grants.            *)
(***************************************************************************)
EXTENDS TurnJournal, TLAPS

-----------------------------------------------------------------------------
(* The rows. *)

\* The empty row and table have their types.
LEMMA NoRowsType == NoRow \in Row /\ NoRows \in [Keys -> Row]
  BY DEF NoRow, NoRows, Row, CallStates

LEMMA InitInv == Init => IInv
<1> SUFFICES ASSUME Init PROVE IInv
  OBVIOUS
<1>1. TypeOK
  BY NoRowsType DEF Init, TypeOK, Idle, Attempt, RunStatus, Delivery
<1>2. AttemptRows /\ PredecessorSettled
  BY DEF Init, AttemptRows, PredecessorSettled, Idle
<1>3. Lineages /\ RowOrigins /\ ReplayedCompleted
  BY DEF Init, Lineages, RowOrigins, ReplayedCompleted, Ancestors, NoRows, NoRow
<1>4. AmbiguousInFlight /\ EvidenceCarried /\ SpentCarried /\ SkipCarried /\ GuardCurrent
  BY DEF Init, AmbiguousInFlight, EvidenceCarried, SpentCarried, SkipCarried, GuardCurrent,
         Ancestors, Idle
<1>5. Safety
  BY DEF Init, Safety, NoUnauthorizedRepeat, GrantSpentOnce, SkipNeverExpires,
         EveryDispatchJournaled, NoFork, DecidedBeforeResumed
<1> QED BY <1>1, <1>2, <1>3, <1>4, <1>5 DEF IInv

-----------------------------------------------------------------------------
(* Two frames: what a step that only stamps runs, and one that only moves  *)
(* rows, leave intact.                                                     *)

\* The conjuncts of IInv that speak of the tables and their history only.
Tables ==
    /\ Lineages /\ RowOrigins /\ ReplayedCompleted
    /\ EvidenceCarried /\ SpentCarried /\ SkipCarried
    /\ Safety

\* A status may move, but no run is unborn, and an ended run that others
\* continue keeps its status.
StampOnly ==
    /\ UNCHANGED <<calls, execs, booked, lineage>>
    /\ \A r \in Runs :
          /\ run'[r].status = "none" <=> run[r].status = "none"
          /\ run[r].status \in {"resumed", "error"} => run'[r].status = run[r].status
          /\ run'[r].status = "resumed" => run[r].status = "resumed"

LEMMA StampFrame == IInv /\ StampOnly => Tables'
<1> SUFFICES ASSUME IInv, StampOnly PROVE Tables'
  OBVIOUS
<1> USE DEF IInv, StampOnly, Ancestors
<1>1. Lineages'
  BY DEF TypeOK, Lineages, Exec
<1>2. RowOrigins' /\ ReplayedCompleted'
  BY DEF RowOrigins, ReplayedCompleted
<1>3. EvidenceCarried' /\ SpentCarried' /\ SkipCarried'
  BY DEF EvidenceCarried, SpentCarried, SkipCarried
<1>4. Safety'
  BY DEF Safety, NoUnauthorizedRepeat, GrantSpentOnce, SkipNeverExpires,
         EveryDispatchJournaled, Journaled, NoFork, DecidedBeforeResumed
<1> QED BY <1>1, <1>2, <1>3, <1>4 DEF Tables

\* How one row may move in a step that inserts no run.
RowMove(r, k) ==
    LET old == calls[r][k]
        new == calls'[r][k]
    IN  /\ new.replayed => new.state = "completed"
        /\ old.state = "absent" /\ new.state # "absent" => k[1] \in lineage[r]
        /\ (k[1] # r /\ old.state \in Evidence) =>
              new.state \in Evidence /\ new.sig = old.sig /\ new.replayed = old.replayed
        /\ (old.state = "resolved-retry" /\ old.consumed) =>
              new.state = "resolved-retry" /\ new.consumed
        /\ (old.state = "resolved-skip" /\ old.sig # None) =>
              new.state = "resolved-skip" /\ new.sig = old.sig
        /\ new.state = "resolved-skip" =>
              \/ old.state = "resolved-skip" /\ new.sig = old.sig
              \/ run[r].status \in {"interrupted", "running"}
        /\ new.state = "dispatched" => old.state = "dispatched" \/ run[r].status = "running"
        /\ (old.sig # None /\ ~old.replayed /\ old.state \notin {"absent", "planned"}) =>
              new.sig = old.sig /\ ~new.replayed /\ new.state \notin {"absent", "planned"}

\* Every row moves so, and whatever is executed from now on is left aside.
MoveRows ==
    /\ UNCHANGED <<run, lineage>>
    /\ \A r \in Runs, k \in Keys : RowMove(r, k)

\* What the recovery fence has established of an execution entered in this step.
Fresh(e) ==
    /\ e \in Exec
    /\ run[e.run].status = "running"
    /\ \A p \in booked :
          (p.run \in Ancestors(e.run) /\ p.sig = e.sig /\ e.sig \notin SafeSigs)
             => e.grant # None
    /\ e.grant # None =>
          /\ calls[e.run][e.grant].state = "resolved-retry"
          /\ ~calls[e.run][e.grant].consumed
          /\ calls'[e.run][e.grant].state = "resolved-retry"
          /\ calls'[e.run][e.grant].consumed
    /\ e.grant = None =>
          \A k \in Keys : k[1] # e.run =>
             ~(calls[e.run][k].state = "resolved-skip" /\ calls[e.run][k].sig = e.sig)

\* The row an execution has after the step names it.
Booked(e) ==
    LET row == calls'[e.run][<<e.run, e.call>>]
    IN  row.sig = e.sig /\ ~row.replayed /\ row.state \notin {"absent", "planned"}

\* At most one execution is entered.
Entered ==
    /\ execs \subseteq execs' /\ booked \subseteq booked' /\ booked' \subseteq execs'
    /\ \A e \in execs' \ execs : Fresh(e)
    /\ \A e, f \in execs' \ execs : e = f
    /\ \A e \in booked' \ booked : Booked(e) /\ run[e.run].status = "running"

\* A step that moves rows and enters at most one fenced execution.
LEMMA MoveFrame ==
  IInv /\ MoveRows /\ Entered => Tables'
<1> SUFFICES ASSUME IInv, MoveRows, Entered PROVE Tables'
  OBVIOUS
<1> USE DEF IInv, MoveRows, Entered
<1>1. \A e \in execs' :
         /\ <<e.run, e.call>> \in Keys /\ e.sig # None /\ e.run \in Runs /\ e.sig \in Sigs
         /\ e.grant # None => e.grant \in Keys
         /\ run[e.run].status # "none"
  <2> TAKE e \in execs'
  <2>1. e \in Exec
    BY DEF TypeOK, Fresh
  <2>2. run[e.run].status # "none"
    BY DEF Fresh, Lineages
  <2> QED BY <2>1, <2>2, ConstantsAssumption DEF Exec, Keys
<1>2. \A e \in (execs' \ execs) \cup (booked' \ booked) : \A r \in Runs :
         e.run \in lineage[r] => r = e.run
  BY DEF Fresh, Lineages, Ancestors
<1>3. Lineages'
  BY <1>1 DEF Lineages, Ancestors
<1>4. RowOrigins' /\ ReplayedCompleted'
  BY DEF RowOrigins, ReplayedCompleted, RowMove
<1>5. EvidenceCarried'
  <2> SUFFICES ASSUME NEW r \in Runs, NEW e \in booked', e.run \in Ancestors(r)
               PROVE  LET row == calls'[r][<<e.run, e.call>>]
                      IN  row.state \in Evidence /\ row.sig = e.sig /\ ~row.replayed
    BY DEF EvidenceCarried, Ancestors
  <2>1. RowMove(r, <<e.run, e.call>>) /\ e.run # r
    BY <1>1 DEF Ancestors
  <2>2. e \in booked
    BY <1>2, <2>1 DEF Ancestors
  <2> QED BY <2>1, <2>2 DEF RowMove, EvidenceCarried
<1>6. SpentCarried'
  <2> SUFFICES ASSUME NEW r \in Runs, NEW e \in execs', e.grant # None, e.run \in lineage[r]
               PROVE  calls'[r][e.grant].state = "resolved-retry" /\ calls'[r][e.grant].consumed
    BY DEF SpentCarried
  <2>1. RowMove(r, e.grant)
    BY <1>1
  <2>2. CASE e \in execs
    BY <2>1, <2>2 DEF RowMove, SpentCarried
  <2>3. CASE e \notin execs
    <3>1. r = e.run /\ Fresh(e)
      BY <1>2, <2>3
    <3> QED BY <3>1 DEF Fresh
  <2> QED BY <2>2, <2>3
<1>7. SkipCarried'
  <2> SUFFICES ASSUME NEW r \in Runs, NEW q \in Ancestors(r), NEW k \in Keys,
                      calls'[q][k].state = "resolved-skip", calls'[q][k].sig # None
               PROVE  calls'[r][k].state = "resolved-skip" /\ calls'[r][k].sig = calls'[q][k].sig
    BY DEF SkipCarried, Ancestors
  <2>1. q \in Runs /\ run[q].status \in {"resumed", "error"}
    BY DEF Lineages, TypeOK, Ancestors
  <2>2. RowMove(q, k) /\ RowMove(r, k)
    BY <2>1
  <2>3. calls[q][k].state = "resolved-skip" /\ calls'[q][k].sig = calls[q][k].sig
    BY <2>1, <2>2 DEF RowMove
  <2> QED BY <2>2, <2>3 DEF RowMove, SkipCarried
<1>8. SkipNeverExpires'
  <2> SUFFICES ASSUME NEW e \in execs', e.grant = None,
                      NEW q \in Ancestors(e.run), NEW k \in Keys,
                      calls'[q][k].state = "resolved-skip", calls'[q][k].sig = e.sig
               PROVE  FALSE
    BY DEF SkipNeverExpires, Ancestors
  <2>1. q \in Runs /\ run[q].status \in {"resumed", "error"} /\ e.run \in Runs
    BY <1>1 DEF Lineages, TypeOK, Ancestors
  <2>2. RowMove(q, k)
    BY <2>1
  <2>3. calls[q][k].state = "resolved-skip" /\ calls[q][k].sig = e.sig
    BY <2>1, <2>2 DEF RowMove
  <2>4. CASE e \in execs
    BY <2>3, <2>4 DEF SkipNeverExpires, Safety
  <2>5. CASE e \notin execs
    <3>1. calls[e.run][k].state = "resolved-skip" /\ calls[e.run][k].sig = e.sig
      BY <1>1, <2>1, <2>3 DEF SkipCarried
    <3>2. k[1] \in lineage[q]
      BY <2>1, <2>3 DEF RowOrigins
    <3>3. k[1] # e.run
      BY <1>2, <2>1, <2>5, <3>2 DEF Ancestors
    <3> QED BY <2>5, <3>1, <3>3 DEF Fresh
  <2> QED BY <2>4, <2>5
<1>9. EveryDispatchJournaled'
  <2> SUFFICES ASSUME NEW e \in booked' PROVE Journaled(e)'
    BY DEF EveryDispatchJournaled
  <2>1. RowMove(e.run, <<e.run, e.call>>) /\ e.sig # None
    BY <1>1
  <2>2. CASE e \in booked
    <3>1. Journaled(e)
      BY <2>2 DEF EveryDispatchJournaled, Safety
    <3> QED BY <2>1, <3>1 DEF RowMove, Journaled
  <2>3. CASE e \notin booked
    BY <2>3 DEF Booked, Journaled
  <2> QED BY <2>2, <2>3
<1>10. DecidedBeforeResumed'
  BY DEF DecidedBeforeResumed, Safety, RowMove
<1>11. NoUnauthorizedRepeat'
  <2> SUFFICES ASSUME NEW e \in execs', NEW p \in booked', p.run \in Ancestors(e.run),
                      p.sig = e.sig, e.sig \notin SafeSigs
               PROVE  e.grant # None
    BY DEF NoUnauthorizedRepeat, Ancestors
  <2>1. p \in booked
    BY <1>1, <1>2 DEF Ancestors
  <2> QED BY <2>1 DEF NoUnauthorizedRepeat, Safety, Fresh
<1>12. GrantSpentOnce'
  <2> SUFFICES ASSUME NEW e \in execs', NEW p \in execs', p.run \in lineage[e.run],
                      p.grant = e.grant, e.grant # None, e # p
               PROVE  FALSE
    BY DEF GrantSpentOnce
  <2>1. CASE e \in execs /\ p \in execs
    BY <2>1 DEF GrantSpentOnce, Safety
  <2>2. CASE p \in execs /\ e \notin execs
    <3>1. Fresh(e) /\ e.run \in Runs
      BY <1>1, <2>2
    <3>2. calls[e.run][e.grant].consumed
      BY <2>2, <3>1 DEF SpentCarried
    <3> QED BY <3>1, <3>2 DEF Fresh
  <2>3. CASE p \notin execs /\ e \in execs
    <3>1. e.run = p.run
      BY <1>1, <1>2, <2>3
    <3>2. calls[e.run][e.grant].consumed
      BY <1>1, <2>3 DEF SpentCarried, Lineages
    <3> QED BY <2>3, <3>1, <3>2 DEF Fresh
  <2> QED BY <2>1, <2>2, <2>3
<1>13. NoFork'
  BY DEF NoFork, Safety
<1> QED BY <1>3, <1>4, <1>5, <1>6, <1>7, <1>8, <1>9, <1>10, <1>11, <1>12, <1>13
        DEF Tables, Safety

-----------------------------------------------------------------------------
(* The steps, one lemma per group of actions with the same frame.          *)

\* The conjuncts of IInv that speak of the attempt in progress.
Local == AttemptRows /\ PredecessorSettled /\ AmbiguousInFlight /\ GuardCurrent

\* Admissions and the ends of attempts that never stamp their run.
LEMMA IdleSteps ==
  ASSUME IInv, Submit \/ DieBeforeRun \/ StampLost \/ CrashRestart
  PROVE  IInv'
<1> USE DEF IInv
<1>1. TypeOK'
  <2>1. Idle \in Attempt /\ \A r \in Runs \cup {None} : Queued(r) \in Attempt
    BY DEF Idle, Queued, Attempt
  <2>2. CASE Submit \/ DieBeforeRun \/ StampLost
    BY <2>1, <2>2, NoRowsType DEF Submit, DieBeforeRun, StampLost, Release, TypeOK, journal, history
  <2>3. CASE CrashRestart
    <3>1. run' \in [Runs -> [status : RunStatus, delivery : Delivery, src : Runs \cup {None}]]
      BY <2>3 DEF CrashRestart, TypeOK, RunStatus
    <3> QED BY <2>1, <2>3, <3>1, NoRowsType DEF CrashRestart, TypeOK, history
  <2> QED BY <2>2, <2>3
<1>2. Local'
  BY DEF Submit, DieBeforeRun, StampLost, CrashRestart, Release, Idle, Queued, journal, history,
     Local, AttemptRows, PredecessorSettled, AmbiguousInFlight, GuardCurrent
<1>3. StampOnly
  BY DEF StampOnly, Submit, DieBeforeRun, StampLost, CrashRestart, journal, history, TypeOK
<1> QED BY <1>1, <1>2, <1>3, StampFrame DEF Local, Tables

\* A lost journal write poisons the attempt and touches nothing else.
LEMMA LostWrites ==
  ASSUME IInv, DispatchLost \/ \E e \in inflight : ResultLost(e)
  PROVE  IInv'
<1> USE DEF IInv
<1>1. TypeOK'
  BY DEF DispatchLost, ResultLost, TypeOK, Attempt, journal, history
<1>2. \A f \in {"phase", "run", "src", "pred"} : att'[f] = att[f]
  BY DEF DispatchLost, ResultLost, TypeOK, Attempt
<1>3. UNCHANGED <<run, calls, guard, claimed, execs, booked, lineage>>
  BY DEF DispatchLost, ResultLost, journal, history
<1>4. AttemptRows' /\ PredecessorSettled' /\ GuardCurrent'
  BY <1>2, <1>3 DEF AttemptRows, PredecessorSettled, GuardCurrent
<1>5. AmbiguousInFlight'
  <2>1. att'.fault \/ (~att.fault /\ \A f \in inflight : f.run = att.run => f \in inflight')
    BY DEF DispatchLost, ResultLost, journal, TypeOK, Attempt
  <2> QED BY <1>2, <1>3, <2>1 DEF AmbiguousInFlight, RowAt, Own
<1>6. StampOnly
  BY <1>3 DEF StampOnly
<1> QED BY <1>1, <1>4, <1>5, <1>6, StampFrame DEF Tables

\* A stamp keeps the table's type.
LEMMA StampType ==
  ASSUME TypeOK, att.run \in Runs, NEW st \in RunStatus, NEW dl \in Delivery, Stamp(st, dl)
  PROVE  run' \in [Runs -> [status : RunStatus, delivery : Delivery, src : Runs \cup {None}]]
<1> DEFINE Stamped == [run[att.run] EXCEPT !.status = st, !.delivery = dl]
<1>1. Stamped \in [status : RunStatus, delivery : Delivery, src : Runs \cup {None}]
  BY DEF TypeOK
<1>2. run' = [run EXCEPT ![att.run] = Stamped]
  BY DEF Stamp, TypeOK
<1> QED BY <1>1, <1>2 DEF TypeOK

\* The terminal stamps.
LEMMA FinishStep ==
  ASSUME IInv, NEW st \in {"completed", "fenced", "error"},
         NEW dl \in {"delivered", "undelivered", "failed"}, Finish(st, dl)
  PROVE  IInv'
<1> USE DEF IInv
<1>1. att.run \in Runs /\ run[att.run].status = "running"
  BY DEF Finish, AttemptRows, TypeOK, Attempt
<1>2. TypeOK'
  <2>1. Idle \in Attempt
    BY DEF Idle, Attempt
  <2>2. st \in RunStatus /\ dl \in Delivery
    BY DEF RunStatus, Delivery
  <2>3. run' \in [Runs -> [status : RunStatus, delivery : Delivery, src : Runs \cup {None}]]
    BY <1>1, <2>2, StampType DEF Finish, TypeOK
  <2> QED BY <2>1, <2>3, NoRowsType DEF Finish, Release, TypeOK, history
<1>3. Local'
  BY DEF Finish, Release, Idle, Local, AttemptRows, PredecessorSettled, AmbiguousInFlight,
     GuardCurrent
<1>4. StampOnly
  BY <1>1 DEF StampOnly, Finish, Stamp, TypeOK, history
<1> QED BY <1>2, <1>3, <1>4, StampFrame DEF Local, Tables

\* The hand-off to a fresh attempt leaves no ambiguous call behind.
LEMMA HandOffStep ==
  ASSUME IInv, NEW fold \in BOOLEAN, HandOff(fold)
  PROVE  IInv'
<1> USE DEF IInv
<1>1. att.run \in Runs /\ run[att.run].status = "running"
  BY DEF HandOff, AttemptRows, TypeOK, Attempt
<1>2. TypeOK'
  <2>1. att' \in Attempt
    BY <1>1 DEF HandOff, Attempt, TypeOK
  <2>2. run' \in [Runs -> [status : RunStatus, delivery : Delivery, src : Runs \cup {None}]]
    BY <1>1, StampType DEF HandOff, TypeOK, RunStatus, Delivery
  <2> QED BY <2>1, <2>2, NoRowsType DEF HandOff, TypeOK, history
<1>3. StampOnly
  BY <1>1 DEF StampOnly, HandOff, Stamp, TypeOK, history
<1>4. att'.phase = "queued" /\ att'.run = None /\ att'.pred = att.run /\ att'.src = att.src
  BY DEF HandOff, TypeOK, Attempt
<1>5. run'[att.run].status = "error" /\ \A q \in Runs \ {att.run} : run'[q] = run[q]
  BY <1>1 DEF HandOff, Stamp, TypeOK
<1>6. att.src # None => att.src \in Runs \ {att.run}
  BY <1>1 DEF AttemptRows, HandOff, TypeOK, Attempt
<1>7. AttemptRows'
  BY <1>1, <1>4, <1>5, <1>6, ConstantsAssumption DEF AttemptRows, HandOff, history
<1>8. PredecessorSettled'
  <2>1. \A c \in CallIds : calls[att.run][<<att.run, c>>].state # "dispatched"
    BY DEF HandOff, Running, AmbiguousInFlight, RowAt, Own
  <2>2. \A q \in Runs : att.run \in lineage[q] => q = att.run
    BY <1>1 DEF Lineages, Ancestors
  <2> QED BY <1>4, <2>1, <2>2 DEF PredecessorSettled, HandOff, history
<1>9. AmbiguousInFlight' /\ GuardCurrent'
  BY <1>4 DEF AmbiguousInFlight, GuardCurrent
<1> QED BY <1>2, <1>3, <1>7, <1>8, <1>9, StampFrame DEF Tables

\* The operator claims an interrupted run whose calls are all decided, or gives it up.
LEMMA ResumeOrAbandon ==
  ASSUME IInv, NEW r \in Runs, Resume(r) \/ Abandon(r)
  PROVE  IInv'
<1> USE DEF IInv
<1>1. TypeOK'
  <2>1. Queued(r) \in Attempt
    BY DEF Queued, Attempt
  <2>2. run' \in [Runs -> [status : RunStatus, delivery : Delivery, src : Runs \cup {None}]]
    BY DEF Resume, Abandon, TypeOK, RunStatus, journal
  <2> QED BY <2>1, <2>2 DEF Resume, Abandon, TypeOK, journal, process, history
<1>2. AttemptRows'
  <2>1. CASE Resume(r)
    BY <2>1, ConstantsAssumption
    DEF Resume, Decidable, Queued, AttemptRows, journal, history, TypeOK
  <2>2. CASE Abandon(r)
    BY <2>2 DEF Abandon, Decidable, AttemptRows, process, history, TypeOK, Attempt
  <2> QED BY <2>1, <2>2
<1>3. PredecessorSettled' /\ AmbiguousInFlight' /\ GuardCurrent'
  BY DEF Resume, Abandon, Queued, journal, process, history, PredecessorSettled,
     AmbiguousInFlight, RowAt, Own, GuardCurrent
<1>4. StampOnly
  BY DEF StampOnly, Resume, Abandon, Decidable, journal, process, history, TypeOK
<1> QED BY <1>1, <1>2, <1>3, <1>4, StampFrame DEF Tables

-----------------------------------------------------------------------------
(* Steps that move rows.                                                   *)

\* The live attempt: its run row, its key and its source.
LEMMA LiveFacts ==
  ASSUME IInv, att.phase = "live", NEW c \in CallIds
  PROVE  /\ att.run \in Runs /\ run[att.run].status = "running"
         /\ Own(c) \in Keys /\ Own(c)[1] = att.run
         /\ att.run \in lineage[att.run]
         /\ att.src # att.run /\ att.src \in Runs \cup {None}
         /\ RowAt(c) \in Row
<1>1. att.run \in Runs /\ run[att.run].status = "running" /\ att.src \in Runs \cup {None}
  BY DEF IInv, TypeOK, AttemptRows, Attempt
<1>2. att.src # att.run
  BY <1>1, ConstantsAssumption DEF IInv, AttemptRows
<1>3. att.run \in lineage[att.run]
  BY <1>1 DEF IInv, Lineages
<1> QED BY <1>1, <1>2, <1>3 DEF Own, Keys, RowAt, IInv, TypeOK

\* Writing one own row of the live attempt, nothing else and nobody's grant.
LEMMA OwnRowStep ==
  ASSUME IInv, att.phase = "live", NEW c \in CallIds, NEW new \in Row,
         PutRow(c, new),
         UNCHANGED <<run, att, guard, claimed, lineage>>,
         RowAt(c).state \in {"absent", "planned"} \/ RowAt(c).sig = None \/ new = RowAt(c),
         RowAt(c).state \notin {"absent", "planned"} => new.state = RowAt(c).state,
         new.replayed => new.state = "completed",
         RowAt(c).state = "resolved-retry" /\ RowAt(c).consumed => new.consumed
  PROVE  /\ calls' \in [Runs -> [Keys -> Row]]
         /\ MoveRows /\ AttemptRows' /\ PredecessorSettled' /\ GuardCurrent'
         /\ calls'[att.run][Own(c)] = new
         /\ \A r \in Runs, k \in Keys : (r # att.run \/ k # Own(c)) => calls'[r][k] = calls[r][k]
<1> USE LiveFacts DEF IInv
<1>1. calls' \in [Runs -> [Keys -> Row]]
  BY DEF PutRow, TypeOK
<1>2. calls'[att.run][Own(c)] = new
  BY DEF PutRow, TypeOK
<1>3. \A r \in Runs, k \in Keys : (r # att.run \/ k # Own(c)) => calls'[r][k] = calls[r][k]
  BY DEF PutRow, TypeOK
<1>4. MoveRows
  <2> SUFFICES ASSUME NEW r \in Runs, NEW k \in Keys PROVE RowMove(r, k)
    BY DEF MoveRows
  <2>1. CASE r # att.run \/ k # Own(c)
    BY <1>3, <2>1 DEF RowMove, ReplayedCompleted
  <2>2. CASE r = att.run /\ k = Own(c)
    BY <1>2, <2>2 DEF RowMove, RowAt, Evidence, ReplayedCompleted
  <2> QED BY <2>1, <2>2
<1>5. AttemptRows' /\ PredecessorSettled'
  BY <1>3 DEF AttemptRows, PredecessorSettled
<1>6. GuardCurrent'
  BY <1>3 DEF GuardCurrent, GuardOf
<1> QED BY <1>1, <1>2, <1>3, <1>4, <1>5, <1>6

\* A declaration, and a refused call.
LEMMA DeclareOrRefuse ==
  ASSUME IInv, NEW c \in CallIds, NEW s \in Sigs,
         NoteToolInput(c, s) \/ Refuse(c, s)
  PROVE  IInv'
<1> DEFINE declared == [RowAt(c) EXCEPT !.sig = s,
                                        !.state = IF @ = "absent" THEN "planned" ELSE @]
           refused == Settled(RowAt(c), "completed", TRUE)
<1> USE DEF IInv
<1>1. att.phase = "live" /\ UNCHANGED <<run, att, guard, claimed, inflight, execs, booked, lineage>>
  BY DEF NoteToolInput, Refuse, process, history
<1>2. PICK new \in Row :
         /\ PutRow(c, new)
         /\ new.state # "dispatched" \/ RowAt(c).state = "dispatched"
         /\ RowAt(c).state \in {"absent", "planned"} \/ RowAt(c).sig = None \/ new = RowAt(c)
         /\ RowAt(c).state \notin {"absent", "planned"} => new.state = RowAt(c).state
         /\ new.replayed => new.state = "completed"
         /\ RowAt(c).state = "resolved-retry" /\ RowAt(c).consumed => new.consumed
  <2>1. RowAt(c) \in Row /\ (RowAt(c).replayed => RowAt(c).state = "completed")
    BY <1>1, LiveFacts DEF ReplayedCompleted, RowAt
  <2>2. CASE NoteToolInput(c, s)
    <3>1. declared \in Row
      BY <2>1 DEF Row, CallStates
    <3>2. /\ declared.state = (IF RowAt(c).state = "absent" THEN "planned" ELSE RowAt(c).state)
          /\ declared.replayed = RowAt(c).replayed /\ declared.consumed = RowAt(c).consumed
          /\ declared.sig = s
      BY <2>1 DEF Row
    <3>3. PutRow(c, declared) /\ RowAt(c).sig = None
      BY <2>2 DEF NoteToolInput
    <3> HIDE DEF declared
    <3> QED BY <2>1, <3>1, <3>2, <3>3
  <2>3. CASE Refuse(c, s)
    <3>1. RowAt(c).state # "dispatched"
      BY <2>3 DEF Refuse, IdFree, AmbiguousInFlight
    <3>2. refused \in Row /\ (refused = RowAt(c) \/ refused.state = "completed")
      BY <2>1 DEF Settled, Row, CallStates
    <3>3. RowAt(c).state \in {"absent", "planned"} \/ refused = RowAt(c)
      BY <3>1 DEF Settled
    <3>4. PutRow(c, refused)
      BY <2>3 DEF Refuse
    <3>5. refused.consumed = RowAt(c).consumed
      BY <2>1 DEF Settled, Row
    <3> HIDE DEF refused
    <3> QED BY <2>1, <3>1, <3>2, <3>3, <3>4, <3>5
  <2> QED BY <2>2, <2>3
<1>3. /\ calls' \in [Runs -> [Keys -> Row]]
      /\ MoveRows /\ AttemptRows' /\ PredecessorSettled' /\ GuardCurrent'
      /\ calls'[att.run][Own(c)] = new
      /\ \A r \in Runs, k \in Keys : (r # att.run \/ k # Own(c)) => calls'[r][k] = calls[r][k]
  BY <1>1, <1>2, OwnRowStep
<1>4. TypeOK'
  BY <1>1, <1>3 DEF TypeOK
<1>5. AmbiguousInFlight'
  <2> SUFFICES ASSUME ~att.fault, NEW d \in CallIds,
                      calls'[att.run][Own(d)].state = "dispatched"
               PROVE  \E e \in inflight : e.run = att.run /\ e.call = d
    BY <1>1 DEF AmbiguousInFlight, RowAt, Own
  <2>1. RowAt(d).state = "dispatched"
    <3>1. CASE d = c
      BY <1>2, <1>3, <3>1 DEF RowAt
    <3>2. CASE d # c
      BY <1>1, <1>3, <3>2, LiveFacts DEF Own, RowAt
    <3> QED BY <3>1, <3>2
  <2> QED BY <1>1, <2>1 DEF AmbiguousInFlight
<1> QED BY <1>1, <1>3, <1>4, <1>5, MoveFrame DEF Tables, Entered, TypeOK

\* A tool settles: its row, and no other, gets the outcome.
LEMMA ReturnStep ==
  ASSUME IInv, NEW e \in inflight, NEW st \in {"completed", "failed"}, ToolReturns(e, st)
  PROVE  IInv'
<1> DEFINE key == <<e.run, e.call>>
           old == calls[e.run][key]
           new == Settled(old, st, FALSE)
<1> USE DEF IInv
<1>1. e \in execs /\ e.run \in Runs /\ key \in Keys /\ key[1] = e.run /\ key[1] \in lineage[e.run]
  BY DEF TypeOK, Exec, Keys, Lineages
<1>2. old \in Row /\ (old.replayed => old.state = "completed")
  BY <1>1 DEF TypeOK, ReplayedCompleted
<1>3. /\ new \in Row /\ new.sig = old.sig /\ new.consumed = old.consumed
      /\ \/ new.state = st /\ old.state \in {"absent", "planned", "dispatched"} /\ ~new.replayed
         \/ new = old /\ old.state \notin {"absent", "planned", "dispatched"}
  BY <1>2 DEF Settled, Row, CallStates
<1>4. UNCHANGED <<run, att, guard, claimed, execs, booked, lineage>>
  BY DEF ToolReturns, history
<1> HIDE DEF new
<1>5. /\ calls' \in [Runs -> [Keys -> Row]]
      /\ calls'[e.run][key] = new
      /\ \A r \in Runs, k \in Keys : (r # e.run \/ k # key) => calls'[r][k] = calls[r][k]
  BY <1>1, <1>3 DEF ToolReturns, TypeOK, new
<1>6. MoveRows
  <2> SUFFICES ASSUME NEW r \in Runs, NEW k \in Keys PROVE RowMove(r, k)
    BY <1>4 DEF MoveRows
  <2>1. CASE r # e.run \/ k # key
    BY <1>5, <2>1 DEF RowMove, ReplayedCompleted
  <2>2. CASE r = e.run /\ k = key
    BY <1>1, <1>2, <1>3, <1>5, <2>2 DEF RowMove, Evidence
  <2> QED BY <2>1, <2>2
<1>7. TypeOK'
  BY <1>4, <1>5 DEF TypeOK, ToolReturns
<1>8. \A r \in Runs, k \in Keys :
         calls'[r][k].state = "dispatched" =>
            calls[r][k].state = "dispatched" /\ (r # e.run \/ k # key)
  BY <1>3, <1>5
<1>9. AttemptRows' /\ PredecessorSettled'
  <2>1. /\ att.src \in Runs \cup {None} /\ att.pred \in Runs \cup {None}
        /\ \A q \in Runs, c \in CallIds : <<q, c>> \in Keys
    BY DEF TypeOK, Attempt, Keys
  <2>2. AttemptRows'
    BY <1>4, <1>8, <2>1 DEF AttemptRows
  <2>3. PredecessorSettled'
    BY <1>4, <1>8, <2>1 DEF PredecessorSettled
  <2> QED BY <2>2, <2>3
<1>10. AmbiguousInFlight'
  <2> SUFFICES ASSUME att.phase = "live", ~att.fault, NEW c \in CallIds,
                      calls'[att.run][Own(c)].state = "dispatched"
               PROVE  \E p \in inflight' : p.run = att.run /\ p.call = c
    BY <1>4 DEF AmbiguousInFlight, RowAt, Own
  <2>1. calls[att.run][Own(c)].state = "dispatched" /\ (att.run # e.run \/ Own(c) # key)
    BY <1>8, LiveFacts
  <2>2. PICK p \in inflight : p.run = att.run /\ p.call = c
    BY <2>1 DEF AmbiguousInFlight, RowAt
  <2>3. p # e
    BY <2>1, <2>2 DEF Own
  <2> QED BY <2>2, <2>3 DEF ToolReturns
<1>11. GuardCurrent'
  BY <1>1, <1>4, <1>5 DEF GuardCurrent, GuardOf, TypeOK, Attempt, AttemptRows
<1> QED BY <1>4, <1>6, <1>7, <1>9, <1>10, <1>11, MoveFrame DEF Tables, Entered, TypeOK

\* The operator's decisions touch a run no attempt holds.
LEMMA DecideStep ==
  ASSUME IInv, NEW r \in Runs, NEW k \in Keys,
         NEW st \in {"resolved-done", "resolved-skip"},
         Decide(r, k, st) \/ AuthorizeRetry(r, k)
  PROVE  IInv'
<1> USE DEF IInv
<1>1. /\ run[r].status = "interrupted" /\ r \notin claimed
      /\ UNCHANGED <<run, att, guard, claimed, inflight, execs, booked, lineage>>
  BY DEF Decide, AuthorizeRetry, Decidable, process, history
<1>2. /\ ~calls[r][k].replayed
      /\ calls[r][k].state \in {"dispatched", "completed", "failed", "resolved-done"}
      /\ calls[r][k] \in Row
  BY DEF Decide, AuthorizeRetry, ReplayedCompleted, TypeOK
<1>3. PICK new \in Row :
         /\ calls' = [calls EXCEPT ![r][k] = new]
         /\ new.sig = calls[r][k].sig /\ new.replayed = calls[r][k].replayed
         /\ new.state \in {"resolved-done", "resolved-skip", "resolved-retry"}
         /\ calls[r][k].state # "dispatched" => new.state = "resolved-retry"
  <2>1. CASE Decide(r, k, st)
    <3> DEFINE decided == [calls[r][k] EXCEPT !.state = st]
    <3>1. decided \in Row /\ decided.sig = calls[r][k].sig
          /\ decided.replayed = calls[r][k].replayed
          /\ decided.state = st
      BY <1>2 DEF Row, CallStates
    <3>2. calls' = [calls EXCEPT ![r][k] = decided]
      BY <1>2, <2>1 DEF Decide, TypeOK, Row
    <3>3. calls[r][k].state = "dispatched"
      BY <2>1 DEF Decide
    <3> HIDE DEF decided
    <3> QED BY <3>1, <3>2, <3>3
  <2>2. CASE AuthorizeRetry(r, k)
    <3> DEFINE granted == [calls[r][k] EXCEPT !.state = "resolved-retry", !.consumed = FALSE]
    <3>1. granted \in Row /\ granted.sig = calls[r][k].sig
          /\ granted.replayed = calls[r][k].replayed
          /\ granted.state = "resolved-retry"
      BY <1>2 DEF Row, CallStates
    <3>2. calls' = [calls EXCEPT ![r][k] = granted]
      BY <1>2, <2>2 DEF AuthorizeRetry, TypeOK, Row
    <3> HIDE DEF granted
    <3> QED BY <3>1, <3>2
  <2> QED BY <2>1, <2>2
<1>4. /\ calls' \in [Runs -> [Keys -> Row]]
      /\ calls'[r][k] = new
      /\ \A q \in Runs, j \in Keys : (q # r \/ j # k) => calls'[q][j] = calls[q][j]
  BY <1>3 DEF TypeOK
<1>5. MoveRows
  <2> SUFFICES ASSUME NEW q \in Runs, NEW j \in Keys PROVE RowMove(q, j)
    BY <1>1 DEF MoveRows
  <2>1. CASE q # r \/ j # k
    BY <1>4, <2>1 DEF RowMove, ReplayedCompleted
  <2>2. CASE q = r /\ j = k
    <3>1. calls'[q][j] = new /\ calls[q][j] = calls[r][k] /\ run[q].status = "interrupted"
      BY <1>1, <1>4, <2>2
    <3> QED BY <1>2, <1>3, <3>1 DEF RowMove, Evidence
  <2> QED BY <2>1, <2>2
<1>6. TypeOK'
  BY <1>1, <1>4 DEF TypeOK
<1>7. r # att.src /\ r # att.run
  BY <1>1, ConstantsAssumption DEF AttemptRows, TypeOK, Attempt
<1>8. \A q \in Runs, j \in Keys :
         calls'[q][j].state = "dispatched" => calls[q][j].state = "dispatched"
  BY <1>3, <1>4
<1>9. AttemptRows' /\ PredecessorSettled' /\ AmbiguousInFlight'
  <2>1. /\ att.src \in Runs \cup {None} /\ att.pred \in Runs \cup {None}
        /\ \A q \in Runs, c \in CallIds : <<q, c>> \in Keys
    BY DEF TypeOK, Attempt, Keys
  <2>2. AttemptRows'
    BY <1>1, <1>8, <2>1 DEF AttemptRows
  <2>3. PredecessorSettled'
    BY <1>1, <1>8, <2>1 DEF PredecessorSettled
  <2>4. AmbiguousInFlight'
    BY <1>1, <1>8, <2>1, LiveFacts DEF AmbiguousInFlight, RowAt, Own
  <2> QED BY <2>2, <2>3, <2>4
<1>10. GuardCurrent'
  BY <1>1, <1>4, <1>7 DEF GuardCurrent, GuardOf, TypeOK, Attempt, AttemptRows
<1> QED BY <1>1, <1>5, <1>6, <1>9, <1>10, MoveFrame DEF Tables, Entered, TypeOK

-----------------------------------------------------------------------------
(* The fence lets a call through.                                          *)

\* The guard's entries are the inherited rows, so what classifyRetry reads of it
\* is what the table holds.
LEMMA GuardReads ==
  ASSUME IInv, att.phase = "live", NEW k \in Keys
  PROVE  /\ guard[k].state # "absent" =>
               k[1] # att.run /\ guard[k] = calls[att.run][k]
         /\ (k[1] # att.run /\ calls[att.run][k].state \in Evidence
               /\ calls[att.run][k].sig # None /\ ~calls[att.run][k].replayed)
            => guard[k] = calls[att.run][k]
  BY DEF IInv, GuardCurrent, GuardOf, NoRow, Evidence

\* An ancestor's execution of the same call is an entry of the guard.
LEMMA AncestorSeen ==
  ASSUME IInv, att.phase = "live", NEW s \in Sigs, NEW p \in booked,
         p.run \in Ancestors(att.run), p.sig = s
  PROVE  <<p.run, p.call>> \in Grants(s) \cup Skips(s) \cup Executions(s)
<1> DEFINE k == <<p.run, p.call>>
<1>1. k \in Keys /\ k[1] # att.run /\ att.run \in Runs /\ s # None
  BY ConstantsAssumption
  DEF IInv, TypeOK, Exec, Keys, Ancestors, AttemptRows, Attempt
<1>2. calls[att.run][k].state \in Evidence /\ calls[att.run][k].sig = s /\ ~calls[att.run][k].replayed
  BY <1>1 DEF IInv, EvidenceCarried
<1>3. guard[k] = calls[att.run][k]
  BY <1>1, <1>2, GuardReads
<1> QED BY <1>1, <1>2, <1>3 DEF Grants, Skips, Executions, Entries, Evidence

\* The dispatch row of a call: the target was at most planned.
LEMMA DispatchRow ==
  ASSUME NEW row \in Row, NEW s \in Sigs, row.state \in {"absent", "planned"}
  PROVE  /\ Dispatched(row, s) \in Row
         /\ Dispatched(row, s).state = "dispatched" /\ Dispatched(row, s).sig = s
         /\ Dispatched(row, s).replayed = row.replayed
         /\ Dispatched(row, s).consumed = row.consumed
  BY DEF Dispatched, Row, CallStates

LEMMA DispatchStep ==
  ASSUME IInv, NEW c \in CallIds, NEW s \in Sigs, Dispatch(c, s)
  PROVE  IInv'
<1> DEFINE new == Dispatched(RowAt(c), s)
           e == [run |-> att.run, call |-> c, sig |-> s, grant |-> None]
<1> USE LiveFacts DEF IInv
<1>1. /\ att.phase = "live" /\ ~att.fault
      /\ Clear(s) /\ PutRow(c, new)
      /\ UNCHANGED <<run, att, guard, claimed, lineage>>
      /\ execs' = execs \cup {e} /\ inflight' = inflight \cup {e}
      /\ booked' = IF RowAt(c).state \in {"absent", "planned"} THEN booked \cup {e} ELSE booked
  BY DEF Dispatch, Enter
<1>2. RowAt(c) \in Row /\ (RowAt(c).replayed => RowAt(c).state = "completed")
  BY <1>1 DEF ReplayedCompleted, RowAt
<1>3. /\ new \in Row /\ new.consumed = RowAt(c).consumed
      /\ \/ /\ RowAt(c).state \in {"absent", "planned"}
            /\ new.state = "dispatched" /\ new.sig = s /\ ~new.replayed
         \/ RowAt(c).state \notin {"absent", "planned"} /\ new = RowAt(c)
  <2>1. CASE RowAt(c).state \in {"absent", "planned"}
    BY <1>2, <2>1, DispatchRow
  <2>2. CASE RowAt(c).state \notin {"absent", "planned"}
    BY <1>2, <2>2 DEF Dispatched
  <2> QED BY <2>1, <2>2
<1> HIDE DEF new
<1>4. /\ calls' \in [Runs -> [Keys -> Row]]
      /\ MoveRows /\ AttemptRows' /\ PredecessorSettled' /\ GuardCurrent'
      /\ calls'[att.run][Own(c)] = new
      /\ \A r \in Runs, k \in Keys : (r # att.run \/ k # Own(c)) => calls'[r][k] = calls[r][k]
  <2>1. PutRow(c, new)
    BY <1>1
  <2>2. /\ calls' \in [Runs -> [Keys -> Row]]
        /\ calls'[att.run][Own(c)] = new
        /\ \A r \in Runs, k \in Keys : (r # att.run \/ k # Own(c)) => calls'[r][k] = calls[r][k]
    BY <1>1, <1>3, <2>1 DEF PutRow, TypeOK
  <2>3. MoveRows
    <3> SUFFICES ASSUME NEW r \in Runs, NEW k \in Keys PROVE RowMove(r, k)
      BY <1>1 DEF MoveRows
    <3>1. CASE r # att.run \/ k # Own(c)
      BY <2>2, <3>1 DEF RowMove, ReplayedCompleted
    <3>2. CASE r = att.run /\ k = Own(c)
      BY <1>1, <1>2, <1>3, <2>2, <3>2 DEF RowMove, RowAt, Evidence
    <3> QED BY <3>1, <3>2
  <2>4. AttemptRows'
    BY <1>1, <2>2 DEF AttemptRows
  <2>5. PredecessorSettled' /\ GuardCurrent'
    BY <1>1, <2>2 DEF PredecessorSettled, GuardCurrent, GuardOf
  <2> QED BY <2>2, <2>3, <2>4, <2>5
<1>5. e \in Exec /\ e.run = att.run /\ e.call = c /\ e.sig = s /\ e.grant = None
  BY <1>1 DEF Exec
<1> HIDE DEF e
<1>6. TypeOK'
  BY <1>1, <1>4, <1>5 DEF TypeOK
<1>7. AmbiguousInFlight'
  <2> SUFFICES ASSUME NEW d \in CallIds, calls'[att.run][Own(d)].state = "dispatched"
               PROVE  \E p \in inflight' : p.run = att.run /\ p.call = d
    BY <1>1 DEF AmbiguousInFlight, RowAt, Own
  <2>1. CASE d = c
    BY <1>1, <1>5, <2>1
  <2>2. CASE d # c
    <3>1. RowAt(d).state = "dispatched"
      BY <1>1, <1>4, <2>2, LiveFacts DEF Own, RowAt
    <3> QED BY <1>1, <3>1 DEF AmbiguousInFlight
  <2> QED BY <2>1, <2>2
<1>8. Fresh(e)
  <2>1. \A p \in booked : (p.run \in Ancestors(att.run) /\ p.sig = s) => s \in SafeSigs
    BY <1>1, AncestorSeen DEF Clear
  <2>2. \A k \in Keys : k[1] # att.run =>
           ~(calls[att.run][k].state = "resolved-skip" /\ calls[att.run][k].sig = s)
    <3> SUFFICES ASSUME NEW k \in Keys, k[1] # att.run,
                        calls[att.run][k].state = "resolved-skip", calls[att.run][k].sig = s
                 PROVE  FALSE
      OBVIOUS
    <3>1. ~calls[att.run][k].replayed /\ s # None
      BY <1>1, ConstantsAssumption DEF ReplayedCompleted
    <3>2. guard[k] = calls[att.run][k]
      BY <1>1, <3>1, GuardReads DEF Evidence
    <3> QED BY <1>1, <3>2 DEF Clear, Skips, Entries
  <2> QED BY <1>1, <1>5, <2>1, <2>2 DEF Fresh
<1>9. Entered
  <2>1. RowAt(c).state \in {"absent", "planned"} => Booked(e)
    BY <1>3, <1>4, <1>5 DEF Booked, Own
  <2>2. booked' \subseteq execs'
    BY <1>1 DEF TypeOK
  <2> QED BY <1>1, <1>5, <1>8, <2>1, <2>2 DEF Entered
<1> QED BY <1>4, <1>6, <1>7, <1>9, MoveFrame DEF Tables

LEMMA GrantStep ==
  ASSUME IInv, NEW c \in CallIds, NEW s \in Sigs, NEW g \in Keys, DispatchGranted(c, s, g)
  PROVE  IInv'
<1> DEFINE new == Dispatched(RowAt(c), s)
           spent == [calls[att.run][g] EXCEPT !.consumed = TRUE]
           e == [run |-> att.run, call |-> c, sig |-> s, grant |-> g]
<1> USE LiveFacts DEF IInv
<1>1. /\ att.phase = "live" /\ ~att.fault /\ RowAt(c).state \in {"absent", "planned"}
      /\ g \in Grants(s)
      /\ calls[att.run][g].state = "resolved-retry"
      /\ ~calls[att.run][g].consumed /\ calls[att.run][g].sig = s
      /\ calls' = [calls EXCEPT ![att.run][Own(c)] = Dispatched(@, s),
                                ![att.run][g].consumed = TRUE]
      /\ guard' = [guard EXCEPT ![g].consumed = TRUE]
      /\ UNCHANGED <<run, att, claimed, lineage>>
      /\ execs' = execs \cup {e} /\ inflight' = inflight \cup {e} /\ booked' = booked \cup {e}
  BY DEF DispatchGranted, Enter
<1>2. g # Own(c) /\ g[1] # att.run /\ guard[g] = calls[att.run][g]
  BY <1>1, GuardReads DEF RowAt, Grants, Entries
<1>3. RowAt(c) \in Row /\ ~RowAt(c).replayed /\ calls[att.run][g] \in Row
      /\ ~calls[att.run][g].replayed /\ s # None
  BY <1>1, ConstantsAssumption DEF ReplayedCompleted, RowAt, TypeOK
<1>4. /\ new \in Row /\ new.state = "dispatched" /\ new.sig = s /\ ~new.replayed
      /\ new.consumed = RowAt(c).consumed
  BY <1>1, <1>3, DispatchRow
<1>5. /\ spent \in Row /\ spent.state = "resolved-retry" /\ spent.sig = s /\ spent.consumed
      /\ spent.replayed = calls[att.run][g].replayed
  BY <1>1, <1>3 DEF Row
<1> HIDE DEF new, spent
<1>6. calls'[att.run] = [calls[att.run] EXCEPT ![Own(c)] = new, ![g] = spent]
  <2> DEFINE one == [calls EXCEPT ![att.run][Own(c)] = Dispatched(@, s)]
  <2>1. calls' = [one EXCEPT ![att.run][g].consumed = TRUE]
    BY <1>1
  <2>2. one[att.run] = [calls[att.run] EXCEPT ![Own(c)] = new] /\ att.run \in DOMAIN one
    BY <1>1 DEF TypeOK, new, RowAt
  <2>3. one[att.run][g] = calls[att.run][g]
    BY <1>1, <1>2, <2>2 DEF TypeOK
  <2> HIDE DEF one
  <2>4. calls'[att.run] = [one[att.run] EXCEPT ![g] = [one[att.run][g] EXCEPT !.consumed = TRUE]]
    BY <2>1, <2>2
  <2> QED BY <2>2, <2>3, <2>4 DEF spent
<1>7. guard' = [guard EXCEPT ![g] = spent]
  BY <1>1, <1>2 DEF TypeOK, spent
<1>8. /\ calls' \in [Runs -> [Keys -> Row]]
      /\ calls'[att.run][Own(c)] = new
      /\ calls'[att.run][g] = spent
      /\ \A r \in Runs, k \in Keys :
            (r # att.run \/ (k # Own(c) /\ k # g)) => calls'[r][k] = calls[r][k]
  <2>1. calls'[att.run] \in [Keys -> Row]
    <3>1. calls[att.run] \in [Keys -> Row]
      BY <1>1 DEF TypeOK
    <3> QED BY <1>4, <1>5, <1>6, <3>1
  <2>2. \A r \in Runs : r # att.run => calls'[r] = calls[r]
    BY <1>1 DEF TypeOK
  <2>3. DOMAIN calls' = Runs /\ calls' = [r \in Runs |-> calls'[r]]
    BY <1>1 DEF TypeOK
  <2>4. calls' \in [Runs -> [Keys -> Row]]
    BY <2>1, <2>2, <2>3 DEF TypeOK
  <2>5. calls'[att.run][Own(c)] = new /\ calls'[att.run][g] = spent
    BY <1>1, <1>2, <1>6 DEF TypeOK
  <2>6. \A k \in Keys : (k # Own(c) /\ k # g) => calls'[att.run][k] = calls[att.run][k]
    BY <1>1, <1>6 DEF TypeOK
  <2> QED BY <2>2, <2>4, <2>5, <2>6
<1>9. MoveRows
  <2> SUFFICES ASSUME NEW r \in Runs, NEW k \in Keys PROVE RowMove(r, k)
    BY <1>1 DEF MoveRows
  <2>1. CASE r # att.run \/ (k # Own(c) /\ k # g)
    BY <1>8, <2>1 DEF RowMove, ReplayedCompleted
  <2>2. CASE r = att.run /\ k = Own(c)
    BY <1>1, <1>4, <1>8, <2>2 DEF RowMove, RowAt, Evidence
  <2>3. CASE r = att.run /\ k = g
    BY <1>1, <1>3, <1>5, <1>8, <2>3 DEF RowMove, Evidence
  <2> QED BY <2>1, <2>2, <2>3
<1>10. AttemptRows'
  BY <1>1, <1>8 DEF AttemptRows
<1>11. PredecessorSettled'
  BY <1>1 DEF PredecessorSettled
<1>12. GuardCurrent'
  <2> SUFFICES ASSUME NEW k \in Keys
               PROVE IF k[1] = att.run THEN guard'[k].state = "absent"
                     ELSE guard'[k] = GuardOf(calls'[att.run])[k]
    BY <1>1 DEF GuardCurrent
  <2>1. CASE k # g
    <3>1. guard'[k] = guard[k]
      BY <1>7, <2>1 DEF TypeOK
    <3>2. k[1] # att.run => calls'[att.run][k] = calls[att.run][k]
      BY <1>1, <1>8, <2>1
    <3> QED BY <1>1, <3>1, <3>2 DEF GuardCurrent, GuardOf
  <2>2. CASE k = g
    BY <1>1, <1>2, <1>3, <1>5, <1>7, <1>8, <2>2 DEF GuardOf, TypeOK
  <2> QED BY <2>1, <2>2
<1>13. e \in Exec /\ e.run = att.run /\ e.call = c /\ e.sig = s /\ e.grant = g
  BY <1>1 DEF Exec
<1> HIDE DEF e
<1>14. TypeOK'
  BY <1>1, <1>5, <1>7, <1>8, <1>13 DEF TypeOK
<1>15. AmbiguousInFlight'
  <2> SUFFICES ASSUME NEW d \in CallIds, calls'[att.run][Own(d)].state = "dispatched"
               PROVE  \E p \in inflight' : p.run = att.run /\ p.call = d
    BY <1>1 DEF AmbiguousInFlight, RowAt, Own
  <2>1. CASE d = c
    BY <1>1, <1>13, <2>1
  <2>2. CASE d # c
    <3>1. Own(d) # Own(c) /\ Own(d) # g
      BY <1>2, <2>2 DEF Own
    <3>2. RowAt(d).state = "dispatched"
      BY <1>1, <1>8, <3>1, LiveFacts DEF RowAt
    <3> QED BY <1>1, <3>2 DEF AmbiguousInFlight
  <2> QED BY <2>1, <2>2
<1>16. Fresh(e)
  <2>1. e.grant # None
    BY <1>13, ConstantsAssumption DEF Keys
  <2> QED BY <1>1, <1>5, <1>8, <1>13, <2>1 DEF Fresh
<1>17. Entered
  <2>1. Booked(e)
    BY <1>4, <1>8, <1>13 DEF Booked, Own
  <2>2. booked' \subseteq execs'
    BY <1>1 DEF TypeOK
  <2> QED BY <1>1, <1>13, <1>16, <2>1, <2>2 DEF Entered
<1> QED BY <1>9, <1>10, <1>11, <1>12, <1>14, <1>15, <1>17, MoveFrame DEF Tables

-----------------------------------------------------------------------------
(* A new attempt inherits the evidence of what it continues.               *)

\* What one INSERT OR IGNORE of qInherit leaves in a table.
LEMMA InheritRows ==
  ASSUME NEW into \in [Keys -> Row], NEW from \in [Keys -> Row],
         \A k \in Keys : into[k].state # "dispatched"
  PROVE  /\ Inherit(into, from) \in [Keys -> Row]
         /\ \A k \in Keys :
               /\ Inherit(into, from)[k].state # "dispatched"
               /\ Inherit(into, from)[k] \in {into[k], from[k]}
               /\ into[k].state # "absent" => Inherit(into, from)[k] = into[k]
               /\ (into[k].state = "absent" /\ from[k].state # "dispatched")
                     => Inherit(into, from)[k] = from[k]
  BY DEF Inherit

LEMMA BeginRunStep ==
  ASSUME IInv, NEW r \in Runs, BeginRun(r)
  PROVE  IInv'
<1> DEFINE P == att.pred
           S == att.src
           B == IF P # None THEN P ELSE S
           first == Inherit(NoRows, RowsOf(P))
           rows == Inherit(first, RowsOf(S))
<1> USE DEF IInv
<1>1. /\ att.phase = "queued" /\ run[r].status = "none"
      /\ P \in Runs \cup {None} /\ S \in Runs \cup {None} /\ B \in Runs \cup {None}
      /\ UNCHANGED <<claimed, inflight, execs, booked>> /\ booked \subseteq execs
      /\ None \notin Runs
  BY ConstantsAssumption DEF BeginRun, TypeOK, Attempt
<1>2. /\ P # None => P # r /\ run[P].status = "error"
      /\ S # None => /\ S # r /\ \A k \in Keys : calls[S][k].state # "dispatched"
                     /\ run[S].status = IF P = None THEN "interrupted" ELSE "resumed"
      /\ P # None /\ S # None => lineage[S] \subseteq lineage[P]
      /\ B # None => B # r /\ B \in lineage[B]
  BY <1>1 DEF AttemptRows, Lineages
<1>3. \A q \in Runs : r \notin lineage[q]
  BY <1>1 DEF Lineages
<1>4. \A e \in execs : e.run # r /\ e.run \in Runs /\ <<e.run, e.call>> \in Keys
                       /\ e.sig # None /\ (e.grant # None => e.grant \in Keys)
  BY <1>1, ConstantsAssumption DEF Lineages, TypeOK, Exec, Keys
<1>5. /\ rows \in [Keys -> Row]
      /\ \A k \in Keys :
            /\ rows[k].state # "dispatched"
            /\ \/ rows[k] = NoRow
               \/ P # None /\ rows[k] = calls[P][k]
               \/ S # None /\ rows[k] = calls[S][k]
            /\ (B # None /\ calls[B][k].state \in Evidence) => rows[k] = calls[B][k]
  <2>1. RowsOf(P) \in [Keys -> Row] /\ RowsOf(S) \in [Keys -> Row]
    BY <1>1, NoRowsType DEF RowsOf, TypeOK
  <2>2. \A k \in Keys : NoRows[k] = NoRow /\ NoRow.state = "absent"
    BY DEF NoRows, NoRow
  <2>3. /\ first \in [Keys -> Row]
        /\ \A k \in Keys :
              /\ first[k].state # "dispatched"
              /\ first[k] \in {NoRow, RowsOf(P)[k]}
              /\ RowsOf(P)[k].state # "dispatched" => first[k] = RowsOf(P)[k]
    BY <2>1, <2>2, NoRowsType, InheritRows
  <2> HIDE DEF first
  <2>4. /\ rows \in [Keys -> Row]
        /\ \A k \in Keys :
              /\ rows[k].state # "dispatched"
              /\ rows[k] \in {first[k], RowsOf(S)[k]}
              /\ first[k].state # "absent" => rows[k] = first[k]
              /\ (first[k].state = "absent" /\ RowsOf(S)[k].state # "dispatched")
                    => rows[k] = RowsOf(S)[k]
    BY <2>1, <2>3, InheritRows
  <2> HIDE DEF rows
  <2> QED BY <2>2, <2>3, <2>4 DEF RowsOf, Evidence
<1> HIDE DEF rows
<1>6. /\ calls' \in [Runs -> [Keys -> Row]] /\ calls'[r] = rows
      /\ \A q \in Runs : q # r => calls'[q] = calls[q]
  BY <1>1, <1>5 DEF BeginRun, TypeOK, rows
<1>7. /\ run' \in [Runs -> [status : RunStatus, delivery : Delivery, src : Runs \cup {None}]]
      /\ run'[r].status = "running"
      /\ S # None => run'[S].status = "resumed"
      /\ \A q \in Runs : (q # r /\ q # S) => run'[q] = run[q]
  <2>1. run' = [q \in Runs |->
                  IF q = r THEN [status |-> "running", delivery |-> "pending", src |-> S]
                  ELSE IF q = S THEN [run[q] EXCEPT !.status = "resumed"]
                  ELSE run[q]]
    BY DEF BeginRun
  <2>2. run \in [Runs -> [status : RunStatus, delivery : Delivery, src : Runs \cup {None}]]
    BY DEF TypeOK
  <2> QED BY <1>1, <1>2, <2>1, <2>2 DEF RunStatus, Delivery
<1>8. /\ lineage' \in [Runs -> SUBSET Runs]
      /\ lineage'[r] = (IF B = None THEN {} ELSE lineage[B]) \cup {r}
      /\ \A q \in Runs : q # r => lineage'[q] = lineage[q]
  <2> DEFINE U == UNION {lineage[q] : q \in {P, S} \ {None}}
  <2>1. U = IF B = None THEN {} ELSE lineage[B]
    BY <1>1, <1>2
  <2>4. lineage' = [lineage EXCEPT ![r] = {r} \cup U]
    BY DEF BeginRun
  <2> HIDE DEF U
  <2>2. lineage' = [lineage EXCEPT ![r] = (IF B = None THEN {} ELSE lineage[B]) \cup {r}]
    BY <2>1, <2>4
  <2>3. (IF B = None THEN {} ELSE lineage[B]) \subseteq Runs
    BY <1>1 DEF TypeOK
  <2> QED BY <2>2, <2>3 DEF TypeOK
<1>9. /\ att'.phase = "live" /\ att'.run = r /\ att'.src = S /\ att'.pred = P
      /\ att' \in Attempt
      /\ guard' = GuardOf(rows)
  BY <1>1, <1>6 DEF BeginRun, TypeOK, Attempt
<1>10. TypeOK'
  <2>1. guard' \in [Keys -> Row]
    BY <1>5, <1>9, NoRowsType DEF GuardOf
  <2> QED BY <1>1, <1>6, <1>7, <1>8, <1>9, <2>1 DEF TypeOK
<1>11. /\ r \notin (IF B = None THEN {} ELSE lineage[B])
       /\ Ancestors(r)' = IF B = None THEN {} ELSE lineage[B]
       /\ \A q \in Runs : q # r => Ancestors(q)' = Ancestors(q)
       /\ \A p \in Runs : Ancestors(p)' \subseteq Runs \ {r}
  <2>1. r \notin (IF B = None THEN {} ELSE lineage[B])
    BY <1>1, <1>3
  <2>2. Ancestors(r)' = IF B = None THEN {} ELSE lineage[B]
    BY <1>8, <2>1 DEF Ancestors
  <2>3. \A q \in Runs : q # r => Ancestors(q)' = Ancestors(q)
    BY <1>8 DEF Ancestors
  <2>4. \A p \in Runs : lineage'[p] \subseteq Runs /\ (p # r => r \notin lineage'[p])
    BY <1>3, <1>8
  <2>5. \A p \in Runs : Ancestors(p)' \subseteq Runs \ {r}
    BY <2>4 DEF Ancestors
  <2> QED BY <2>1, <2>2, <2>3, <2>5
<1> HIDE DEF B
<1>12. Lineages'
  <2>1. \A q \in Runs : IF run'[q].status = "none" THEN lineage'[q] = {} ELSE q \in lineage'[q]
    BY <1>1, <1>2, <1>7, <1>8 DEF Lineages
  <2>2. \A q \in Runs : run[q].status # "none" => run'[q].status # "none"
    BY <1>1, <1>7
  <2>3. \A q, p \in Runs : p \in lineage'[q] => run'[p].status # "none"
    BY <1>1, <1>7, <1>8, <1>11, <2>2 DEF Lineages
  <2>4. \A q \in Runs : run[q].status \in {"resumed", "error"} => run'[q].status \in {"resumed", "error"}
    BY <1>1, <1>7
  <2>5. B # None => run'[B].status \in {"resumed", "error"} /\ B \in Runs
    BY <1>1, <1>2, <1>7, <2>4 DEF B
  <2>6. \A q \in Runs : \A p \in Ancestors(q)' : run'[p].status \in {"resumed", "error"}
    <3>1. \A p \in Ancestors(r)' : run'[p].status \in {"resumed", "error"}
      BY <1>1, <1>11, <2>4, <2>5 DEF Lineages, Ancestors, TypeOK
    <3>2. \A q \in Runs : q # r => \A p \in Ancestors(q)' : run'[p].status \in {"resumed", "error"}
      BY <1>11, <2>4 DEF Lineages, Ancestors, TypeOK
    <3> QED BY <3>1, <3>2
  <2>7. \A e \in execs' : run'[e.run].status # "none"
    BY <1>1, <1>4, <2>2 DEF Lineages
  <2>8. \A q \in Runs : \A p \in lineage'[q] : run'[p].status # "none"
    BY <1>8, <2>3
  <2> QED BY <2>1, <2>6, <2>7, <2>8 DEF Lineages
<1>13. RowOrigins' /\ ReplayedCompleted'
  <2>1. \A k \in Keys : rows[k].state # "absent" => k[1] \in lineage'[r]
    BY <1>1, <1>2, <1>5, <1>8 DEF RowOrigins, NoRow, B
  <2>2. \A k \in Keys : rows[k].replayed => rows[k].state = "completed"
    BY <1>1, <1>5 DEF ReplayedCompleted, NoRow
  <2>3. RowOrigins'
    BY <1>6, <1>8, <2>1 DEF RowOrigins
  <2> QED BY <1>6, <2>2, <2>3 DEF ReplayedCompleted
<1>14. EvidenceCarried'
  <2> SUFFICES ASSUME NEW e \in booked, e.run \in Ancestors(r)'
               PROVE  LET row == rows[<<e.run, e.call>>]
                      IN  row.state \in Evidence /\ row.sig = e.sig /\ ~row.replayed
    BY <1>1, <1>6, <1>11 DEF EvidenceCarried
  <2> DEFINE key == <<e.run, e.call>>
  <2>1. B \in Runs /\ B # None /\ e.run \in lineage[B]
    BY <1>1, <1>11
  <2>2. calls[B][key].state \in Evidence /\ calls[B][key].sig = e.sig /\ ~calls[B][key].replayed
    <3>1. CASE e.run = B
      <4>1. /\ calls[B][key].sig = e.sig /\ ~calls[B][key].replayed
            /\ calls[B][key].state \notin {"absent", "planned"}
        BY <3>1 DEF Safety, EveryDispatchJournaled, Journaled
      <4>2. calls[B][key].state # "dispatched"
        <5>1. e.call \in CallIds
          BY <1>1 DEF TypeOK, Exec
        <5> QED BY <1>1, <1>2, <1>4, <2>1, <3>1, <5>1 DEF PredecessorSettled, B
      <4>3. calls[B][key].state \in CallStates
        BY <1>4, <2>1 DEF TypeOK, Row
      <4> QED BY <4>1, <4>2, <4>3 DEF CallStates, Evidence
    <3>2. CASE e.run # B
      BY <2>1, <3>2 DEF EvidenceCarried, Ancestors
    <3> QED BY <3>1, <3>2
  <2> QED BY <1>1, <1>4, <1>5, <2>1, <2>2
<1>15. SpentCarried'
  <2> SUFFICES ASSUME NEW e \in execs, e.grant # None, e.run \in lineage'[r]
               PROVE  rows[e.grant].state = "resolved-retry" /\ rows[e.grant].consumed
    BY <1>1, <1>6, <1>8 DEF SpentCarried
  <2>1. B \in Runs /\ B # None /\ e.run \in lineage[B]
    BY <1>1, <1>4, <1>8
  <2>2. calls[B][e.grant].state = "resolved-retry" /\ calls[B][e.grant].consumed
    BY <2>1 DEF SpentCarried
  <2> QED BY <1>4, <1>5, <2>1, <2>2 DEF Evidence
<1>16. SkipCarried'
  <2> SUFFICES ASSUME NEW q \in Ancestors(r)', NEW k \in Keys,
                      calls[q][k].state = "resolved-skip", calls[q][k].sig # None
               PROVE  rows[k].state = "resolved-skip" /\ rows[k].sig = calls[q][k].sig
    <3>1. \A p \in Runs : \A q \in Ancestors(p)' : calls'[q] = calls[q]
      BY <1>6, <1>11
    <3>2. \A p \in Runs : p # r => calls'[p] = calls[p] /\ Ancestors(p)' = Ancestors(p)
      BY <1>6, <1>11
    <3> QED BY <1>6, <3>1, <3>2 DEF SkipCarried
  <2>1. B \in Runs /\ B # None /\ q \in lineage[B]
    BY <1>1, <1>11
  <2>2. calls[B][k].state = "resolved-skip" /\ calls[B][k].sig = calls[q][k].sig
    BY <2>1 DEF SkipCarried, Ancestors
  <2> QED BY <1>5, <2>1, <2>2 DEF Evidence
<1>17. NoUnauthorizedRepeat' /\ GrantSpentOnce' /\ EveryDispatchJournaled'
  <2>1. NoUnauthorizedRepeat'
    BY <1>1, <1>4, <1>11 DEF Safety, NoUnauthorizedRepeat
  <2>2. GrantSpentOnce'
    BY <1>1, <1>4, <1>8 DEF Safety, GrantSpentOnce
  <2>3. EveryDispatchJournaled'
    BY <1>1, <1>4, <1>6 DEF Safety, EveryDispatchJournaled, Journaled
  <2> QED BY <2>1, <2>2, <2>3
<1>18. SkipNeverExpires'
  <2> SUFFICES ASSUME NEW e \in execs, e.grant = None, NEW q \in Ancestors(e.run)', NEW k \in Keys
               PROVE  ~(calls'[q][k].state = "resolved-skip" /\ calls'[q][k].sig = e.sig)
    BY <1>1 DEF SkipNeverExpires
  <2>1. q \in Ancestors(e.run) /\ q # r /\ q \in Runs
    <3>1. Ancestors(e.run)' = Ancestors(e.run)
      BY <1>4, <1>11
    <3> QED BY <1>4, <1>11, <3>1
  <2> QED BY <1>6, <2>1 DEF Safety, SkipNeverExpires
<1>19. NoFork'
  <2>1. ASSUME NEW q \in Runs, q # r, lineage[q] \cap lineage'[r] # {}
        PROVE  q \in lineage'[r]
    <3>1. B \in Runs /\ B # None /\ lineage[q] \cap lineage[B] # {}
      BY <1>1, <1>3, <1>8, <2>1
    <3>2. B \in lineage[q] => q = B
      <4>1. CASE P # None
        BY <4>1 DEF PredecessorSettled, B, BeginRun
      <4>2. CASE P = None
        <5>1. run[B].status = "interrupted"
          BY <1>2, <3>1, <4>2 DEF B
        <5> QED BY <5>1 DEF Lineages, Ancestors
      <4> QED BY <4>1, <4>2
    <3>3. q \in lineage[B]
      BY <1>2, <3>1, <3>2 DEF Safety, NoFork
    <3> QED BY <1>8, <3>1, <3>3
  <2>2. SUFFICES ASSUME NEW p \in Runs, NEW q \in Runs, lineage'[p] \cap lineage'[q] # {}, p # q
                 PROVE  p \in lineage'[q] \/ q \in lineage'[p]
    <3>1. \A p \in Runs : lineage'[p] # {} => p \in lineage'[p]
      BY <1>12 DEF Lineages
    <3> QED BY <3>1 DEF NoFork
  <2>3. CASE p # r /\ q # r
    BY <1>8, <2>2, <2>3 DEF Safety, NoFork
  <2>4. CASE q = r
    BY <1>8, <2>1, <2>2, <2>4
  <2>5. CASE p = r
    BY <1>8, <2>1, <2>2, <2>5
  <2> QED BY <2>3, <2>4, <2>5
<1>20. DecidedBeforeResumed'
  <2> SUFFICES ASSUME NEW q \in Runs, run'[q].status = "resumed", NEW k \in Keys
               PROVE  calls'[q][k].state # "dispatched"
    BY DEF DecidedBeforeResumed
  <2>1. q # r
    BY <1>7
  <2>2. CASE q = S
    BY <1>1, <1>2, <1>6, <2>1, <2>2
  <2>3. CASE q # S
    BY <1>6, <1>7, <2>1, <2>3 DEF Safety, DecidedBeforeResumed
  <2> QED BY <2>2, <2>3
<1>21. AttemptRows'
  <2>1. S # None => /\ S \in Runs /\ S # r /\ S \in claimed
                    /\ lineage[S] \subseteq lineage'[r]
    BY <1>1, <1>2, <1>8 DEF AttemptRows, B
  <2>2. S # None => /\ run'[S].status = "resumed" /\ S \in claimed'
                    /\ \A k \in Keys : calls'[S][k].state # "dispatched"
                    /\ lineage'[S] = lineage[S]
    BY <1>1, <1>2, <1>6, <1>7, <1>8, <2>1
  <2> QED BY <1>1, <1>7, <1>9, <2>1, <2>2 DEF AttemptRows
<1>22. PredecessorSettled' /\ AmbiguousInFlight'
  <2>1. \A c \in CallIds : <<r, c>> \in Keys
    BY DEF Keys
  <2> QED BY <1>5, <1>6, <1>9, <2>1 DEF PredecessorSettled, AmbiguousInFlight, RowAt, Own
<1>23. GuardCurrent'
  <2>1. \A k \in Keys : k[1] = r => rows[k].state = "absent"
    BY <1>1, <1>3, <1>5 DEF RowOrigins, NoRow
  <2>2. \A k \in Keys : rows[k].state = "absent" => GuardOf(rows)[k].state = "absent"
    BY DEF GuardOf, NoRow
  <2> QED BY <1>6, <1>9, <2>1, <2>2 DEF GuardCurrent
<1> QED BY <1>10, <1>12, <1>13, <1>14, <1>15, <1>16, <1>17, <1>18, <1>19, <1>20,
           <1>21, <1>22, <1>23 DEF Safety

-----------------------------------------------------------------------------
(* The theorems.                                                           *)

LEMMA NextInv == IInv /\ [Next]_vars => IInv'
<1> SUFFICES ASSUME IInv, [Next]_vars PROVE IInv'
  OBVIOUS
<1>1. CASE Submit \/ DieBeforeRun \/ CrashRestart
  BY <1>1, IdleSteps
<1>2. CASE Begin
  BY <1>2, BeginRunStep DEF Begin
<1>3. CASE ToolStep
  <2>1. ASSUME NEW c \in CallIds, NEW s \in Sigs, NoteToolInput(c, s) \/ Refuse(c, s)
        PROVE  IInv'
    BY <2>1, DeclareOrRefuse
  <2>2. ASSUME NEW c \in CallIds, NEW s \in Sigs, Dispatch(c, s) PROVE IInv'
    BY <2>2, DispatchStep
  <2>3. ASSUME NEW c \in CallIds, NEW s \in Sigs, NEW g \in Keys, DispatchGranted(c, s, g)
        PROVE  IInv'
    BY <2>3, GrantStep
  <2>4. ASSUME NEW e \in inflight, NEW st \in {"completed", "failed"}, ToolReturns(e, st)
        PROVE  IInv'
    BY <2>4, ReturnStep
  <2>5. ASSUME DispatchLost \/ \E e \in inflight : ResultLost(e) PROVE IInv'
    BY <2>5, LostWrites
  <2> QED BY <1>3, <2>1, <2>2, <2>3, <2>4, <2>5 DEF ToolStep
<1>4. CASE EndAttempt
  BY <1>4, FinishStep, IdleSteps DEF EndAttempt
<1>5. CASE \E fold \in BOOLEAN : HandOff(fold)
  BY <1>5, HandOffStep
<1>6. CASE Operator
  <2>1. ASSUME NEW r \in Runs, NEW k \in Keys, NEW st \in {"resolved-done", "resolved-skip"},
               Decide(r, k, st) \/ AuthorizeRetry(r, k)
        PROVE  IInv'
    BY <2>1, DecideStep
  <2>2. ASSUME NEW r \in Runs, Resume(r) \/ Abandon(r) PROVE IInv'
    BY <2>2, ResumeOrAbandon
  <2> QED BY <1>6, <2>1, <2>2 DEF Operator
<1>7. CASE UNCHANGED vars
  <2>1. TypeOK' /\ Local'
    BY <1>7 DEF vars, IInv, TypeOK, Local, AttemptRows, PredecessorSettled, AmbiguousInFlight,
       RowAt, Own, GuardCurrent
  <2>2. StampOnly
    BY <1>7 DEF vars, StampOnly
  <2> QED BY <2>1, <2>2, StampFrame DEF Local, Tables, IInv
<1> QED BY <1>1, <1>2, <1>3, <1>4, <1>5, <1>6, <1>7 DEF Next

\* IInv is an invariant of every instance.
THEOREM Invariance == Spec => []IInv
<1>1. IInv /\ [Next]_vars => IInv'
  BY NextInv
<1> QED BY <1>1, InitInv, PTL DEF Spec

\* The rows, the attempt and the guard always have their types.
THEOREM TypeCorrect == Spec => []TypeOK
<1>1. IInv => TypeOK
  BY DEF IInv
<1> QED BY <1>1, Invariance, PTL

\* However often a turn is cut off, resumed, folded or handed on, no call that was
\* booked is executed again unless its replay is safe or the operator granted it.
THEOREM NoRepeat == Spec => []NoUnauthorizedRepeat
<1>1. IInv => NoUnauthorizedRepeat
  BY DEF IInv, Safety
<1> QED BY <1>1, Invariance, PTL

\* A grant buys one execution along the whole chain of attempts.
THEOREM GrantOnce == Spec => []GrantSpentOnce
<1>1. IInv => GrantSpentOnce
  BY DEF IInv, Safety
<1> QED BY <1>1, Invariance, PTL

\* A skipped call stays skipped.
THEOREM SkipHolds == Spec => []SkipNeverExpires
<1>1. IInv => SkipNeverExpires
  BY DEF IInv, Safety
<1> QED BY <1>1, Invariance, PTL

\* Every execution under an id its run has not settled leaves a row that names it.
THEOREM DispatchJournaled == Spec => []EveryDispatchJournaled
<1>1. IInv => EveryDispatchJournaled
  BY DEF IInv, Safety
<1> QED BY <1>1, Invariance, PTL

\* The attempts of one turn form a chain.
THEOREM Chain == Spec => []NoFork
<1>1. IInv => NoFork
  BY DEF IInv, Safety
<1> QED BY <1>1, Invariance, PTL

\* A resumed run has no ambiguous call.
THEOREM Decided == Spec => []DecidedBeforeResumed
<1>1. IInv => DecidedBeforeResumed
  BY DEF IInv, Safety
<1> QED BY <1>1, Invariance, PTL

=============================================================================
