----------------------------- MODULE WakeDelivery -----------------------------
(***************************************************************************)
(* Wake delivery to one conversation: developments are recorded as work    *)
(* events and coalesce into a wake; the dispatcher appends the wake's      *)
(* trigger to the history, submits it to the lane, and follows the turn    *)
(* run that takes it, through resumes and hand-offs, to its terminal row   *)
(* (wake-store.ts, wake-dispatcher.ts, the ownership hooks of runtime.ts). *)
(*                                                                         *)
(* A pump is synchronous, and so is every hook: nothing of the process     *)
(* comes between their writes, and each is one step.  Each write commits   *)
(* on its own, so a crash does come between them (CrashInHook).  Rows      *)
(* survive a crash; the lane and the fence map do not.                     *)
(***************************************************************************)
EXTENDS Integers, Sequences

CONSTANTS
    Events,       \* developments, by source key
    Fallbacks,    \* length of the model fallback list
    Settings,     \* TRUE: settings may change
    Compaction,   \* TRUE: compaction is wired, an overflow folds and goes on
    MaxEpoch,     \* bound: stops and settings changes
    MaxRuns,      \* bound: journal runs
    MaxFaults,    \* bound: steps in which the store refuses some writes
    MaxCrashes    \* bound: crashes and restarts

ASSUME WakeAssumption ==
    /\ {Fallbacks, MaxRuns, MaxFaults, MaxCrashes} \subseteq Nat
    /\ MaxEpoch \in Nat \ {0}
    /\ {Settings, Compaction} \subseteq BOOLEAN

VARIABLES
    wakeOf,    \* wake_events: the wake of each recorded event, 0 before
    wakes,     \* wake_deliveries; a wake's id is its index
    runs,      \* turn_runs of the conversation; a run's id is its index
    epoch,     \* the conversation's authority epoch
    queue,     \* wakes admitted and not yet claimed by a turn
    joining,   \* wakes claimed as steers, conversion awaited
    members,   \* wakes the running attempt answers for
    att,       \* the attempt the lane runs
    unlinked,  \* wakes whose ownership write failed in this process
    closed,    \* the runtime has shut down
    faults, crashes,
    told,      \* history: the events some trigger text contains
    took,      \* history: the runs that took each wake's trigger as a member
    line,      \* history: the runs each run continues, itself included
    revoked,   \* history: wakes that were unlinked when a stop came
    lost       \* history: wakes whose run the rows no longer name: fenced when a
               \* process ended, or not yet linked to the run when it crashed

rows    == <<wakeOf, wakes, runs, epoch>>
lane    == <<queue, joining, members, att>>
budget  == <<faults, crashes>>
history == <<told, took, line, revoked, lost>>
vars    == <<rows, lane, unlinked, closed, budget, history>>

-----------------------------------------------------------------------------
(* Types. *)

WakeStates == {"pending", "claimed", "settled", "failed"}

\* epoch: authority at append time; run: the linked run, 0 for none; gated: the
\* retry time lies in the future.
Wake == [state : WakeStates, epoch : 0..MaxEpoch, run : 0..MaxRuns, gated : BOOLEAN]
Opened == [state |-> "pending", epoch |-> 0, run |-> 0, gated |-> FALSE]

RunStatus == {"running", "interrupted", "completed", "error", "fenced", "resumed", "abandoned"}

\* undelivered: the output was withheld; from: the run this one resumes, 0 for none.
Run == [status : RunStatus, undelivered : BOOLEAN, epoch : 1..MaxEpoch, from : 0..MaxRuns]

\* pred: the attempt that handed over; src: the interrupted run being resumed.
Attempt == [phase : {"idle", "setup", "running", "landed", "between", "over"}, epoch : 0..MaxEpoch,
            run : 0..MaxRuns, pred : 0..MaxRuns, src : 0..MaxRuns, folded : BOOLEAN,
            misses : Nat, line : SUBSET (1..MaxRuns)]
Idle == [phase |-> "idle", epoch |-> 0, run |-> 0, pred |-> 0, src |-> 0,
         folded |-> FALSE, misses |-> 0, line |-> {}]

TypeOK ==
    /\ wakeOf \in [Events -> 0..Len(wakes)]
    /\ wakes \in Seq(Wake) /\ runs \in Seq(Run)
    /\ \A w \in DOMAIN wakes : wakes[w].run \in {0} \cup DOMAIN runs
    /\ epoch \in 1..MaxEpoch
    /\ queue \cup joining \cup members \cup unlinked \cup revoked \cup lost \subseteq DOMAIN wakes
    /\ att \in Attempt
    /\ closed \in BOOLEAN
    /\ faults \in 0..MaxFaults /\ crashes \in 0..MaxCrashes
    /\ told \subseteq Events
    /\ took \in Seq(SUBSET (1..MaxRuns)) /\ DOMAIN took = DOMAIN wakes
    /\ line \in Seq(SUBSET (1..MaxRuns)) /\ DOMAIN line = DOMAIN runs

Init ==
    /\ wakeOf = [e \in Events |-> 0] /\ wakes = <<>> /\ runs = <<>> /\ epoch = 1
    /\ queue = {} /\ joining = {} /\ members = {} /\ att = Idle
    /\ unlinked = {} /\ closed = FALSE /\ faults = 0 /\ crashes = 0
    /\ told = {} /\ took = <<>> /\ line = <<>> /\ revoked = {} /\ lost = {}

-----------------------------------------------------------------------------
(* The store under a hook or a pump.                                       *)

\* The store refuses its writes to the rows bad throughout a step.
Refuses(bad) ==
    /\ bad # {} => faults < MaxFaults
    /\ faults' = IF bad = {} THEN faults ELSE faults + 1

\* isAdmitted.
Admitted == queue \cup joining \cup members

Open(ws, w) == ws[w].state = "claimed"
Unowned(ws, w) == Open(ws, w) /\ ws[w].run = 0
Owned(ws, w) == Open(ws, w) /\ ws[w].run # 0
Fail(row) == [row EXCEPT !.state = "failed"]

\* closeUnlinked over the wakes S: failUnlinked, or the fence while it is refused.
CloseUnlinked(ws, un, S, bad) ==
    /\ wakes' = [w \in DOMAIN ws |-> IF w \in S \ bad /\ Unowned(ws, w) THEN Fail(ws[w]) ELSE ws[w]]
    /\ unlinked' = (un \ S) \cup (S \cap bad)

\* retargetRun and linkRun.
Given(ws, S, r) ==
    [w \in DOMAIN ws |-> IF w \in S THEN [ws[w] EXCEPT !.run = r, !.gated = FALSE] ELSE ws[w]]

\* linkEvents for run r over the trigger seqs of S: a claimed wake takes the link
\* unless it has another owner; one that cannot take it is closed, worse: not even that.
LinkEvents(ws, S, r, bad, worse) ==
    LET claimed == {w \in S : Open(ws, w)}
        linked == {w \in claimed \ bad : ws[w].run \in {0, r}}
    IN  /\ CloseUnlinked(Given(ws, linked, r), unlinked \ linked, claimed \ linked, worse)
        /\ took' = [w \in DOMAIN took |-> IF w \in S THEN took[w] \cup {r} ELSE took[w]]

-----------------------------------------------------------------------------
(* reconcile and pump.                                                     *)

MaxOf(S) == CHOOSE x \in S : \A y \in S : y <= x

\* successorOf: the newest run admitted from r.
Successor(rs, r) == MaxOf({k \in DOMAIN rs : rs[k].from = r})

\* chainEnd: the live end of a resume chain.
ChainEnd(rs, r) ==
    LET end[k \in DOMAIN rs] == IF rs[k].status = "resumed" THEN end[Successor(rs, k)] ELSE k
    IN  end[r]

\* Mutant: a withheld attempt is an error at once.
HeldNever(ws, rs, adm, r) == FALSE

\* A withheld attempt whose messages move on to its successor is not over.
Held(ws, rs, adm, r) ==
    /\ rs[r].status = "error" /\ rs[r].undelivered /\ rs[r].epoch = epoch
    /\ \E w \in adm : ws[w].run = r

\* runStatus.
Disposition(ws, rs, adm, r) ==
    LET end == ChainEnd(rs, r)
    IN  IF Held(ws, rs, adm, end) THEN "running" ELSE rs[end].status

AuthorizedAlways(row) == TRUE   \* mutant

\* The authority under which the trigger was appended still stands.
Authorized(row) == row.epoch = epoch

\* reconcile.
Classify(ws, rs, adm, w) ==
    LET d == Disposition(ws, rs, adm, ws[w].run)
    IN  CASE ws[w].state = "pending"                                        -> "append"
          [] Unowned(ws, w) /\ ~Authorized(ws[w])                           -> "fail"
          [] Unowned(ws, w) /\ Authorized(ws[w])                            ->
                IF ws[w].gated THEN "wait" ELSE "resubmit"
          [] Owned(ws, w) /\ d = "completed"                                -> "settle"
          [] Owned(ws, w) /\ d \in {"error", "fenced", "abandoned"}         -> "fail"
          [] Owned(ws, w) /\ d \in {"running", "interrupted"}               -> "preserve"
          [] OTHER                                                          -> "leave"

\* Mutant: the lane is not asked whether it has the message.
OfferableAgain(mem, c, w) == c \in {"append", "resubmit"} /\ w \notin mem.unlinked

\* submit: what is fenced, or admitted already, is not offered.
Offerable(mem, c, w) ==
    c \in {"append", "resubmit"} /\ w \notin mem.unlinked /\ w \notin mem.admitted

\* qClaim, in the transaction that appends the trigger.
Committed(row) == [row EXCEPT !.state = "claimed", !.epoch = epoch]

\* What a pump writes into one row: its disposition, its claim, the closure of a
\* fenced row once more, or the link at the end of its chain.
Pumped(row, rs, c, fenced) ==
    CASE c = "settle"                  -> [row EXCEPT !.state = "settled"]
      [] c = "fail"                    -> Fail(row)
      [] c = "append"                  -> Committed(row)
      [] c = "resubmit" /\ fenced      -> Fail(row)
      [] c = "preserve"                -> [row EXCEPT !.run = ChainEnd(rs, @)]
      [] OTHER                         -> row

FreshTurn == [Idle EXCEPT !.phase = "setup", !.epoch = epoch]

\* submitPersisted for each of S: the newly appended trigger first.  An idle lane
\* claims the first one before the call returns.
Take(mem, S, ws) ==
    LET fresh == {w \in S : ws[w].state = "pending"}
        first == IF fresh # {} THEN MaxOf(fresh) ELSE CHOOSE w \in S : \A v \in S : w <= v
    IN  IF S = {} \/ mem.closed
        THEN queue' = mem.queue /\ att' = mem.att /\ members' = mem.members
        ELSE IF mem.att.phase = "idle" /\ mem.queue = {}
        THEN queue' = S \ {first} /\ att' = FreshTurn /\ members' = {first}
        ELSE queue' = mem.queue \cup S /\ att' = mem.att /\ members' = mem.members

\* pump, over the rows ws, wo and rs and the memory mem of the process.  The store
\* refuses bad; the submits of thrown throw and are tried again after a backoff.
Pump(ws, wo, rs, mem) ==
    LET class(w) == Classify(ws, rs, mem.admitted, w)
        offerable == {w \in DOMAIN ws : Offerable(mem, class(w), w)}
    IN  \E bad \in SUBSET DOMAIN ws : \E thrown \in SUBSET (offerable \ bad) :
          /\ Refuses(bad \cup thrown)
          /\ runs' = rs /\ wakeOf' = wo
          /\ wakes' = [w \in DOMAIN ws |->
                 IF w \in bad THEN ws[w]
                 ELSE [Pumped(ws[w], rs, class(w), w \in mem.unlinked)
                          EXCEPT !.gated = @ \/ w \in thrown]]
          /\ unlinked' = {w \in mem.unlinked :
                 class(w) \notin {"settle", "fail"} /\ (class(w) = "resubmit" => Unowned(wakes', w))}
          /\ told' = told \cup {e \in Events : wo[e] # 0 /\ ws[wo[e]].state = "pending"
                                                         /\ wakes'[wo[e]].state = "claimed"}
          /\ Take(mem, offerable \ (bad \cup thrown), ws)

\* The process as it stands, with the attempt at.
Memory(at) == [att |-> at, queue |-> queue, members |-> members, admitted |-> Admitted,
               unlinked |-> unlinked, closed |-> closed]

-----------------------------------------------------------------------------
(* Developments.                                                           *)

JoinableOpen(w) == wakes[w].state \in {"pending", "claimed"}   \* mutant

\* qPendingWake.
Joinable(w) == wakes[w].state = "pending"

\* recordAll: the developments D, then one pump; record is the case of one.  All of D
\* join the pending wake, or the one that the first of them opens.  A source key seen
\* before changes nothing.
Record(D) ==
    LET open == {w \in DOMAIN wakes : Joinable(w)}
        ws == IF open = {} THEN Append(wakes, Opened) ELSE wakes
        id == IF open = {} THEN Len(ws) ELSE MaxOf(open)
    IN  /\ \A e \in D : wakeOf[e] = 0
        /\ took' = IF open = {} THEN Append(took, {}) ELSE took
        /\ Pump(ws, [e \in Events |-> IF e \in D THEN id ELSE wakeOf[e]], runs, Memory(att))
        /\ UNCHANGED <<epoch, joining, closed, crashes, line, revoked, lost>>

Ticker ==
    /\ Pump(wakes, wakeOf, runs, Memory(att))
    /\ UNCHANGED <<epoch, joining, closed, crashes, took, line, revoked, lost>>

\* The backoff elapses.
GateOpens ==
    /\ \E w \in DOMAIN wakes : wakes[w].gated
    /\ wakes' = [w \in DOMAIN wakes |-> [wakes[w] EXCEPT !.gated = FALSE]]
    /\ UNCHANGED <<wakeOf, runs, epoch, lane, unlinked, closed, budget, history>>

-----------------------------------------------------------------------------
(* The lane, as far as it calls the hooks.                                 *)

Authority == att.epoch = epoch

\* drain claims what is queued, or a message of the operator's leads an idle lane.
StartTurn(S) ==
    /\ att.phase = "idle"
    /\ members' = S /\ queue' = queue \ S
    /\ att' = FreshTurn
    /\ UNCHANGED <<rows, joining, unlinked, closed, budget, history>>

ClaimQueue == \E S \in (SUBSET queue) \ {{}} : StartTurn(S)
OperatorTurn == ~closed /\ queue = {} /\ Len(runs) < MaxRuns /\ StartTurn({})

CanBegin == att.phase = "setup" /\ Authority /\ Len(runs) < MaxRuns

\* beginRun, one transaction: the row of the attempt's run is written, its source consumed.
Begun ==
    Append([k \in DOMAIN runs |-> IF k = att.src THEN [runs[k] EXCEPT !.status = "resumed"] ELSE runs[k]],
           [status |-> "running", undelivered |-> FALSE, epoch |-> att.epoch, from |-> att.src])

\* The wakes of a run the attempt continues or inherits from, and its unlinked members.
Moved == {w \in DOMAIN wakes : Owned(wakes, w) /\ wakes[w].run \in {att.src, att.pred}}
Loose == {w \in members : Unowned(wakes, w)}

\* The row is written; then the begin hook retargets what moves and links the members.
Begin ==
    LET r == Len(runs) + 1
    IN  /\ CanBegin
        /\ runs' = Begun
        /\ \E bad \in SUBSET DOMAIN wakes : \E worse \in SUBSET bad :
              /\ Refuses(bad)
              /\ LinkEvents(Given(wakes, Moved \ bad, r), members, r, bad, worse)
        /\ att' = [att EXCEPT !.phase = "running", !.run = r, !.line = @ \cup {r}]
        /\ line' = Append(line, att.line \cup {r})
        /\ UNCHANGED <<wakeOf, epoch, queue, joining, members, closed, crashes, told, revoked, lost>>

ClaimSteers ==
    /\ att.phase = "running" /\ Authority /\ joining = {}
    /\ \E S \in (SUBSET queue) \ {{}} : joining' = S /\ queue' = queue \ S
    /\ UNCHANGED <<rows, members, att, unlinked, closed, budget, history>>

\* The steers' conversions return: they join the run, or authority is gone.
JoinSteers ==
    /\ joining # {} /\ joining' = {}
    /\ \/ /\ Authority
          /\ members' = members \cup joining
          /\ \E bad \in SUBSET joining : \E worse \in SUBSET bad :
                Refuses(bad) /\ LinkEvents(wakes, joining, att.run, bad, worse)
       \/ ~Authority /\ UNCHANGED <<wakes, unlinked, faults, members, took>>
    /\ UNCHANGED <<wakeOf, runs, epoch, queue, att, closed, crashes, told, line, revoked, lost>>

\* The reply is stored, the sinks are told.
Land ==
    /\ att.phase = "running" /\ Authority /\ joining = {}
    /\ members' = {}
    /\ att' = [att EXCEPT !.phase = "landed"]
    /\ UNCHANGED <<rows, queue, joining, unlinked, closed, budget, history>>

\* stampRun: finishRun, then the end hook pumps, before the sinks of a failure are told.
Stamp(status, withheld, at) ==
    /\ Pump(wakes, wakeOf,
            [runs EXCEPT ![att.run].status = status, ![att.run].undelivered = withheld],
            Memory(at))
    /\ UNCHANGED <<epoch, joining, closed, crashes, took, line, revoked, lost>>

Ending == [att EXCEPT !.phase = "over"]
Complete == att.phase = "landed" /\ Stamp("completed", FALSE, Ending)

Die ==
    /\ att.phase = "running" /\ joining = {}
    /\ \/ Stamp("error", FALSE, Ending)
       \/ ~Authority /\ Stamp("fenced", TRUE, Ending)

\* Mutant: a death before the run is not announced.
DieUnannounced ==
    /\ att.phase = "setup"
    /\ att' = Ending
    /\ UNCHANGED <<rows, queue, joining, members, unlinked, closed, budget, history>>

\* announcePreRunFailure.
DieBeforeRun ==
    /\ att.phase = "setup"
    /\ \E bad \in SUBSET members :
          /\ Refuses(bad)
          /\ CloseUnlinked(wakes, unlinked, Loose, bad)
    /\ att' = Ending
    /\ UNCHANGED <<wakeOf, runs, epoch, queue, joining, members, closed, crashes, history>>

\* The sinks of the members are told, the drain loop is back at its top.
TurnOver ==
    /\ att.phase = "over"
    /\ att' = Idle /\ members' = {}
    /\ UNCHANGED <<rows, queue, joining, unlinked, closed, budget, history>>

\* A fresh attempt without effect moves to the next model.
CanFallBack == att.src = 0 /\ ~att.folded /\ att.misses < Fallbacks

NextModel == [att EXCEPT !.phase = "between", !.misses = @ + 1]

FallBackBeforeRun ==
    /\ att.phase = "setup" /\ CanFallBack
    /\ att' = NextModel
    /\ UNCHANGED <<rows, queue, joining, members, unlinked, closed, budget, history>>

\* The row is withheld and its messages move on: to the next model, or past a fold.
HandOff ==
    /\ att.phase = "running" /\ joining = {}
    /\ \/ CanFallBack /\ Stamp("error", TRUE, NextModel)
       \/ /\ Compaction /\ Authority /\ ~att.folded
          /\ Stamp("error", TRUE, [att EXCEPT !.phase = "between", !.folded = TRUE])

\* The next attempt of the turn takes what was queued meanwhile.
NextAttempt ==
    /\ att.phase = "between"
    /\ \E S \in SUBSET queue : members' = members \cup S /\ queue' = queue \ S
    /\ att' = [att EXCEPT !.phase = "setup", !.pred = att.run, !.run = 0]
    /\ UNCHANGED <<rows, joining, unlinked, closed, budget, history>>

-----------------------------------------------------------------------------
(* The operator and the process.                                           *)

\* stop drops the queue; what runs is fenced by its own checks.
StopLane ==
    /\ epoch < MaxEpoch
    /\ epoch' = epoch + 1
    /\ queue' = {}
    /\ revoked' = revoked \cup {w \in DOMAIN wakes : Unowned(wakes, w)}
    /\ UNCHANGED <<wakeOf, wakes, runs, joining, members, att, unlinked, budget, told, took, line, lost>>

Stop == StopLane /\ UNCHANGED closed

Busy == att.phase # "idle" \/ queue # {}

Shutdown ==
    /\ ~closed /\ closed' = TRUE
    /\ IF Busy THEN StopLane ELSE UNCHANGED <<rows, lane, unlinked, budget, history>>

\* applySettings advances the epoch, aborts nothing and drops nothing.
ApplySettings ==
    /\ Settings /\ epoch < MaxEpoch
    /\ epoch' = epoch + 1
    /\ UNCHANGED <<wakeOf, wakes, runs, lane, unlinked, closed, budget, history>>

\* resume: an interrupted run is continued by a turn of its own, on an idle lane.
Resume(r) ==
    /\ runs[r].status = "interrupted" /\ ~Busy /\ ~closed
    /\ att' = [FreshTurn EXCEPT !.src = r, !.line = line[r]]
    /\ UNCHANGED <<rows, queue, joining, members, unlinked, closed, budget, history>>

Abandon(r) ==
    /\ runs[r].status = "interrupted" /\ att.src # r
    /\ runs' = [runs EXCEPT ![r].status = "abandoned"]
    /\ UNCHANGED <<wakeOf, wakes, epoch, lane, unlinked, closed, budget, history>>

\* The journal is opened over the rows ws and rs, what ran is interrupted, and the
\* dispatcher pumps.  What the process knew of the run of forgotten is gone.
Boot(ws, rs, forgotten) ==
    /\ Pump(ws, wakeOf,
            [r \in DOMAIN rs |-> IF rs[r].status = "running"
                                 THEN [rs[r] EXCEPT !.status = "interrupted"] ELSE rs[r]],
            [att |-> Idle, queue |-> {}, members |-> {}, admitted |-> {}, unlinked |-> {},
             closed |-> FALSE])
    /\ joining' = {} /\ closed' = FALSE
    /\ lost' = lost \cup forgotten
    /\ UNCHANGED <<epoch, revoked>>

Dies == crashes < MaxCrashes /\ crashes' = crashes + 1

Crash == Dies /\ Boot(wakes, runs, unlinked) /\ UNCHANGED <<took, line>>

\* Between the commit of the run's row and the last commit of the begin hook: the wakes
\* done have theirs, the retargets first.  The run row names all members as its input.
CrashInBegin ==
    LET r == Len(runs) + 1
        inherited == {w \in Moved : wakes[w].run = att.pred}
    IN  /\ CanBegin /\ Dies
        /\ \E done \in SUBSET (Moved \cup Loose) :
              /\ done \cap Loose # {} => Moved \subseteq done
              /\ Boot(Given(wakes, done, r), Begun, unlinked \cup ((inherited \cup Loose) \ done))
        /\ took' = [w \in DOMAIN took |-> IF w \in members THEN took[w] \cup {r} ELSE took[w]]
        /\ line' = Append(line, att.line \cup {r})

\* Between two closures of a turn that died before its run.
CrashInDeath ==
    /\ att.phase = "setup" /\ Dies
    /\ \E done \in SUBSET Loose :
          Boot([w \in DOMAIN wakes |-> IF w \in done THEN Fail(wakes[w]) ELSE wakes[w]], runs, unlinked)
    /\ UNCHANGED <<took, line>>

CrashInHook == CrashInBegin \/ CrashInDeath
Restart == closed /\ ~Busy /\ Boot(wakes, runs, unlinked) /\ UNCHANGED <<crashes, took, line>>

-----------------------------------------------------------------------------
LaneStep == \/ ClaimQueue \/ Begin \/ ClaimSteers \/ JoinSteers \/ Land \/ Complete \/ Die
            \/ DieBeforeRun \/ TurnOver \/ FallBackBeforeRun \/ HandOff \/ NextAttempt
Operator == OperatorTurn \/ Stop \/ ApplySettings \/ \E r \in DOMAIN runs : Resume(r) \/ Abandon(r)
Process == Shutdown \/ Restart \/ Crash \/ CrashInHook

Next == (\E D \in (SUBSET Events) \ {{}} : Record(D)) \/ Ticker \/ GateOpens \/ LaneStep \/ Operator \/ Process

Spec == Init /\ [][Next]_vars

\* The ticker runs, backoffs elapse, a turn's awaits return, and a process that was
\* shut down is started again.  The operator owes nothing.
FairSpec == /\ Spec /\ WF_vars(Ticker) /\ WF_vars(GateOpens) /\ WF_vars(Restart)
            /\ WF_vars(LaneStep)

-----------------------------------------------------------------------------
(* Properties.                                                             *)

\* A trigger is processed by one turn: the runs that took it as input all lie on one
\* chain of hand-offs and resumes.  A late pump or a refused write never starts a second
\* turn on it, nor does a crash, but for the wakes whose run is nowhere on record: the
\* fence of a refused link lasts as long as its process, and a crash may come between the
\* run's row and the link (AnsweredOnce).
ProcessedOnce ==
    \A w \in DOMAIN wakes \ lost : \A a, b \in took[w] : a \in line[b] \/ b \in line[a]

\* A run that continues the runs which took the trigger has completed.
Answered(w) ==
    \E r \in DOMAIN runs : runs[r].status = "completed" /\ took[w] \cap line[r] # {}

\* A wake is reported settled only when a turn that had its trigger completed.
SettledWasAnswered == \A w \in DOMAIN wakes : wakes[w].state = "settled" => Answered(w)

\* The journal's terminal row decides: a wake is not reported failed when the turn
\* that had its trigger completed, unless the link to that turn was lost in a crash.
RunDecides == \A w \in DOMAIN wakes \ lost : wakes[w].state = "failed" => ~Answered(w)

\* A trigger that already ran is not run again (wake-dispatcher.ts, head comment): of
\* the turns that had it, no two which do not continue each other complete.
AnsweredOnce ==
    \A w \in DOMAIN wakes : \A a, b \in DOMAIN runs :
        /\ runs[a].status = "completed" /\ took[w] \cap line[a] # {}
        /\ runs[b].status = "completed" /\ took[w] \cap line[b] # {}
        => a \in line[b] \/ b \in line[a]

\* No development is attached to a wake whose trigger was composed without it.
NothingUntold == \A e \in Events : wakeOf[e] # 0 /\ wakes[wakeOf[e]].state # "pending" => e \in told

\* The store's books: a trigger is processed by one turn, every development is told in
\* the trigger of its wake, and a wake is booked settled only once that turn completed
\* (wake-store.ts).
Accounted == TypeOK /\ ProcessedOnce /\ NothingUntold /\ SettledWasAnswered

\* What waited unowned when the operator stopped the conversation is never run.
StopRevokes == [][\A w \in revoked : took'[w] = took[w]]_vars

\* A wake waits for the operator only through an interrupted run.
Waits(w) == /\ Owned(wakes, w)
            /\ runs[ChainEnd(runs, wakes[w].run)].status = "interrupted"

\* Every recorded development gets a disposition, or waits for the operator's
\* decision on an interrupted run.
Decided(w) == wakes[w].state \in {"settled", "failed"} \/ Waits(w)
EveryWakeDecided == \A e \in Events :
    wakeOf[e] # 0 ~> wakeOf[e] # 0 /\ Decided(wakeOf[e])
=============================================================================
