--------------------------------- MODULE Lane ---------------------------------
(***************************************************************************)
(* One conversation's lane (runtime.ts): inputs are stored in the history, *)
(* queue up, are claimed by a turn or steered into the running one, and    *)
(* are settled once; a turn is a chain of attempts; folds (compaction)     *)
(* rewrite the model view between turns or in the middle of one.           *)
(*                                                                         *)
(* JavaScript runs between two awaits without interruption, so an action   *)
(* is the code from one await to the next.  /stop, a settings change, a    *)
(* shutdown and new submissions can land at every await.                   *)
(***************************************************************************)
EXTENDS Integers, Sequences

CONSTANTS
    Inputs,      \* user messages
    Streaming,   \* inputs whose sink takes the stream (onStreamChunk)
    Seeds,       \* resume markers: lead a turn of their own
    Late,        \* wake triggers: stored by one step, admitted by a later one
    Unreadable,  \* inputs whose conversion into a steer may fail
    Jobs,        \* /compact requests
    Fallbacks,   \* length of the model fallback list
    MaxEpoch,    \* bound: stops and settings changes
    MaxNotes,    \* bound: system notes other components append
    Compacts     \* TRUE: compaction is configured

ASSUME LaneAssumption ==
    /\ Streaming \cup Seeds \cup Late \cup Unreadable \subseteq Inputs
    /\ Seeds \cap Late = {}
    /\ {Fallbacks, MaxNotes} \subseteq Nat /\ MaxEpoch \in Nat \ {0}
    /\ Compacts \in BOOLEAN

VARIABLES
    log,         \* the conversation's events; an event's seq is its index
    seq,         \* the seq each stored input's event has, 0 before
    boundary,    \* the compaction pointer: seq of the last folded event, 0 for none
    epoch,       \* the conversation's authority epoch
    closed,      \* the runtime has shut down
    status,      \* what became of each input
    pending,     \* the lane's queue
    converting,  \* claimed steers whose conversion is awaited, with the claimer's epoch
    members,     \* the inputs the running attempt answers for; the first is its head
    att,         \* the running attempt
    fold,        \* the compaction in progress
    jobs,        \* queued /compact requests
    jobState,
    admitEpoch,  \* history: the epoch an input was admitted under
    stopped,     \* history: inputs a /stop found on the lane, not yet settled
    summarised   \* history: the events some summary was made from

store   == <<log, seq, boundary>>
lane    == <<pending, converting, members, att, fold>>
compact == <<jobs, jobState>>
history == <<admitEpoch, stopped, summarised>>
vars    == <<store, epoch, closed, status, lane, compact, history>>

-----------------------------------------------------------------------------
(* Types. *)

Event == [kind : {"user", "reply", "note"}, anchor : Nat, reads : SUBSET Nat]
User == [kind |-> "user", anchor |-> 0, reads |-> {}]
Note(anchor) == [kind |-> "note", anchor |-> anchor, reads |-> {}]
Reply(anchor, reads) == [kind |-> "reply", anchor |-> anchor, reads |-> reads]

Settled == {"completed", "error", "fenced"}
Status == {"new", "stored", "admitted"} \cup Settled

\* "idle": no drain runs.  "pass": the drain is between two pieces of work.
Phases == {"idle", "pass", "setup", "model", "landed", "folding"}

\* seen: the user events in the admission snapshot; owned: the inputs this turn
\* consumed; mark: the newest event it has read; floor: its earliest member.
Attempt == [phase : Phases, epoch : Nat, aborted : BOOLEAN, seen : SUBSET Nat,
            owned : SUBSET Nat, mark : Nat, floor : Nat, folded : BOOLEAN,
            fresh : BOOLEAN, misses : Nat]

Lull(phase) == [phase |-> phase, epoch |-> 0, aborted |-> FALSE, seen |-> {},
                owned |-> {}, mark |-> 0, floor |-> 0, folded |-> FALSE,
                fresh |-> TRUE, misses |-> 0]

Folds == {"none", "manual", "threshold", "overflow", "preempt"}
Fold == [why : Folds, epoch : Nat, cut : Nat, span : SUBSET Nat]
NoFold == [why |-> "none", epoch |-> 0, cut |-> 0, span |-> {}]

In(s) == {s[k] : k \in DOMAIN s}
MaxOf(S) == IF S = {} THEN 0 ELSE CHOOSE x \in S : \A y \in S : y <= x
MinOf(S) == CHOOSE x \in S : \A y \in S : x <= y

TypeOK ==
    /\ log \in Seq(Event)
    /\ seq \in [Inputs -> 0..Len(log)]
    /\ boundary \in 0..Len(log)
    /\ epoch \in 1..MaxEpoch
    /\ closed \in BOOLEAN
    /\ status \in [Inputs -> Status]
    /\ pending \in Seq(Inputs) /\ members \in Seq(Inputs)
    /\ converting \in Seq([input : Inputs, epoch : 1..MaxEpoch])
    /\ att \in Attempt /\ fold \in Fold
    /\ jobs \in Seq(Jobs)
    /\ jobState \in [Jobs -> {"new", "queued", "running", "resolved", "rejected"}]
    /\ admitEpoch \in [Inputs -> 0..MaxEpoch]
    /\ stopped \subseteq Inputs
    /\ summarised \subseteq 1..Len(log)

Init ==
    /\ log = <<>> /\ seq = [i \in Inputs |-> 0] /\ boundary = 0
    /\ epoch = 1 /\ closed = FALSE
    /\ status = [i \in Inputs |-> "new"]
    /\ pending = <<>> /\ converting = <<>> /\ members = <<>>
    /\ att = Lull("idle") /\ fold = NoFold
    /\ jobs = <<>> /\ jobState = [j \in Jobs |-> "new"]
    /\ admitEpoch = [i \in Inputs |-> 0] /\ stopped = {} /\ summarised = {}

-----------------------------------------------------------------------------
(* The history.                                                            *)

\* CAUSAL_KEY: an anchored event stands right after the user event it answers.
Key(l, s) == IF l[s].anchor = 0 THEN s ELSE l[s].anchor

\* modelEntries: the seqs the model still sees.  Of what is folded it sees the summary,
\* an entry of the user's with the seq of the boundary.
View(l) == {s \in DOMAIN l : Key(l, s) > boundary} \cup ({boundary} \ {0})
UserEntry(l, s) == s = boundary \/ l[s].kind = "user"

Seqs(S) == {seq[i] : i \in S}

\* detailFromRows: the causal order of two events.
Before(l, s, t) == Key(l, s) < Key(l, t) \/ (Key(l, s) = Key(l, t) /\ s < t)

\* Mutant: any cut will do.
CompleteAlways(l, D, b) == TRUE

\* exchangeComplete: nothing that stands later anchors at or before the cut.
Complete(l, D, b) == \A s \in D : Before(l, b, s) => Key(l, s) > b

\* chooseBoundary, whatever the sizes of the events and the tail budget: a cut
\* below the ceiling that leaves something below the ceiling unfolded.
Cuts(ceiling) ==
    LET D == {s \in DOMAIN log : ceiling = 0 \/ s < ceiling}
    IN  {b \in D : /\ b > boundary
                   /\ \E s \in D : Before(log, b, s)
                   /\ Complete(log, D, b)}

\* The events a fold up to b hands to the summarizer: those since the last boundary.
Span(b) == {s \in DOMAIN log : /\ s = b \/ Before(log, s, b)
                               /\ boundary # 0 => Before(log, boundary, s)}

\* Mutant: only the running turn holds the fold back.
CeilingIgnoresQueue(floor) == floor

\* foldCeiling: the earliest event whose reply has not landed, 0 for none.
Ceiling(floor) ==
    LET waiting == Seqs(In(pending)) \cup ({floor} \ {0})
    IN  IF waiting = {} THEN 0 ELSE MinOf(waiting)

-----------------------------------------------------------------------------
(* Claims and attempts.                                                    *)

\* claimableCount: members are claimed in order, up to the first that must lead
\* a turn of its own; from = 2 spares the item promoted to head.
Claimable(p, head, from) ==
    LET barrier == IF head \in Streaming THEN Seeds ELSE Seeds \cup Streaming
    IN  CHOOSE n \in 0..Len(p) :
            /\ \A k \in from..n : p[k] \notin barrier
            /\ n < Len(p) => n + 1 >= from /\ p[n + 1] \in barrier

Take(p, n) == SubSeq(p, 1, n)
Drop(p, n) == SubSeq(p, n + 1, Len(p))

\* append reports the seq it wrote.
SeqOfLast(l) == Len(l)

\* lane.pending.push.
Enqueue(p, i) == Append(p, i)

Settle(S, outcome) == [i \in Inputs |-> IF i \in S THEN outcome ELSE status[i]]

\* Mutant: only the head's sink is told.
OverForHead(outcome) ==
    /\ status' = Settle({members[1]}, outcome)
    /\ members' = <<>>
    /\ att' = Lull("pass")
    /\ stopped' = stopped \ In(members)

\* A turn is over: the drain loop is back at its top.
Over(outcome) ==
    /\ status' = Settle(In(members), outcome)
    /\ members' = <<>>
    /\ att' = Lull("pass")
    /\ stopped' = stopped \ In(members)

\* admitTurn fixes what the attempt sees and owns: queued inputs are not in it.
Admission(l, s, p, m, rec) ==
    LET hidden == {s[i] : i \in In(p)}
        entries == View(l) \ hidden
        seen == {e \in entries : UserEntry(l, e)}
        own == {s[i] : i \in In(m)}
    IN  [rec EXCEPT !.phase = "setup", !.seen = seen, !.mark = MaxOf(entries),
                    !.owned = @ \cup (seen \cap own), !.floor = MinOf(own)]

\* Mutant: the authority of the head's submission, not of its admission.
FreshAtSubmit(head) == [Lull("setup") EXCEPT !.epoch = admitEpoch[head], !.fresh = head \notin Seeds]

Fresh(head) == [Lull("setup") EXCEPT !.epoch = epoch, !.fresh = head \notin Seeds]

\* drain's claim and the admission of a fresh turn, over the history l, s.  A
\* conversation or settings that cannot be captured end the turn at once.
StartTurn(l, s, p) ==
    LET n == Claimable(p, p[1], 2)
        m == Take(p, n)
    IN  /\ pending' = Drop(p, n)
        /\ \/ /\ members' = m
              /\ att' = Admission(l, s, Drop(p, n), m, Fresh(p[1]))
              /\ status' = [i \in Inputs |-> IF i \in In(m) THEN "admitted" ELSE status[i]]
           \/ /\ members' = <<>>
              /\ att' = Lull("pass")
              /\ status' = Settle(In(m), "error")

\* The next attempt of the same turn: what is queued joins it first.
NextAttempt(rec) ==
    LET n == Claimable(pending, members[1], 1)
        m == members \o Take(pending, n)
    IN  /\ pending' = Drop(pending, n)
        /\ members' = m
        /\ att' = Admission(log, seq, Drop(pending, n), m, rec)
        /\ UNCHANGED <<status, stopped>>

-----------------------------------------------------------------------------
(* Intake.                                                                 *)

Running == att.phase # "idle"
Busy == Running \/ pending # <<>> \/ jobs # <<>>
Authority == att.epoch = epoch

\* Runtime.admit: an idle lane claims before the call returns.
Admit(i, l, s) ==
    IF closed
    THEN /\ status' = [status EXCEPT ![i] = "fenced"]
         /\ UNCHANGED <<pending, members, att, admitEpoch>>
    ELSE /\ admitEpoch' = [admitEpoch EXCEPT ![i] = epoch]
         /\ IF Running
            THEN /\ pending' = Enqueue(pending, i)
                 /\ status' = [status EXCEPT ![i] = "admitted"]
                 /\ UNCHANGED <<members, att>>
            ELSE StartTurn(l, s, <<i>>)

\* submit and resume: the event is stored and the input admitted in one step.
\* turn-resume.ts offers a seed to an idle lane only.
Submit(i) ==
    LET l == Append(log, User)
        s == [seq EXCEPT ![i] = SeqOfLast(l)]
    IN  /\ status[i] = "new" /\ i \notin Late
        /\ i \in Seeds => ~Busy
        /\ log' = l /\ seq' = s
        /\ Admit(i, l, s)
        /\ UNCHANGED <<boundary, epoch, closed, converting, fold, compact, stopped, summarised>>

\* The wake store appends the trigger; the dispatcher offers it, again after a
\* refusal or a restart, to a lane that may have moved on.
StoreTrigger(i) ==
    /\ status[i] = "new" /\ i \in Late
    /\ log' = Append(log, User)
    /\ seq' = [seq EXCEPT ![i] = Len(log) + 1]
    /\ status' = [status EXCEPT ![i] = "stored"]
    /\ UNCHANGED <<boundary, epoch, closed, lane, compact, history>>

SubmitPersisted(i) ==
    /\ status[i] = "stored"
    /\ Admit(i, log, seq)
    /\ UNCHANGED <<store, epoch, closed, converting, fold, compact, stopped, summarised>>

\* The reviewer and the approval desks append system notes at any time.
AppendNote ==
    /\ Len(SelectSeq(log, LAMBDA e : e.kind = "note" /\ e.anchor = 0)) < MaxNotes
    /\ log' = Append(log, Note(0))
    /\ UNCHANGED <<seq, boundary, epoch, closed, status, lane, compact, history>>

-----------------------------------------------------------------------------
(* The drain loop between turns.                                           *)

StartFold(why, ep) == fold' = [NoFold EXCEPT !.why = why, !.epoch = ep]

NextTurn ==
    /\ att.phase = "pass" /\ pending # <<>>
    /\ StartTurn(log, seq, pending)
    /\ UNCHANGED <<store, epoch, closed, converting, fold, compact, history>>

RunJob ==
    /\ att.phase = "pass" /\ pending = <<>> /\ jobs # <<>>
    /\ jobs' = Tail(jobs)
    /\ jobState' = [jobState EXCEPT ![Head(jobs)] = "running"]
    /\ att' = Lull("folding")
    /\ StartFold("manual", epoch)
    /\ UNCHANGED <<store, epoch, closed, status, pending, converting, members, history>>

Rest ==
    /\ att.phase = "pass" /\ pending = <<>> /\ jobs = <<>>
    /\ att' = Lull("idle")
    /\ UNCHANGED <<store, epoch, closed, status, pending, converting, members, fold, compact, history>>

\* Runtime.compact: an idle lane starts the job before the call returns.
RequestCompact(j) ==
    /\ jobState[j] = "new"
    /\ IF Running
       THEN /\ jobs' = Append(jobs, j)
            /\ jobState' = [jobState EXCEPT ![j] = "queued"]
            /\ UNCHANGED <<att, fold>>
       ELSE /\ jobState' = [jobState EXCEPT ![j] = "running"]
            /\ att' = Lull("folding")
            /\ StartFold("manual", epoch)
            /\ UNCHANGED jobs
    /\ UNCHANGED <<store, epoch, closed, status, pending, converting, members, history>>

-----------------------------------------------------------------------------
(* The running attempt.                                                    *)

\* Recall, tools and the step are ready, authority checked after each await.
EnterModel ==
    /\ att.phase = "setup" /\ Authority
    /\ att' = [att EXCEPT !.phase = "model"]
    /\ UNCHANGED <<store, epoch, closed, status, pending, converting, members, fold, compact, history>>

\* An authority check fails: the turn ends, with its provider call aborted.
Fence ==
    /\ att.phase \in {"setup", "model"} /\ ~Authority
    /\ Over("fenced")
    /\ UNCHANGED <<store, epoch, closed, pending, converting, fold, compact, admitEpoch, summarised>>

\* Steers of this attempt whose conversion it still awaits.
Steering == \E k \in DOMAIN converting : converting[k].epoch = att.epoch

\* recordFailedProgress: what the failed turn did, anchored to what it consumed.
FailedProgress ==
    \/ UNCHANGED log
    \/ att.phase # "setup" /\ Authority /\ log' = Append(log, Note(MaxOf(att.owned)))

Fail ==
    /\ FailedProgress
    /\ Over("error")
    /\ UNCHANGED <<seq, boundary, pending, fold>>

\* nextFallback: a fresh attempt that had no effect moves to the next model.
Advance ==
    /\ att.fresh /\ att.misses < Fallbacks
    /\ NextAttempt([att EXCEPT !.misses = @ + 1])
    /\ UNCHANGED <<store, fold>>

\* Recall, tool setup or buildStep throws.
SetupFails ==
    /\ att.phase = "setup" /\ ~att.aborted
    /\ \/ Advance
       \/ (att.fresh => att.misses = Fallbacks) /\ Fail
    /\ UNCHANGED <<epoch, closed, converting, compact, admitEpoch, summarised>>

\* The provider fails; after a first completed call no other model is tried.
ModelFails ==
    /\ att.phase = "model" /\ Authority /\ ~Steering
    /\ Advance \/ Fail
    /\ UNCHANGED <<epoch, closed, converting, compact, admitEpoch, summarised>>

\* The journal cannot write: an error whatever else happened, and no progress event.
JournalFails ==
    /\ att.phase \in {"setup", "model"} /\ ~Steering
    /\ Over("error")
    /\ UNCHANGED <<store, epoch, closed, pending, converting, fold, compact, admitEpoch, summarised>>

\* prepareStep claims the queue; without authority it hands it back unchanged.
ClaimSteers ==
    LET n == Claimable(pending, members[1], 1)
    IN  /\ att.phase = "model" /\ Authority /\ ~Steering /\ n > 0
        /\ converting' = converting \o
               [k \in 1..n |-> [input |-> pending[k], epoch |-> att.epoch]]
        /\ pending' = Drop(pending, n)
        /\ UNCHANGED <<store, epoch, closed, status, members, att, fold, compact, history>>

\* One steer's conversion returns: it joins, is refused, or comes too late.  An
\* aborted stream may have ended its attempt before.
Convert ==
    /\ converting # <<>>
    /\ LET i == Head(converting).input
       IN  \/ /\ Head(converting).epoch = epoch
              /\ members' = Append(members, i)
              /\ att' = [att EXCEPT !.owned = @ \cup {seq[i]}, !.mark = MaxOf({@, seq[i]})]
              /\ UNCHANGED <<status, stopped>>
           \/ /\ Head(converting).epoch = epoch /\ i \in Unreadable
              /\ status' = [status EXCEPT ![i] = "error"]
              /\ stopped' = stopped \ {i}
              /\ UNCHANGED <<members, att>>
           \/ /\ Head(converting).epoch # epoch
              /\ status' = [status EXCEPT ![i] = "fenced"]
              /\ stopped' = stopped \ {i}
              /\ UNCHANGED <<members, att>>
    /\ converting' = Tail(converting)
    /\ UNCHANGED <<store, epoch, closed, pending, fold, compact, admitEpoch, summarised>>

\* Mutant: consumed steers do not count as read.
ReadBySeenOnly(a) == {s \in View(log) : UserEntry(log, s) /\ s <= a.mark /\ s \in a.seen}

\* landAttempt: the users' entries the attempt read, up to its mark; the newest anchors
\* the reply, the summary if nothing stands above it.  A pending or failed steer below
\* the mark was not read.
ReadBy(a) == {s \in View(log) : /\ UserEntry(log, s) /\ s <= a.mark
                                /\ s \in a.seen \cup a.owned}

Land ==
    /\ att.phase = "model" /\ Authority /\ ~Steering
    /\ log' = Append(log, Reply(MaxOf(ReadBy(att)), ReadBy(att) \ {boundary}))
    /\ status' = Settle(In(members), "completed")
    /\ members' = <<>>
    /\ att' = [att EXCEPT !.phase = "landed"]
    /\ stopped' = stopped \ In(members)
    /\ UNCHANGED <<seq, boundary, epoch, closed, pending, converting, fold, compact, admitEpoch, summarised>>

\* After the sinks are told: a full window is folded before the lane moves on.
AfterLanding ==
    /\ att.phase = "landed"
    /\ \/ att' = Lull("pass") /\ UNCHANGED fold
       \/ /\ Compacts /\ Authority
          /\ att' = [att EXCEPT !.phase = "folding"]
          /\ StartFold("threshold", att.epoch)
    /\ UNCHANGED <<store, epoch, closed, status, pending, converting, members, compact, history>>

\* The step that would dispatch is stopped for a fold, or the provider refused
\* the window: once per turn.
Overflow ==
    /\ att.phase = "model" /\ Authority /\ ~Steering
    /\ \/ /\ Compacts /\ ~att.folded
          /\ att' = [att EXCEPT !.phase = "folding"]
          /\ \E why \in {"overflow", "preempt"} :
                /\ why = "preempt" => Cuts(Ceiling(att.floor)) # {}
                /\ StartFold(why, att.epoch)
          /\ UNCHANGED <<store, status, pending, members, stopped>>
       \/ (Compacts => att.folded) /\ Fail
    /\ UNCHANGED <<epoch, closed, converting, compact, admitEpoch, summarised>>

-----------------------------------------------------------------------------
(* Folds.                                                                  *)

\* What the next attempt inherits: the turn's one fold-resume is spent.
Refolding == [att EXCEPT !.fresh = FALSE]   \* mutant: it is not
Refolded == [att EXCEPT !.folded = TRUE, !.fresh = FALSE]

\* What follows a fold: the caller of /compact is answered, or the turn goes on
\* (recoverFromOverflow).  outcome: "compacted", "noop" or "failed".
AfterFold(outcome) ==
    /\ fold' = NoFold
    /\ jobState' = [j \in Jobs |-> IF jobState[j] # "running" THEN jobState[j]
                                   ELSE IF outcome = "failed" THEN "rejected" ELSE "resolved"]
    /\ \/ /\ fold.why \in {"manual", "threshold"}
          /\ att' = Lull("pass")
          /\ UNCHANGED <<log, status, pending, members, stopped>>
       \/ /\ fold.why \in {"overflow", "preempt"} /\ ~Authority
          /\ Over("fenced")
          /\ UNCHANGED <<log, pending>>
       \/ /\ fold.why = "overflow" /\ Authority /\ outcome # "compacted"
          /\ FailedProgress
          /\ Over("error")
          /\ UNCHANGED pending
       \/ /\ fold.why \in {"overflow", "preempt"} /\ Authority
          /\ fold.why = "overflow" => outcome = "compacted"
          /\ NextAttempt(Refolded)
          /\ UNCHANGED log

Folding == att.phase = "folding"
FoldAuthority == fold.epoch = epoch

\* The window is known: history is read and the cut chosen, or nothing is worth it.
ReadFold ==
    /\ Folding /\ fold.cut = 0 /\ (Compacts => FoldAuthority)
    /\ \/ /\ Compacts
          /\ \E b \in Cuts(Ceiling(IF fold.why \in {"overflow", "preempt"} THEN att.floor ELSE 0)) :
                fold' = [fold EXCEPT !.cut = b, !.span = Span(b)]
          /\ UNCHANGED <<log, status, pending, members, att, stopped, jobState>>
       \/ AfterFold("noop")
    /\ UNCHANGED <<seq, boundary, epoch, closed, converting, jobs, admitEpoch, summarised>>

CommitFold ==
    /\ Folding /\ fold.cut # 0 /\ FoldAuthority
    /\ boundary' = fold.cut
    /\ summarised' = summarised \cup fold.span
    /\ AfterFold("compacted")
    /\ UNCHANGED <<seq, epoch, closed, converting, jobs, admitEpoch>>

\* The window lookup or the summarizer fails, or authority is gone when it returns.
LoseFold ==
    /\ Folding /\ Compacts
    /\ AfterFold("failed")
    /\ UNCHANGED <<seq, boundary, epoch, closed, converting, jobs, admitEpoch, summarised>>

-----------------------------------------------------------------------------
(* Authority.                                                              *)

\* bump.
NextEpoch == epoch + 1

\* Who a stop settles: the queue; what runs is settled by its own fence.
Dropped == In(pending)

\* Queued /compact requests are answered at once.
QueuedJobsForgotten == jobState   \* mutant
QueuedJobsAnswered == [j \in Jobs |-> IF jobState[j] = "queued" THEN "resolved" ELSE jobState[j]]

\* cancelFenced: the epoch is advanced, what is queued is dropped, what runs aborted.
StopLane ==
    /\ epoch < MaxEpoch
    /\ epoch' = NextEpoch
    /\ status' = Settle(Dropped, "fenced")
    /\ pending' = <<>>
    /\ jobs' = <<>>
    /\ jobState' = QueuedJobsAnswered
    /\ att' = [att EXCEPT !.aborted = @ \/ att.phase \in {"setup", "model", "folding"}]
    /\ stopped' = {i \in Inputs : status'[i] = "admitted"}
    /\ UNCHANGED <<store, converting, members, fold, admitEpoch, summarised>>

Stop == StopLane /\ UNCHANGED closed

\* Only a lane that exists is stopped; an idle one was deleted.
Shutdown ==
    /\ ~closed /\ closed' = TRUE
    /\ IF Busy THEN StopLane
       ELSE UNCHANGED <<store, epoch, status, lane, compact, history>>

\* applySettings advances the epoch and aborts nothing.
ApplySettings ==
    /\ epoch < MaxEpoch
    /\ epoch' = NextEpoch
    /\ UNCHANGED <<store, closed, status, lane, compact, history>>

-----------------------------------------------------------------------------
Turn == \/ EnterModel \/ Fence \/ SetupFails \/ ModelFails \/ JournalFails
        \/ ClaimSteers \/ Convert \/ Land \/ AfterLanding \/ Overflow
        \/ ReadFold \/ CommitFold \/ LoseFold
Drain == NextTurn \/ RunJob \/ Rest
Operator == Stop \/ Shutdown \/ ApplySettings \/ \E j \in Jobs : RequestCompact(j)
Intake == AppendNote \/ \E i \in Inputs : Submit(i) \/ StoreTrigger(i) \/ SubmitPersisted(i)

Done == /\ UNCHANGED vars
        /\ att.phase = "idle" /\ \A i \in Inputs : status[i] # "admitted"

Next == Turn \/ Drain \/ Operator \/ Intake \/ Done

Spec == Init /\ [][Next]_vars

\* Every await of the lane returns: provider streams, summaries and conversions
\* are bounded by timeouts, and the loop itself never parks.
FairSpec == Spec /\ WF_vars(Turn) /\ WF_vars(Convert) /\ WF_vars(Drain)

-----------------------------------------------------------------------------
(* Properties.                                                             *)

\* Every admitted input that is not settled is held in one place, once: the
\* queue, a conversion, or the attempt's members.  A claim that returns too late,
\* a fold-resume or a stop can neither drop nor duplicate it.
Custody ==
    LET steers == [k \in DOMAIN converting |-> converting[k].input]
        held == pending \o steers \o members
    IN  /\ {i \in Inputs : status[i] = "admitted"} = In(held)
        /\ \A j, k \in DOMAIN held : held[j] = held[k] => j = k

\* An input reported completed is answered: a landed reply read it and anchors at
\* or after it, so an edit of a later message cannot cut the answer away.  A trigger
\* offered late may have been read through a summary only.
Replies == {r \in DOMAIN log : log[r].kind = "reply"}
CompletedWasRead ==
    \A i \in Inputs : status[i] = "completed" =>
        \E r \in Replies :
            /\ seq[i] \in log[r].reads \/ (i \in Late /\ seq[i] \in summarised)
            /\ seq[i] <= Key(log, r)

\* A later message of the operator's is not answered in a turn before an earlier
\* one that is still queued.
NoOvertaking ==
    \A i, j \in Inputs \ Late : status[i] = "admitted" /\ i \in In(pending) /\ j \in In(members)
        => seq[j] < seq[i]

\* Custody and reading together, over well-typed states: an input is in one place until
\* its answer, no later message of the operator's is answered before it, and an answer
\* reported is one that read it (runtime.ts, claimableCount, runAttempt).
HeldAndRead == TypeOK /\ Custody /\ CompletedWasRead /\ NoOvertaking

\* What a /stop found on the lane is never completed afterwards.
StopIsFinal == [][\A i \in stopped : status'[i] # "completed"]_vars

\* An input is fenced only when authority moved after its own admission.
FencedForCause ==
    [][\A i \in Inputs : status[i] = "admitted" /\ status'[i] = "fenced"
                            => epoch' > admitEpoch[i]]_vars

\* An input is settled once (exactly one onDone per submit).
SettledOnce == [][\A i \in Inputs : status[i] \in Settled => status'[i] = status[i]]_vars

\* The fence of authority, both ways: it holds what was stopped for good, and takes
\* nothing whose authority stands, and nothing is settled twice (runtime.ts, cancelFenced,
\* checkAuthority, notifyDone).
FenceHolds == StopIsFinal /\ FencedForCause /\ SettledOnce

\* A fold never covers a message of the operator's whose turn is still to come or still
\* running; a trigger's event is older than its admission, so a fold may have passed it
\* before it was offered (runtime.ts, foldCeiling).
FoldSparesUnanswered == \A i \in (In(pending) \cup In(members)) \ Late : seq[i] > boundary

Hidden(s) == Key(log, s) <= boundary /\ s \notin summarised

\* Every event is in the model view or was part of what a summary was made from: no
\* fold hides a reply that the summarizer never saw (compaction.ts, exchangeComplete).  It does
\* not hold (README, section 6).
NothingLost == \A s \in DOMAIN log : ~Hidden(s)

\* An input stands between the event s and what it answers, with another event before it.
Overtaken(s) == \E i \in Inputs : Key(log, s) + 1 < seq[i] /\ seq[i] < s

\* As far as that holds: what is hidden unread is a reply that landed after an input which
\* another event separates from what it answers (chooseBoundary compares seqs), or what
\* the turn of a trigger left that was folded before it was offered again.
LostOnlyOverWaiting ==
    \A s \in DOMAIN log : Hidden(s) =>
        Overtaken(s) \/ \E i \in Late : 0 < seq[i] /\ seq[i] <= Key(log, s)

\* Nor does what such a turn leaves land out of sight: the next turn has it before it
\* (runtime.ts, recordFailedProgress: "so the next turn does not lose the work").  It does not
\* hold (README, section 6).
NextTurnSeesIt == \A s \in DOMAIN log : Hidden(s) => Overtaken(s)

\* Every admitted input is settled.
EverySettled == \A i \in Inputs : status[i] = "admitted" ~> status[i] \in Settled

\* Every /compact is answered.
EveryJobAnswered == \A j \in Jobs : jobState[j] # "new" ~> jobState[j] \in {"resolved", "rejected"}

\* A shut-down lane comes to rest.
ShutdownDrains == closed ~> att.phase = "idle"

\* Nobody waits for ever on the drain loop: neither a /compact nor the shutdown
\* (runtime.ts, drain).
DrainLoopEnds == EveryJobAnswered /\ ShutdownDrains
=============================================================================
