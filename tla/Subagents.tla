------------------------------- MODULE Subagents -------------------------------
(***************************************************************************)
(* Subagent runs (src/subagents): rows of subagent_runs, the durable Pi    *)
(* conversation that works for each, and the owner between them.           *)
(* An operation of a row goes through the row's lane, one at a time, and   *)
(* awaits; a stop is recorded at once, outside the lane, and so is a park  *)
(* of the approval gate, which runs inside Pi.  Rows and Pi survive the    *)
(* process; lanes, monitors and the recovery list do not.                  *)
(* Backoff is when the drain and the scan get to a row, so any may be due. *)
(* Pi may run from the start of a boot on: waiting on it lets it run.      *)
(***************************************************************************)
EXTENDS Integers, FiniteSets

CONSTANTS
    None,
    MaxRows,       \* bound: runs started
    MaxRuns,       \* subagents.maxRuns
    MaxRev,        \* bound: inputs of one run
    MaxFaults      \* bound: crashes, failed calls and notices refused

Rows == 1 .. MaxRows

Statuses == {"queued", "running", "needs_input", "done", "failed", "stopped"}
Run == [status : Statuses, halt : BOOLEAN, rev : 0 .. MaxRev, intent : BOOLEAN, conv : BOOLEAN,
        sub : 0 .. MaxRev, park : {None, "open", "decided"}, owed : BOOLEAN]
Outcomes == [rev : Nat, kind : {"done", "ask", "aborted"}]
Agent == [work : {"idle", "gen", "tool", "gate", "replay"}, subs : SUBSET Nat, placed : Nat, bound : Nat,
          out : Outcomes \cup {None}]
Holder == [op : {"drain", "steer", "recover", "stop", "finalize", "reattach", "exhaust"},
           at : {"claim", "prepare", "regain", "look", "submit", "abort", "read", "close", "lookup"},
           rev : Nat, kept : {None, "done", "none"}]

\* None is none of what it stands beside.
SubagentsAssumption ==
    /\ MaxRows \in Nat /\ MaxRuns \in Nat /\ MaxRev \in Nat
    /\ None \notin Run /\ None \notin Outcomes /\ None \notin Holder
    /\ None \notin Statuses \cup {"open", "decided", "none"}

VARIABLES
    runs,       \* None or [status, halt, rev, intent, conv, sub, park, owed]
    shared,     \* the runs are workers of one conversation
    pi,         \* Pi: [work, subs, placed, bound, out]
    watch,      \* monitors: inputs whose submission is waited for
    ready,      \* inputs about to be finalized
    lane,       \* the operation that holds the lane: None or [op, at, rev, kept]
    mode,       \* "up", "down" or "boot"
    boot,       \* rows the boot has yet to recover
    pending,    \* recoveryPending
    inflight,   \* rows the drain has taken
    given,      \* decisions handed to the gate, not yet used
    faults,
    news,       \* history: the status last told
    answers,    \* history: the input the recorded outcome answers
    crossed,    \* history: rows whose approval was admitted with nothing to see their last input through
    revived     \* history: rows admitted after they had failed

process == <<watch, ready, lane, mode, boot, pending, inflight, given>>
history == <<shared, answers, crossed, revived>>
vars == <<runs, pi, process, history, faults, news>>

Fault == faults < MaxFaults /\ faults' = faults + 1
Known(r) == runs[r] # None
Over(r) == Known(r) /\ runs[r].status \in {"done", "failed", "stopped"}
Live(r) == Known(r) /\ runs[r].status = "running" /\ ~runs[r].halt
Parked(r) == Known(r) /\ runs[r].status \in {"needs_input", "queued"} /\ runs[r].park # None

Put(r, new) == runs' = [runs EXCEPT ![r] = new] /\ UNCHANGED <<news, faults>>

\* The row is written, then notify: a notice that is not admitted stays owed.
Tell(r, new) ==
    \/ /\ runs' = [runs EXCEPT ![r] = [new EXCEPT !.owed = FALSE]]
       /\ news' = [news EXCEPT ![r] = new.status] /\ UNCHANGED faults
    \/ runs' = [runs EXCEPT ![r] = [new EXCEPT !.owed = TRUE]] /\ Fault /\ UNCHANGED news

Same == UNCHANGED <<runs, news>>
Holds(r, ops, at) == lane[r] # None /\ lane[r].op \in ops /\ lane[r].at = at
Enter(r, op, at, rev) ==
    lane[r] = None /\ lane' = [lane EXCEPT ![r] = [op |-> op, at |-> at, rev |-> rev, kept |-> None]]
To(r, at) == lane' = [lane EXCEPT ![r].at = at]
Leave(r) == lane' = [lane EXCEPT ![r] = None]
Owe(r) == pending' = pending \cup {r}
Watch(r, rev) == watch' = [watch EXCEPT ![r] = @ \cup {rev}]

Quiet(p) == [p EXCEPT !.work = "idle", !.subs = {}]
Cancel(r) == pi' = [pi EXCEPT ![r] = Quiet(@)] /\ given' = given \ {r}

-----------------------------------------------------------------------------
(* The drain.                                                              *)

Start(r) ==
    /\ mode = "up" /\ ~Known(r) /\ (r > 1 => Known(r - 1))
    /\ Put(r, [status |-> "queued", halt |-> FALSE, rev |-> 0, intent |-> FALSE, conv |-> FALSE,
               sub |-> 0, park |-> None, owed |-> FALSE])
    /\ UNCHANGED <<pi, process, history>>

Busy == inflight \cup {r \in Rows : Known(r) /\ runs[r].status = "running"}

\* workerLease: the row furthest along, then the oldest.
Along(r) == runs[r].status # "queued" \/ runs[r].intent \/ runs[r].park # None
Leased(r) ==
    shared => \A q \in Rows \ {r} : Known(q) /\ ~Over(q) =>
                  (Along(r) /\ ~Along(q)) \/ (Along(r) = Along(q) /\ r < q)

Drain(r) ==
    /\ mode = "up" /\ Cardinality(Busy) < MaxRuns
    /\ Known(r) /\ runs[r].status = "queued" /\ ~runs[r].halt /\ r \notin inflight /\ Leased(r)
    /\ inflight' = inflight \cup {r}
    /\ UNCHANGED <<runs, pi, watch, ready, lane, mode, boot, pending, given, history, faults, news>>

Admit(r) ==
    /\ r \in inflight /\ Enter(r, "drain", "claim", 0)
    /\ revived' = IF Over(r) /\ ~runs[r].halt THEN revived \cup {r} ELSE revived
    /\ UNCHANGED <<runs, pi, watch, ready, mode, boot, pending, inflight, given, shared, answers, crossed,
                   faults, news>>

-----------------------------------------------------------------------------
(* Admission: of the drain, of a steer, and of a recovery.                 *)

Admitting == {"drain", "steer", "recover"}

\* What the lane operation does with how its admission ended.
Ends(r) == Leave(r) /\ inflight' = (IF lane[r].op = "drain" THEN inflight \ {r} ELSE inflight)
Halted(r) == Ends(r) /\ UNCHANGED pending
Refused(r) ==
    /\ Ends(r) /\ UNCHANGED news
    /\ IF lane[r].op = "recover" THEN Owe(r) ELSE UNCHANGED pending
    /\ runs' = IF lane[r].op = "steer"
               THEN [runs EXCEPT ![r].rev = @ - 1, ![r].intent = FALSE] ELSE runs
Blocked(r) == Refused(r) /\ UNCHANGED faults

\* The catch: past a recorded conversation the row stays owned; before, it is queued again or,
\* the attempts used up, failed.
Thrown(r, new) ==
    /\ Ends(r)
    /\ CASE new.halt \/ new.status \notin {"queued", "running"} ->
              runs' = [runs EXCEPT ![r] = new] /\ UNCHANGED <<pending, news>>
         [] ~new.halt /\ new.status \in {"queued", "running"} /\ (lane[r].op # "drain" \/ new.conv) ->
              runs' = [runs EXCEPT ![r] = [new EXCEPT !.status = "running"]] /\ Owe(r) /\ UNCHANGED news
         [] OTHER ->
              \/ runs' = [runs EXCEPT ![r] = new] /\ UNCHANGED <<pending, news>>
              \/ /\ runs' = [runs EXCEPT ![r] = [new EXCEPT !.status = "failed", !.owed = FALSE]]
                 /\ news' = [news EXCEPT ![r] = "failed"] /\ UNCHANGED pending

\* The desktop claim; a lease held elsewhere blocks, and so does any refusal of a live run.
Claimed(r) ==
    /\ Holds(r, Admitting, "claim")
    /\ \/ /\ IF runs[r].halt THEN Halted(r) ELSE To(r, "prepare") /\ UNCHANGED <<inflight, pending>>
          /\ Same /\ UNCHANGED faults
       \/ Fault /\ Refused(r)
       \/ Fault /\ lane[r].op = "drain" /\ Thrown(r, runs[r])
    /\ UNCHANGED <<pi, watch, ready, mode, boot, given, history>>

\* The conversation is created and recorded, the files come in; then the decided approval is
\* admitted, or the input is made durable before it is submitted.
Prepared(r) ==
    /\ Holds(r, Admitting, "prepare")
    /\ LET new == [runs[r] EXCEPT !.conv = TRUE]
       IN  \/ new.halt /\ Halted(r) /\ Put(r, new)
           \/ ~new.halt /\ new.park = "open" /\ Blocked(r)
           \/ /\ ~new.halt /\ new.park = "decided" /\ To(r, "regain") /\ Put(r, new)
              /\ UNCHANGED <<inflight, pending>>
           \/ /\ ~new.halt /\ new.park = None /\ To(r, "look") /\ UNCHANGED <<inflight, pending>>
              /\ new.intent \/ new.rev < MaxRev
              /\ Put(r, [new EXCEPT !.rev = IF new.intent THEN @ ELSE @ + 1, !.intent = TRUE,
                                    !.status = "running"])
           \/ Fault /\ (Thrown(r, runs[r]) \/ Thrown(r, new))
    /\ UNCHANGED <<pi, watch, ready, mode, boot, given, history>>

\* The parked call goes on; its submission is watched before the gate hears of it.
Reachable(r) == watch[r] # {} \/ runs[r].sub # 0

Regained(r) ==
    /\ Holds(r, Admitting, "regain")
    /\ \/ ~Reachable(r) /\ Blocked(r) /\ UNCHANGED <<watch, given, crossed>>
       \/ Reachable(r) /\ runs[r].halt /\ Halted(r) /\ Same /\ UNCHANGED <<watch, given, faults, crossed>>
       \/ /\ Reachable(r) /\ ~runs[r].halt /\ Halted(r)
          /\ Put(r, [runs[r] EXCEPT !.status = "running", !.park = None])
          /\ IF watch[r] = {} THEN Watch(r, runs[r].rev) ELSE UNCHANGED watch
          /\ given' = given \cup {r}
          /\ crossed' = IF runs[r].intent \/ runs[r].rev \notin watch'[r]
                        THEN crossed \cup {r} ELSE crossed
       \/ Fault /\ Thrown(r, runs[r]) /\ UNCHANGED <<watch, given, crossed>>
    /\ UNCHANGED <<pi, ready, mode, boot, shared, answers, revived>>

Looked(r) ==
    /\ Holds(r, Admitting, "look")
    /\ \/ /\ IF runs[r].halt THEN Halted(r) ELSE To(r, "submit") /\ UNCHANGED <<inflight, pending>>
          /\ Same /\ UNCHANGED faults
       \/ Fault /\ Thrown(r, runs[r])
    /\ UNCHANGED <<pi, watch, ready, mode, boot, given, history>>

\* The request id is the revision: what was placed once is found, not placed again.
Place(r) ==
    pi' = IF pi[r].placed >= runs[r].rev THEN pi
          ELSE [pi EXCEPT ![r].subs = @ \cup {runs[r].rev}, ![r].placed = runs[r].rev]

Submitted(r) ==
    /\ Holds(r, Admitting, "submit")
    /\ \/ /\ Place(r) /\ Halted(r) /\ Watch(r, runs[r].rev)
          /\ Put(r, [runs[r] EXCEPT !.sub = runs[r].rev, !.intent = FALSE])
       \/ Fault /\ (Place(r) \/ UNCHANGED pi) /\ Thrown(r, runs[r]) /\ UNCHANGED watch
    /\ UNCHANGED <<ready, mode, boot, given, history>>

Admission(r) == Claimed(r) \/ Prepared(r) \/ Regained(r) \/ Looked(r) \/ Submitted(r)

-----------------------------------------------------------------------------
(* The owner's calls.                                                      *)

\* An answer queues the run again; a steer is persisted and admitted in the lane.
Send(r) ==
    /\ mode = "up" /\ lane[r] = None /\ Known(r) /\ ~runs[r].halt /\ runs[r].rev < MaxRev
    /\ runs[r].conv /\ runs[r].park = None
    /\ \/ runs[r].status = "needs_input" /\ UNCHANGED lane
          /\ Put(r, [runs[r] EXCEPT !.rev = @ + 1, !.intent = TRUE, !.status = "queued"])
       \/ runs[r].status = "running" /\ ~runs[r].intent /\ Enter(r, "steer", "claim", 0)
          /\ Put(r, [runs[r] EXCEPT !.rev = @ + 1, !.intent = TRUE])
    /\ UNCHANGED <<pi, watch, ready, mode, boot, pending, inflight, given, history>>

Decide(r) ==
    /\ mode = "up" /\ lane[r] = None /\ Known(r) /\ ~runs[r].halt
    /\ runs[r].status = "needs_input" /\ runs[r].park # None
    /\ Put(r, [runs[r] EXCEPT !.status = "queued", !.park = "decided"])
    /\ UNCHANGED <<pi, process, history>>

Stop(r) ==
    /\ mode = "up" /\ Known(r) /\ ~Over(r) /\ ~runs[r].halt
    /\ Put(r, [runs[r] EXCEPT !.halt = TRUE])
    /\ UNCHANGED <<pi, process, history>>

Stopped(r) == Tell(r, [runs[r] EXCEPT !.status = "stopped", !.park = None])

\* completeStop, of the call or of a scan: the abort is awaited before the row is stopped.
StopBegins(r) ==
    /\ mode = "up" /\ lane[r] = None /\ Known(r) /\ runs[r].halt /\ runs[r].status # "stopped"
    /\ \/ runs[r].conv /\ Enter(r, "stop", "abort", 0) /\ Same /\ UNCHANGED faults
       \/ ~runs[r].conv /\ Stopped(r) /\ UNCHANGED lane
    /\ UNCHANGED <<pi, watch, ready, mode, boot, pending, inflight, given, history>>

StopReturns(r) ==
    /\ Holds(r, {"stop"}, "abort") /\ Leave(r)
    /\ \/ Cancel(r) /\ Stopped(r)
       \/ Fault /\ Same /\ UNCHANGED <<pi, given>>
    /\ UNCHANGED <<watch, ready, mode, boot, pending, inflight, history>>

Notify(r) ==
    /\ mode = "up" /\ Known(r) /\ runs[r].owed /\ Tell(r, runs[r])
    /\ UNCHANGED <<pi, process, history>>

-----------------------------------------------------------------------------
(* Monitors, and the settlement.                                           *)

Seen(r, rev) ==
    /\ rev \in watch[r] /\ watch' = [watch EXCEPT ![r] = @ \ {rev}]
    /\ \/ /\ pi[r].work = "idle" /\ pi[r].subs = {}
          /\ ready' = [ready EXCEPT ![r] = @ \cup {rev}] /\ UNCHANGED <<pending, faults>>
       \/ Fault /\ Owe(r) /\ UNCHANGED ready
    /\ UNCHANGED <<runs, pi, lane, mode, boot, inflight, given, history, news>>

\* A newer input, or one on its way, is for the monitor of that one.
Finalize(r, rev) ==
    /\ mode # "down" /\ rev \in ready[r] /\ lane[r] = None
    /\ ready' = [ready EXCEPT ![r] = @ \ {rev}]
    /\ IF Over(r) \/ runs[r].halt \/ runs[r].rev > rev \/ runs[r].intent
       THEN UNCHANGED lane ELSE Enter(r, "finalize", "read", rev)
    /\ UNCHANGED <<runs, pi, watch, mode, boot, pending, inflight, given, history, faults, news>>

Preempted(r) == runs[r].halt

\* The recorded outcome, whatever input it was of.
OutcomeOfAny(r) == IF pi[r].out # None THEN pi[r].out.kind ELSE "none"

\* Only an outcome of this input counts.
Outcome(r) ==
    IF pi[r].out # None /\ pi[r].out.rev = lane[r].rev THEN pi[r].out.kind ELSE "none"

Read(r) ==
    /\ Holds(r, {"finalize"}, "read")
    /\ \/ Preempted(r) /\ Leave(r) /\ Same /\ UNCHANGED <<faults, pending>>
       \/ /\ ~Preempted(r) /\ Outcome(r) \in {"done", "none"} /\ Same /\ UNCHANGED <<faults, pending>>
          /\ lane' = [lane EXCEPT ![r].at = "close", ![r].kept = Outcome(r)]
       \/ /\ ~Preempted(r) /\ Outcome(r) \in {"ask", "aborted"} /\ Leave(r) /\ UNCHANGED pending
          /\ Tell(r, [runs[r] EXCEPT !.status = IF Outcome(r) = "ask" THEN "needs_input" ELSE "failed"])
       \/ Fault /\ Leave(r) /\ Owe(r) /\ Same
    /\ UNCHANGED <<pi, watch, ready, mode, boot, inflight, given, history>>

\* Files and the screenshot are exported, or the last stop reason is read.
Close(r) ==
    /\ Holds(r, {"finalize"}, "close") /\ Leave(r)
    /\ \/ Preempted(r) /\ Same /\ UNCHANGED <<faults, pending>>
       \/ /\ ~Preempted(r) /\ UNCHANGED pending
          /\ Tell(r, [runs[r] EXCEPT !.status = IF lane[r].kept = "done" THEN "done" ELSE "failed"])
       \/ Fault /\ Owe(r) /\ Same
    /\ UNCHANGED <<pi, watch, ready, mode, boot, inflight, given, history>>

-----------------------------------------------------------------------------
(* Recovery, of the boot and of the scan.                                  *)

\* A row that is neither running nor parked has nothing to recover.
Recover(r) ==
    /\ \/ mode = "up" /\ r \in pending
       \/ mode = "boot" /\ r \in boot /\ \A q \in Rows : lane[q] = None
    /\ lane[r] = None /\ pending' = pending \ {r} /\ boot' = boot \ {r}
    /\ CASE Live(r) -> Enter(r, "recover", "lookup", 0)
         [] Parked(r) /\ ~runs[r].halt -> Enter(r, "reattach", "lookup", 0)
         [] OTHER -> UNCHANGED lane
    /\ UNCHANGED <<runs, pi, watch, ready, mode, inflight, given, history, faults, news>>

\* What is durable decides: an input on its way is submitted again, a recorded outcome is
\* finalized, a submission is watched.
LookedUp(r) ==
    /\ Holds(r, {"recover"}, "lookup")
    /\ \/ /\ UNCHANGED <<pending, faults>>
          /\ CASE ~Live(r) -> Leave(r) /\ UNCHANGED <<watch, ready>>
               [] Live(r) /\ ~runs[r].intent /\ pi[r].out # None /\ pi[r].out.rev = runs[r].rev ->
                    Leave(r) /\ ready' = [ready EXCEPT ![r] = @ \cup {runs[r].rev}] /\ UNCHANGED watch
               [] Live(r) /\ ~runs[r].intent /\ runs[r].sub # 0
                          /\ ~(pi[r].out # None /\ pi[r].out.rev = runs[r].rev) ->
                    Leave(r) /\ Watch(r, runs[r].rev) /\ UNCHANGED ready
               [] OTHER -> To(r, "claim") /\ UNCHANGED <<watch, ready>>
       \/ Fault /\ Leave(r) /\ Owe(r) /\ UNCHANGED <<watch, ready>>
    /\ UNCHANGED <<runs, pi, mode, boot, inflight, given, history, news>>

Reattached(r) ==
    /\ Holds(r, {"reattach"}, "lookup") /\ Leave(r)
    /\ \/ runs[r].sub # 0 /\ Watch(r, runs[r].rev) /\ UNCHANGED <<pending, faults>>
       \/ runs[r].sub = 0 /\ Owe(r) /\ UNCHANGED <<watch, faults>>
       \/ Fault /\ Owe(r) /\ UNCHANGED watch
    /\ UNCHANGED <<runs, pi, ready, mode, boot, inflight, given, history, news>>

\* The tenth failure in a row: Pi is cancelled before the run is failed.
Exhaust(r) ==
    /\ mode = "up" /\ r \in pending /\ Fault /\ pending' = pending \ {r}
    /\ (Live(r) \/ (Parked(r) /\ ~runs[r].halt)) /\ Enter(r, "exhaust", "abort", 0)
    /\ UNCHANGED <<runs, pi, watch, ready, mode, boot, inflight, given, history, news>>

Exhausted(r) ==
    /\ Holds(r, {"exhaust"}, "abort") /\ Leave(r)
    /\ \/ Cancel(r) /\ UNCHANGED pending
          /\ IF Live(r) \/ (Parked(r) /\ ~runs[r].halt)
             THEN Tell(r, [runs[r] EXCEPT !.status = "failed", !.park = None])
             ELSE Same /\ UNCHANGED faults
       \/ Fault /\ Owe(r) /\ Same /\ UNCHANGED <<pi, given>>
    /\ UNCHANGED <<watch, ready, mode, boot, inflight, history>>

-----------------------------------------------------------------------------
(* Pi: external.  A request takes in the inputs placed so far; a gated     *)
(* tool call cut off by a crash is asked about when Pi comes to it again.  *)

Runs(r) == mode # "down" /\ Known(r)
Work(r, w) == pi' = [pi EXCEPT ![r].work = w]

Consumed(r) ==
    LET all == pi[r].subs \cup {pi[r].bound} IN CHOOSE m \in all : \A n \in all : n <= m

\* bindConsumedInput: an outcome of an earlier input is cleared.
Rest(r) == IF pi[r].out # None /\ pi[r].out.rev # Consumed(r) THEN None ELSE pi[r].out

\* The row was read before the await: a stop since then is missed.
Request(r) ==
    /\ Runs(r) /\ (pi[r].work = "gen" \/ (pi[r].work = "idle" /\ pi[r].subs # {}))
    /\ \E work \in {"idle", "gen"} :
        /\ work = "gen" => runs[r].status = "running" /\ Rest(r) = None
        /\ work = "idle" => runs[r].halt \/ runs[r].status # "running" \/ Rest(r) # None
        /\ pi' = [pi EXCEPT ![r].work = work, ![r].subs = {}, ![r].bound = Consumed(r),
                            ![r].out = Rest(r)]
    /\ UNCHANGED <<runs, process, history, faults, news>>

\* The desktop is out of reach: a new revision asks the run to go on.
Nudge(r) ==
    /\ Runs(r) /\ pi[r].work = "gen" /\ lane[r] = None /\ Live(r) /\ Fault
    /\ pi' = [pi EXCEPT ![r].work = "idle"] /\ Owe(r)
    /\ IF ~runs[r].intent /\ runs[r].rev = pi[r].bound /\ runs[r].rev < MaxRev
       THEN runs' = [runs EXCEPT ![r].rev = @ + 1, ![r].intent = TRUE]
       ELSE UNCHANGED runs
    /\ UNCHANGED <<watch, ready, lane, mode, boot, inflight, given, history, news>>

Record(r, kind) ==
    /\ pi[r].out = None
    /\ answers' = [answers EXCEPT ![r] = pi[r].bound]

\* finish, ask_operator; another call of the round may keep it alive.
Finish(r) ==
    /\ Runs(r) /\ pi[r].work = "gen" /\ Live(r)
    /\ \E kind \in {"done", "ask"}, work \in {"idle", "gen"} :
        /\ Record(r, kind)
        /\ pi' = [pi EXCEPT ![r].work = work, ![r].out = [rev |-> pi[r].bound, kind |-> kind]]
    /\ UNCHANGED <<runs, process, shared, crossed, revived, faults, news>>

\* A tool runs only for a live run with no outcome yet; prose ends the round.
Generate(r) ==
    /\ Runs(r)
    /\ \/ pi[r].work = "gen" /\ Live(r) /\ pi[r].out = None /\ Work(r, "tool")
       \/ pi[r].work = "tool" /\ Work(r, "gen")
       \/ pi[r].work = "gen" /\ Work(r, "idle")
    /\ UNCHANGED <<runs, process, history, faults, news>>

\* authorize-retry, record-result or abandon.
Decision(r) ==
    /\ given' = given \ {r}
    /\ \/ Work(r, IF Live(r) THEN "tool" ELSE "gen") /\ UNCHANGED answers
       \/ Work(r, "gen") /\ UNCHANGED answers
       \/ /\ Record(r, "aborted")
          /\ pi' = [pi EXCEPT ![r].work = "idle", ![r].out = [rev |-> pi[r].bound, kind |-> "aborted"]]

\* requestApproval, outside the lane.  A park that cannot be stored fences the run.
Gate(r) ==
    /\ Runs(r) /\ pi[r].work \in {"replay", "gate"}
    /\ \/ r \in given /\ Decision(r) /\ Same /\ UNCHANGED faults
       \/ /\ r \notin given /\ pi[r].work = "replay" /\ UNCHANGED <<given, answers>>
          /\ \/ (runs[r].halt \/ Over(r)) /\ Work(r, "gen") /\ Same /\ UNCHANGED faults
             \/ ~runs[r].halt /\ ~Over(r) /\ runs[r].park = "decided" /\ Work(r, "gate") /\ Same
                /\ UNCHANGED faults
             \/ /\ ~runs[r].halt /\ ~Over(r) /\ runs[r].park # "decided" /\ Work(r, "gate")
                /\ Tell(r, [runs[r] EXCEPT !.status = "needs_input", !.park = "open"])
             \/ /\ ~runs[r].halt /\ ~Over(r) /\ runs[r].park # "decided" /\ Fault /\ UNCHANGED news
                /\ pi' = [pi EXCEPT ![r] = Quiet(@)]
                /\ runs' = [runs EXCEPT ![r].halt = TRUE]
    /\ UNCHANGED <<watch, ready, lane, mode, boot, pending, inflight, shared, crossed, revived>>

PiSteps(r) == Request(r) \/ Nudge(r) \/ Finish(r) \/ Generate(r) \/ Gate(r)

-----------------------------------------------------------------------------
(* The process.                                                            *)

CutOff(p) == IF p.work \in {"tool", "gate"} THEN [p EXCEPT !.work = "replay"] ELSE p

Crash ==
    /\ mode # "down" /\ Fault /\ mode' = "down"
    /\ watch' = [r \in Rows |-> {}] /\ ready' = [r \in Rows |-> {}]
    /\ lane' = [r \in Rows |-> None] /\ boot' = {} /\ pending' = {} /\ inflight' = {} /\ given' = {}
    /\ pi' = [r \in Rows |-> CutOff(pi[r])]
    /\ UNCHANGED <<runs, history, news>>

\* resume: work that no row wants is cancelled and stops are completed before anything is
\* recovered; a cancellation that fails leaves the owner closed until the next boot.
Boot ==
    /\ mode = "down" /\ mode' = "boot"
    /\ Cardinality({r \in Rows : Known(r) /\ runs[r].status = "running"}) <= MaxRuns
    /\ LET halted == {r \in Rows : Known(r) /\ runs[r].halt /\ runs[r].status # "stopped"}
       IN  /\ runs' = [r \in Rows |-> IF r \in halted
                           THEN [runs[r] EXCEPT !.status = "stopped", !.park = None, !.owed = TRUE]
                           ELSE runs[r]]
           /\ pi' = [r \in Rows |-> IF Over(r) \/ r \in halted THEN Quiet(pi[r]) ELSE pi[r]]
           /\ boot' = {r \in Rows \ halted : Live(r) \/ (Parked(r) /\ runs[r].status = "needs_input")}
    /\ UNCHANGED <<watch, ready, lane, pending, inflight, given, history, faults, news>>

Resumed ==
    /\ mode = "boot" /\ boot = {} /\ (\A r \in Rows : lane[r] = None) /\ mode' = "up"
    /\ UNCHANGED <<runs, pi, watch, ready, lane, boot, pending, inflight, given, history, faults, news>>

Init ==
    /\ runs = [r \in Rows |-> None] /\ shared \in BOOLEAN
    /\ pi = [r \in Rows |-> [work |-> "idle", subs |-> {}, placed |-> 0, bound |-> 0, out |-> None]]
    /\ watch = [r \in Rows |-> {}] /\ ready = [r \in Rows |-> {}] /\ lane = [r \in Rows |-> None]
    /\ mode = "up" /\ boot = {} /\ pending = {} /\ inflight = {} /\ given = {}
    /\ faults = 0 /\ news = [r \in Rows |-> None] /\ answers = [r \in Rows |-> 0]
    /\ crossed = {} /\ revived = {}

Owner(r) == Start(r) \/ Send(r) \/ Decide(r) \/ Stop(r) \/ StopBegins(r) \/ StopReturns(r) \/ Notify(r)
Settlement(r) == Read(r) \/ Close(r) \/ \E rev \in 1 .. MaxRev : Seen(r, rev) \/ Finalize(r, rev)
Recovery(r) == Recover(r) \/ LookedUp(r) \/ Reattached(r) \/ Exhaust(r) \/ Exhausted(r)

Next ==
    \/ \E r \in Rows :
        Drain(r) \/ Admit(r) \/ Admission(r) \/ Owner(r) \/ Settlement(r) \/ Recovery(r) \/ PiSteps(r)
    \/ Crash \/ Boot \/ Resumed

Spec == Init /\ [][Next]_vars

-----------------------------------------------------------------------------
TypeOK ==
    /\ runs \in [Rows -> Run \cup {None}] /\ pi \in [Rows -> Agent] /\ shared \in BOOLEAN
    /\ watch \in [Rows -> SUBSET (1 .. MaxRev)] /\ ready \in [Rows -> SUBSET (1 .. MaxRev)]
    /\ lane \in [Rows -> Holder \cup {None}] /\ mode \in {"up", "down", "boot"}
    /\ boot \cup pending \cup inflight \cup given \cup crossed \cup revived \subseteq Rows
    /\ faults \in Nat /\ news \in [Rows -> Statuses \cup {None}] /\ answers \in [Rows -> Nat]

\* Runs that run, and rows the drain has taken, keep within maxRuns, recovery and restarts
\* included (subagents/drain.ts, runningIds and drain).
Slots == Cardinality(Busy) <= MaxRuns

\* One worker at a time is in the box of a conversation, running or waiting for an answer,
\* but for one whose admission began after it had failed: its lease may be another's by
\* then (subagent-runs.ts, workerLease and qLease).
InBox(r) == Known(r) /\ runs[r].status \in {"running", "needs_input"}
OneInTheBox == shared => Cardinality({r \in Rows \ revived : InBox(r)}) <= 1

\* A run whose stop was recorded is never settled as done or failed by a settlement, an
\* admission or a recovery that awaited meanwhile (subagents/settle.ts, finalize).
StopWins == \A r \in Rows : Known(r) /\ runs[r].halt => runs[r].status \notin {"done", "failed"}

\* A run that is over runs no tool and has no input waiting in Pi, unless its admission came
\* after its end or its approval over an input (subagents/tools.ts, throwIfHalted and
\* requestGuard).
QuietWhenOver ==
    \A r \in Rows : Over(r) /\ r \notin crossed \cup revived => pi[r].work # "tool" /\ pi[r].subs = {}

\* The outcome a done run was settled with is of its last input, not of one it had before a
\* steer (subagents/settle.ts, finalize; tools.ts, bindConsumedInput).
AnswersTheLast == \A r \in Rows : Known(r) /\ runs[r].status = "done" => answers[r] = runs[r].rev

\* How a run ended was told, or is owed and told by a later scan (subagents/settle.ts, notify).
Told == \A r \in Rows : Over(r) => runs[r].owed \/ news[r] = runs[r].status

\* What runs has something to settle it: an operation in its lane, the recovery list, the
\* drain, or a monitor of its last input; an approval admitted over an input on its way has
\* not (subagents/recovery.ts, recoverRun and drive; admission.ts, admit).
Owned ==
    \A r \in Rows : mode = "up" /\ Live(r) /\ lane[r] = None /\ r \notin crossed =>
        \/ r \in pending \cup inflight
        \/ ~runs[r].intent /\ runs[r].rev \in watch[r] \cup ready[r]

SubagentInv == TypeOK /\ Slots /\ OneInTheBox /\ StopWins /\ QuietWhenOver /\ AnswersTheLast /\ Told /\ Owned

\* A run that is over stays over, unless its admission came after its end
\* (subagents/admission.ts, throwIfHalted asks for a stop only).
OverIsFinal == [][\A r \in Rows : Over(r) /\ r \notin revived' => Over(r)']_runs
=============================================================================
