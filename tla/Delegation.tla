------------------------------ MODULE Delegation ------------------------------
(***************************************************************************)
(* One delegation: its row (delegations.ts), and what writes it            *)
(* (delegation-lifecycle.ts): the launch, a follow-up prompt, a stop and   *)
(* the watcher's scan.  Each runs from await to await, so a step here is   *)
(* what happens between two awaits, and the others come between.  Rows do  *)
(* not read each other, and the scan takes them in turn.                   *)
(* The agent lives in herdr and outlives the process.  A working agent     *)
(* takes a prompt into the work under way; herdr returns from a prompt     *)
(* when the agent has left idle.                                           *)
(* promptedAt is the number of the prompt: the report of a prompt is fresh *)
(* for it and no later one.                                                *)
(***************************************************************************)
EXTENDS Integers

CONSTANTS
    None,
    MaxPrompts,    \* bound: prompts an operator sends
    MaxSeq,        \* bound: the seq past which no dialog comes up
    MaxFaults      \* bound: crashes, scans that cannot observe and notices refused

Statuses == {"starting", "running", "needs_input", "done", "failed", "stopped"}

\* The row, the agent as herdr shows it, a follow-up under way and what a scan holds.
Row == [status : Statuses, bound : BOOLEAN, base : Nat \cup {None}, at : Nat, owed : BOOLEAN]
Shown == [status : {"idle", "working", "blocked", "done"}, seq : Nat, comp : Nat \cup {None}]
Sending == [at : Nat, phase : {"prompt", "baseline"}, kept : Nat]
Telling == [to : {None, "done", "needs_input", "failed"}, base : Nat \cup {None}, capture : BOOLEAN]
Scan == [phase : {"look", "tell", "deliver", "baseline", "recover", "recovered"}, snap : Row, tell : Telling]
Launches == {"workspace", "start", "prompt", "baseline", "closing"}

\* None is none of what it stands beside.
DelegationAssumption ==
    /\ None \notin Nat /\ None \notin Launches \cup {"close", "check", "done", "needs_input", "failed"}
    /\ None \notin Row /\ None \notin Shown /\ None \notin Sending /\ None \notin Scan

VARIABLES
    row,        \* None or [status, bound, base, at, owed]
    aged,       \* prompts up to here are older than STALL_MS
    space,      \* herdr: the workspace is open
    agent,      \* herdr: None or [status, seq, comp]
    took, fin,  \* the agent: the last prompt it took, the last it finished
    report,     \* the prompt the report file answers, 0 when there is none
    prompts,    \* prompts numbered so far
    launch,     \* the phase the launch awaits in, or None
    send,       \* a follow-up: None or [at, phase, kept]
    stop,       \* a stop: the phase it awaits in, or None
    scan,       \* the watcher: None or [phase, snap, tell]
    booted,     \* the first scan of this process has begun
    faults,
    told,       \* history: the prompts whose completion was told
    guessed,    \* history: the prompts last judged done by a moved seq alone
    leaked      \* history: a close failed or its process died

host == <<space, agent, took, fin, report>>
tools == <<prompts, launch, send, stop>>
known == <<booted, told, guessed>>
watcher == <<scan, known>>
vars == <<row, aged, host, tools, watcher, faults, leaked>>

Fault == faults < MaxFaults /\ faults' = faults + 1
Stopped == row.status = "stopped"
Alive == agent # None

\* A close ends the agent; one that fails leaves it running, and nobody tries again.
Closes == space' = FALSE /\ agent' = None /\ UNCHANGED leaked
CloseFails == leaked' = TRUE /\ UNCHANGED <<space, agent>>

\* Baselines with a failed read taken for seq 0.
BaselinesFromZero == {0} \cup (IF Alive THEN {agent.seq} ELSE {})

\* herdr.get after a prompt: the seq it reads, or null when it fails.
Baselines == {None} \cup (IF Alive THEN {agent.seq} ELSE {})

\* agent prompt: a blocked agent rejects it, an idle one starts, a working one takes it in.
CanTake == Alive /\ agent.status # "blocked"
Takes(at) ==
    /\ took' = at
    /\ agent' = [agent EXCEPT !.status = "working",
                              !.seq = IF agent.status = "working" THEN @ ELSE @ + 1]
Prompted(at) == CanTake /\ Takes(at)
NotPrompted(at) ==      \* rejected, or taken and the answer lost
    \/ UNCHANGED <<agent, took, faults>>
    \/ Fault /\ Prompted(at)

\* markRunning: anything but a stop is overwritten, with a fresh prompt and baseline.
MarkRunning(base, at) ==
    row' = IF Stopped THEN row
           ELSE [row EXCEPT !.status = "running", !.base = base, !.at = at, !.owed = FALSE]

-----------------------------------------------------------------------------
(* Launch.                                                                 *)

Launch ==
    /\ row = None /\ booted
    /\ row' = [status |-> "starting", bound |-> FALSE, base |-> 0, at |-> 0, owed |-> FALSE]
    /\ launch' = "workspace"
    /\ UNCHANGED <<aged, host, prompts, send, stop, watcher, faults, leaked>>

\* A raced stop keeps its verdict and has cleaned up; otherwise failed, then closed.
FailStart ==
    IF Stopped THEN launch' = None /\ UNCHANGED row
    ELSE row' = [row EXCEPT !.status = "failed"] /\ launch' = (IF row.bound THEN "closing" ELSE None)

Closing ==
    /\ launch = "closing" /\ launch' = None /\ (Closes \/ CloseFails)
    /\ UNCHANGED <<row, took, fin, report, prompts>>

\* bindLaunch, and the row is read again: a stop that won leaves the close to the launch.
Workspace ==
    /\ launch = "workspace"
    /\ \/ space' = TRUE /\ row' = [row EXCEPT !.bound = TRUE]
          /\ launch' = IF Stopped THEN "closing" ELSE "start"
       \/ FailStart /\ UNCHANGED space
    /\ UNCHANGED <<agent, took, fin, report, prompts, leaked>>

Started(status) == space /\ agent' = [status |-> status, seq |-> 1, comp |-> None]

\* The prompt is sent only if no stop won the startup.
Start ==
    /\ launch = "start"
    /\ \/ Started("idle") /\ launch' = (IF Stopped THEN None ELSE "prompt") /\ UNCHANGED row
       \/ FailStart /\ UNCHANGED agent
    /\ UNCHANGED <<space, took, fin, report, prompts, leaked>>

\* agent_not_ready: a startup dialog; the task stays owed.  markParked refuses a stopped row.
Park ==
    /\ launch = "start" /\ Started("blocked")
    /\ IF Stopped THEN launch' = "closing" /\ UNCHANGED row
       ELSE /\ launch' = None
            /\ \E base \in {None, 1} :
                row' = [row EXCEPT !.status = "needs_input", !.owed = TRUE, !.base = base]
    /\ UNCHANGED <<space, took, fin, report, prompts, leaked>>

PromptTask ==
    /\ launch = "prompt" /\ prompts' = prompts + 1
    /\ \/ Prompted(prompts') /\ launch' = "baseline" /\ UNCHANGED <<row, faults>>
       \/ NotPrompted(prompts') /\ FailStart
    /\ UNCHANGED <<space, fin, report, leaked>>

Baseline ==
    /\ launch = "baseline" /\ launch' = IF Stopped THEN "closing" ELSE None
    /\ \E base \in Baselines : MarkRunning(base, prompts)
    /\ UNCHANGED <<host, prompts, leaked>>

Launching ==
    /\ \/ PromptTask
       \/ (Workspace \/ Start \/ Park \/ Baseline \/ Closing) /\ UNCHANGED faults
    /\ UNCHANGED <<aged, send, stop, watcher>>

-----------------------------------------------------------------------------
(* A follow-up prompt and a stop.                                          *)

\* send: the previous report is archived, then the prompt.
Send ==
    /\ row # None /\ booted /\ send = None
    /\ row.bound /\ ~row.owed /\ row.status \notin {"stopped", "starting"}
    /\ prompts < MaxPrompts /\ prompts' = prompts + 1
    /\ send' = [at |-> prompts', phase |-> "prompt", kept |-> report] /\ report' = 0
    /\ UNCHANGED <<row, aged, space, agent, took, fin, launch, stop, watcher, faults, leaked>>

\* A prompt that fails puts the old report back unless a newer one is there.
SendReturns ==
    /\ send # None /\ send.phase = "prompt"
    /\ \/ Prompted(send.at) /\ send' = [send EXCEPT !.phase = "baseline"] /\ UNCHANGED <<report, faults>>
       \/ NotPrompted(send.at) /\ send' = None
          /\ report' = IF report = 0 THEN send.kept ELSE report
    /\ UNCHANGED <<row, aged, space, fin, prompts, launch, stop, watcher, leaked>>

SendBaseline ==
    /\ send # None /\ send.phase = "baseline" /\ send' = None
    /\ \E base \in Baselines : MarkRunning(base, send.at)
    /\ UNCHANGED <<aged, host, prompts, launch, stop, watcher, faults, leaked>>

MarkStopped == row' = [row EXCEPT !.status = "stopped"] /\ stop' = None

\* A row that was never bound is stopped at once.
Stop ==
    /\ row # None /\ booted /\ stop = None
    /\ IF row.bound THEN stop' = "close" /\ UNCHANGED row ELSE MarkStopped
    /\ UNCHANGED <<aged, host, prompts, launch, send, watcher, faults, leaked>>

\* A close that failed is followed by a liveness check; what may run is not stopped.
StopReturns ==
    /\ \/ stop = "close" /\ Closes /\ MarkStopped
       \/ stop = "close" /\ CloseFails /\ stop' = "check" /\ UNCHANGED row
       \/ stop = "check" /\ ~Alive /\ MarkStopped /\ UNCHANGED <<space, agent, leaked>>
       \/ stop = "check" /\ stop' = None /\ UNCHANGED <<row, space, agent, leaked>>
    /\ UNCHANGED <<aged, took, fin, report, prompts, launch, send, watcher, faults>>

-----------------------------------------------------------------------------
(* The watcher.                                                            *)

\* transitionIf and captureBaseline: only over the row the scan read.
Same(snap) == row.status = snap.status /\ row.at = snap.at
Transition(snap, to, base) ==
    row' = IF Same(snap)
           THEN [row EXCEPT !.status = to, !.base = IF base = None THEN @ ELSE base]
           ELSE row
Captured(snap) == Same(snap) /\ row.base = None

Nothing == [to |-> None, base |-> None, capture |-> FALSE]
At(phase, snap, tell) == scan' = [phase |-> phase, snap |-> snap, tell |-> tell]
Ends == scan' = None

\* StartScan that leaves a starting row of an earlier process alone.
StartScanSkips ==
    /\ row # None /\ scan = None /\ booted' = TRUE
    /\ \/ row.status \in {"running", "needs_input"} /\ At("look", row, Nothing)
       \/ ~booted /\ row.status \notin {"running", "needs_input"} /\ Ends
    /\ UNCHANGED <<row, aged, host, tools, told, guessed, faults, leaked>>

\* The first scan of a process takes a starting row for a launch that died; a later one leaves
\* it to its launch.
StartScan ==
    /\ row # None /\ scan = None /\ booted' = TRUE
    /\ \/ row.status = "starting" /\ ~booted /\ At("recover", row, Nothing)
       \/ row.status \in {"running", "needs_input"} /\ At("look", row, Nothing)
       \/ ~booted /\ row.status \notin {"starting", "running", "needs_input"} /\ Ends
    /\ UNCHANGED <<row, aged, host, tools, told, guessed, faults, leaked>>

\* notify, then capture and transition; refused, the row is left for the next scan.
TellLater(snap, to, base, capture) ==
    At("tell", snap, [to |-> to, base |-> base, capture |-> capture])

Fresh(snap) == report # 0 /\ report >= snap.at
Finished == agent.status = "done" \/ (agent.status = "idle" /\ agent.comp # None)

\* No baseline yet: nothing is compared before one is captured, and work finished by then is
\* attributed by the report or by nobody.
LookPending(snap) ==
    CASE snap.status = "needs_input" /\ snap.owed /\ agent.status # "blocked" ->
            IF Captured(snap)
            THEN row' = [row EXCEPT !.base = agent.seq]
                 /\ At("deliver", [snap EXCEPT !.base = agent.seq], [Nothing EXCEPT !.base = agent.seq])
            ELSE Ends /\ UNCHANGED row
      [] ~(snap.status = "needs_input" /\ snap.owed) /\ Finished ->
            /\ TellLater(snap, IF Fresh(snap) THEN "done" ELSE "needs_input", agent.seq, TRUE)
            /\ UNCHANGED row
      [] OTHER ->
            /\ row' = IF Captured(snap) THEN [row EXCEPT !.base = agent.seq] ELSE row
            /\ Ends

\* What passes for the completion of the prompt: completion_seq past the baseline, the prompt's
\* own report, or, where herdr shows no completion_seq, any change of state past the baseline.
DoneSeq == IF agent.comp # None THEN agent.comp ELSE agent.seq
Completed(snap) == DoneSeq > snap.base \/ Fresh(snap)
Guess(snap) == agent.comp = None /\ ~Fresh(snap)

\* The judgement of a prompt: done, by what is seen or by a guess; needs_input; or not yet.
Judge(snap) ==
    LET over == agent.status \in {"idle", "done"} /\ Completed(snap)
    IN  /\ CASE agent.status = "blocked" -> TellLater(snap, "needs_input", agent.seq, FALSE)
              [] over -> TellLater(snap, "done", None, FALSE)
              [] agent.status = "idle" /\ ~over /\ snap.at <= aged ->
                    TellLater(snap, "needs_input", agent.seq, FALSE)
              [] OTHER -> Ends
        /\ guessed' = IF ~over THEN guessed
                      ELSE IF Guess(snap) THEN guessed \cup {snap.at} ELSE guessed \ {snap.at}

\* A parked row resumes when the seq has moved: the owed task is delivered, or the running
\* rules apply in the same scan, over the row as it now is.
LookParked(snap) ==
    CASE agent.seq <= snap.base -> Ends /\ UNCHANGED <<row, guessed>>
      [] agent.seq > snap.base /\ snap.owed ->
            At("deliver", snap, [Nothing EXCEPT !.base = agent.seq]) /\ UNCHANGED <<row, guessed>>
      [] OTHER ->
            IF Same(snap)
            THEN row' = [row EXCEPT !.status = "running"] /\ Judge([snap EXCEPT !.status = "running"])
            ELSE Ends /\ UNCHANGED <<row, guessed>>

Look ==
    /\ scan # None /\ scan.phase = "look"
    /\ CASE ~Alive -> TellLater(scan.snap, "failed", None, FALSE) /\ UNCHANGED <<row, guessed>>
         [] Alive /\ scan.snap.base = None -> LookPending(scan.snap) /\ UNCHANGED guessed
         [] Alive /\ scan.snap.base # None /\ scan.snap.status = "needs_input" -> LookParked(scan.snap)
         [] OTHER -> Judge(scan.snap) /\ UNCHANGED row
    /\ UNCHANGED <<aged, host, tools, booted, told, faults, leaked>>

\* Cannot observe is not gone: the row stays watched.
Unreachable ==
    /\ scan # None /\ scan.phase = "look" /\ Fault /\ Ends
    /\ UNCHANGED <<row, aged, host, tools, known, leaked>>

Lands ==
    /\ scan # None /\ scan.phase = "tell" /\ Ends
    /\ told' = IF scan.tell.to = "done" THEN told \cup {scan.snap.at} ELSE told
    /\ IF scan.tell.capture /\ ~Captured(scan.snap) THEN UNCHANGED row
       ELSE Transition(scan.snap, scan.tell.to, scan.tell.base)
    /\ UNCHANGED <<aged, host, tools, booted, guessed, faults, leaked>>

Refused ==
    /\ scan # None /\ scan.phase = "tell" /\ Fault /\ Ends
    /\ UNCHANGED <<row, aged, host, tools, known, leaked>>

\* deliverPendingPrompt: a rejected prompt moves the baseline, not the row.
Deliver ==
    /\ scan # None /\ scan.phase = "deliver"
    /\ \/ Prompted(prompts + 1) /\ UNCHANGED <<row, faults>>
          /\ At("baseline", [scan.snap EXCEPT !.at = prompts + 1], Nothing)
       \/ NotPrompted(prompts + 1) /\ Transition(scan.snap, "needs_input", scan.tell.base) /\ Ends
    /\ prompts' = IF took' = took THEN prompts ELSE prompts + 1
    /\ UNCHANGED <<aged, space, fin, report, launch, send, stop, known, leaked>>

Delivered ==
    /\ scan # None /\ scan.phase = "baseline" /\ Ends
    /\ \E base \in Baselines : MarkRunning(base, scan.snap.at)
    /\ UNCHANGED <<aged, host, tools, known, faults, leaked>>

\* recoverStart: the notice may fail, the row fails anyway.
RecoverClose ==
    /\ scan # None /\ scan.phase = "recover" /\ scan' = [scan EXCEPT !.phase = "recovered"]
    /\ IF scan.snap.bound THEN Closes \/ CloseFails ELSE UNCHANGED <<space, agent, leaked>>
    /\ UNCHANGED <<row, aged, took, fin, report, tools, known, faults>>

Recovered ==
    /\ scan # None /\ scan.phase = "recovered" /\ Ends
    /\ Transition(scan.snap, "failed", None)
    /\ UNCHANGED <<aged, host, tools, known, faults, leaked>>

-----------------------------------------------------------------------------
(* The agent, and the process.                                             *)

Becomes(status) == agent' = [agent EXCEPT !.status = status, !.seq = @ + 1]

\* Work ends: with its report or without, shown as idle or as done, and counted by a
\* completion_seq unless the herdr server is too old to have one.
Finish ==
    /\ Alive /\ agent.status = "working" /\ fin' = took
    /\ \E status \in {"idle", "done"}, comp \in {agent.seq + 1} \cup ({agent.comp} \cap {None}) :
        agent' = [status |-> status, seq |-> agent.seq + 1, comp |-> comp]
    /\ report' \in {report, took}
    /\ UNCHANGED <<row, aged, space, took, tools, watcher, faults, leaked>>

\* A dialog, an interrupt, an answer or an exit.
Wander ==
    /\ Alive
    /\ \/ agent.status = "working" /\ agent.seq < MaxSeq /\ Becomes("blocked")
       \/ agent.status = "working" /\ Becomes("idle")
       \/ agent.status = "blocked" /\ Becomes(IF fin < took THEN "working" ELSE "idle")
       \/ agent' = None
    /\ UNCHANGED <<row, aged, space, took, fin, report, tools, watcher, faults, leaked>>

Age == /\ row # None /\ row.status = "running" /\ aged < row.at /\ aged' = row.at
       /\ UNCHANGED <<row, host, tools, watcher, faults, leaked>>

Crash ==
    /\ Fault
    /\ launch' = None /\ send' = None /\ stop' = None /\ scan' = None /\ booted' = FALSE
    /\ leaked' = (leaked \/ launch = "closing")
    /\ UNCHANGED <<row, aged, host, prompts, told, guessed>>

Init ==
    /\ row = None /\ aged = 0 /\ space = FALSE /\ agent = None /\ took = 0 /\ fin = 0 /\ report = 0
    /\ prompts = 0 /\ launch = None /\ send = None /\ stop = None
    /\ scan = None /\ booted = TRUE /\ faults = 0 /\ told = {} /\ guessed = {} /\ leaked = FALSE

Watching == StartScan \/ Look \/ Lands \/ Deliver \/ Delivered \/ RecoverClose \/ Recovered

Next ==
    \/ Launch \/ Launching \/ Send \/ SendReturns \/ SendBaseline \/ Stop \/ StopReturns
    \/ Watching \/ Unreachable \/ Refused \/ Finish \/ Wander \/ Age \/ Crash

\* The awaits of the process return, its timer ticks, and a working agent ends.
Fairness ==
    /\ WF_vars(Launching) /\ WF_vars(SendReturns \/ SendBaseline) /\ WF_vars(StopReturns)
    /\ WF_vars(Watching) /\ WF_vars(Finish) /\ WF_vars(Age)

Spec == Init /\ [][Next]_vars /\ Fairness

-----------------------------------------------------------------------------
TypeOK ==
    /\ row \in Row \cup {None} /\ agent \in Shown \cup {None} /\ space \in BOOLEAN /\ (Alive => space)
    /\ launch \in Launches \cup {None} /\ send \in Sending \cup {None} /\ stop \in {"close", "check", None}
    /\ scan \in Scan \cup {None} /\ booted \in BOOLEAN /\ leaked \in BOOLEAN
    /\ {aged, took, fin, report, prompts} \subseteq Nat /\ told \cup guessed \subseteq Nat /\ faults \in Nat
    /\ report <= fin /\ fin <= took /\ took <= prompts

\* A completion is of the prompt the row was last sent, never of an earlier one folded into a
\* baseline (delegation-lifecycle.ts, check "never compare against a pre-prompt seq"), unless
\* herdr showed no completion_seq and the moved seq of a resting agent was taken for one.
DoneWasDone == row # None /\ row.status = "done" => row.at <= fin \/ row.at \in guessed

\* Done is told of work the agent finished, whatever the herdr server reports (herdr.ts, AgentInfo
\* "startup and session changes do not set it").  It does not hold (README, section 6).
DoneOnlyWhenFinished == row # None /\ row.status = "done" => row.at <= fin

\* A verdict of the watcher follows a notice of it that landed
\* (delegation-lifecycle.ts, "Notices land before watcher transitions").
VerdictWasTold == row # None /\ row.status = "done" => row.at \in told

\* A stopped or failed row at rest leaves no agent running, unless closing its workspace
\* failed (delegation-lifecycle.ts, stop "no unseen workspace/agent can remain running").
NothingLeftRunning ==
    row # None /\ row.status \in {"stopped", "failed"} /\ <<launch, send, stop, scan>> = <<None, None, None, None>>
        => ~Alive \/ leaked

DelegationInv == TypeOK /\ DoneWasDone /\ VerdictWasTold /\ NothingLeftRunning

\* A stop is final: no launch, send or scan under way revives or overwrites it (delegations.ts, qRunning).
StopIsFinal == [][row # None /\ Stopped => row'.status = "stopped"]_vars

\* The one completion nobody settles: herdr shows the agent done, nothing attributes the work by
\* a report, and the baseline was read after it.
Folded ==
    /\ Alive /\ agent.status = "done" /\ report < row.at
    /\ row.base # None /\ DoneSeq <= row.base

Unsettled == row # None /\ row.status \in {"starting", "running"}

\* A delegation that starts or runs is settled, or is folded (delegation-lifecycle.ts, check).
EverySettles == [](Unsettled => <>(~Unsettled \/ Folded))
=============================================================================
