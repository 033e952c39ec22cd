# A TLA+ verification of little-goblin

little-goblin is a personal agent for one operator: one Bun process that talks
over Telegram and an app, keeps its state in SQLite, and drives a model that
reads mail, schedules programs, supervises coding agents and runs tools.  The
repository's code is TypeScript under `src/`; the line numbers in
`PROJECT.json` are those of this commit.  This directory holds TLA+ modules of
its core, TLC configurations that check them on small instances, and proofs
that TLAPS checks for every instance.

How to run, inside this directory:

    tlc -workers 2 -config MCLaneMixed.cfg MCLane     # one model-checking run
    tlapm TurnJournalProofs.tla                       # the proofs

## 1. The system

JavaScript runs one callback at a time; between two `await`s nothing else
happens.  So an action of a model is the code from one await to the next, and
the interleavings are those of the awaits: provider streams, tools, summaries,
conversions of attachments, Telegram and Gmail calls.  SQLite writes are
synchronous, and several rows change in one transaction where the code says
`immediate()`.  A crash may fall between any two steps; rows survive it, memory
does not.  Where one callback commits several times and a crash between the commits
matters, that crash is an action of its own (the hooks of `WakeDelivery`, the calls of
`Followups`, the flush of `Inbox`).

| component | code | state it keeps | operations | what is hard |
|---|---|---|---|---|
| turn lanes | `runtime.ts`, `turn/*` | per conversation: queue, members of the running turn, /compact jobs, abort controller | submit, steer, claim, stop, settings fence, shutdown, fallback, land | a message lives in exactly one place across awaits; stop and epoch fences; retries after a fold |
| turn journal | `turn-journal.ts`, `turn/retry-guard.ts` | `turn_runs`, `turn_tool_calls` | begin, dispatch, settle, inherit, decide, grant, stamp | a crash between a tool's effect and its record; evidence that travels along chains of attempts |
| resume | `turn-resume.ts` | in-memory claim per source | list, decide, resume, abandon | two decisions on one run; a claim that is never released |
| compaction | `agent/compaction.ts`, `turn/overflow.ts` | compaction pointer and summary | choose a cut, summarise, commit | a cut chosen before and committed after minutes of await; causal against sequential order |
| conversation store | `conversation*.ts` | events, settings, epochs, caches | append, edit, delete, search, settings | anchors and causal order, cached views |
| wake store and dispatcher | `wake-store.ts`, `wake-dispatcher.ts`, `wake.ts` | `work_events`, `wake_deliveries` | record, append and claim, link, retarget, settle, fail, reconcile | exactly-once delivery of work across crashes, resumes and lost submissions |
| mail outbox | `mail-outbox.ts`, `mail-approval.ts`, `mail.ts` | outbox rows, in-flight table | queue, decide, send, expire, restart recovery | a send whose outcome is unknown; expiry against approval |
| memory | `memory/queue.ts`, `memory/forget.ts`, `memory/mod.ts`, `memory/hindsight.ts` | durable operations, one in flight; suppressions, recall blocks | enqueue, submit, poll, cancel, retry, forget, recall | a deletion racing the retain it deletes, and the recall that cites it |
| scheduler, mail watcher and programs | `scheduler.ts`, `mail-watcher.ts`, `mail-gws.ts`, `programs.ts`, `program-proposals.ts`, `program-ops.ts` | cursors, proposals bound to fingerprints | due, fire, propose, approve | missed and doubled occurrences; approval of a stale proposal |
| Telegram channel | `tg/*`, `rolling.ts` | inbox rows and their navigation targets, receipts, download chains, a coalescing buffer, draft state, guest sessions | record, batch, edit, navigate, flush, replay, drain, deliver | update offsets against crashes; a failed batch among newer messages; a chat that moves to another conversation while its batch is routed |
| responsibilities | `responsibilit*.ts`, `herdr.ts`, `agent/tools/responsibility.ts`, `http/app-responsibilities.ts` | records, attachments with generations, prompt operations, cursors, a follow-up plan and program | accept, attach, detach, reattach, send, reconcile, observe, follow up, report | an operation prepared under an old generation; a prompt nobody knows the fate of; sequence numbers that start over; a program created and not linked |
| delegations | `delegations.ts`, `delegation-lifecycle.ts`, `herdr.ts` | delegation rows | start, watch, send, stop | a watcher's write against an operator's stop |
| subagents | `subagents/*`, `subagent-runs.ts` | run rows, approval claims | admit, approve, settle, recover | an approval decided while the process restarts |
| skills and reviewer | `reviewer.ts`, `skill-decisions.ts` | staged directories | review, park, install, discard | a swap on disk with rollback |
| desktops, sandboxes | `desktops.ts`, `sandboxes.ts`, `podman.ts` | intent rows; podman is the truth | reconcile, reap | truth that moves under the row |
| notes, projects | `notes.ts`, `projects.ts` | rows with revisions | CRUD | stale revisions |
| surfaces, providers, process | `http/*`, `agent/*`, `index.ts`, `config.ts`, `health.ts` | none of their own worth a model | validate, render, translate | I/O |

How they interact.  Channels and the wake dispatcher hand inputs to a
conversation's **lane**; the lane stores them in the **conversation store**,
runs **attempts** of a turn, and settles each input's sink once.  Every tool
call of an attempt passes the **recovery fence**, which records it in the
**journal** before it is entered.  A turn that dies leaves an interrupted run;
the operator decides its ambiguous calls and resumes it: the lane gets a resume
marker, and the new attempt inherits the old one's rows.  The **wake store**
turns work events into one pending wake per conversation; the dispatcher
appends its trigger, submits it to the lane, and follows the run through the
journal, resume chains included.  Folds rewrite the model view of the
conversation, between turns and in the middle of one.  The mail, program and
responsibility components produce work events and take decisions of the
operator through compare-and-swap rows.

## 2. Modules

| module | models | proofs |
|---|---|---|
| `TurnJournal` | journal rows, the fence, hand-off, operator decisions, resume, crash | `TurnJournalProofs` |
| `Lane` | a lane: intake, claims, steering, attempts, folds, fallbacks, stop, settings, shutdown | `LaneProofs` |
| `Inbox` | the intake of one Telegram lane: record, chain, buffer, navigation, routing, commit, replay, drain | `InboxProofs` |
| `MCIntake` | bounds for `Inbox`, and its properties for TLC and the proofs | |
| `MCConversation` | `TurnJournal` and `Lane` in one run, with their fairness | |
| `WakeDelivery` | work events, wakes, the dispatcher's pump and hooks, over the runs of one conversation | `WakeDeliveryProofs` |
| `MailOutbox` | drafts, taps, the claim, Gmail's answers, expiry, crash | `OutboundProofs` |
| `Programs` | program rows, proposals, approvals, edits, hooks | `ProgramFiringProofs` |
| `Scheduler` (extends `Programs`) | the scan, lateness, the cursor fence, the retry ladder | `ProgramFiringProofs` |
| `MailWatcher` (extends `Scheduler`) | baselines, polls, the injection gate, outages | `ProgramFiringProofs` |
| `ProgramFiring` (extends `MailWatcher`) | the three together, with a clock, a mailbox and crashes | `ProgramFiringProofs` |
| `RetentionPromise` | what long-term memory promises of an exchange (abstract) | |
| `Retention` | the outbox and its worker, /forget, recall; implements `RetentionPromise` | `BackgroundProofs` |
| `Delegation` | one delegation: launch, follow-up, stop, the watcher; the agent in herdr | `BackgroundProofs` |
| `Subagents` | the queue, admission, approval, settlement and recovery of subagent runs | `SubagentProofs` |
| `MCBackgroundWork` | `Retention`, `Delegation` and `Subagents` in one run | |
| `ManagedSends` | a responsibility's bindings, the prompts sent through them, their settlement | `OutboundProofs` |
| `Observation` | the observer's pass, cursor and development keys of one binding | `OutboundProofs` |
| `Followups` | the follow-up program, its plan and its tick | `OutboundProofs` |
| `MCOutbound` | `MailOutbox` and the three sides of a responsibility in one run | |
| other `MC*` | model values for TLC | |

### TurnJournal

One conversation, hence at most one attempt at a time.  `run` and `calls` are
the two tables (`calls[r][<<o, c>>]` is the row of run r for call c of run o; an
inherited copy has o # r, the code's id `o:c`).  `att`, `guard`, `claimed` and
`inflight` are memory and are cleared by `CrashRestart`.  `execs`, `booked` and
`lineage` are history variables: every tool execution ever entered, those of them
whose call id no settled call of the run bore, and the attempts a run continues.  A
provider may bring a call id back within a run once the call that bore it returned
(`IdFree`; turn-journal.ts:637 says that some do).  A signature stands for a tool name with the hash of its whole
arguments.

The actions follow the code's order: `BeginRun` writes the run row and inherits
settled rows in one transaction, `Dispatch`/`DispatchGranted`/`Refuse` are the
verdicts of `classifyRetry`, `ToolReturns` settles, `DispatchLost` and
`ResultLost` are the two journal faults, `Finish`/`StampLost`/`HandOff` end an
attempt, and `Decide`, `AuthorizeRetry`, `Abandon`, `Resume` are the operator.

Properties: `NoUnauthorizedRepeat` (a later attempt does not repeat a booked execution
unless its replay is safe or the operator granted it), `GrantSpentOnce`,
`SkipNeverExpires`, `EveryDispatchJournaled` (a booked execution keeps its row, whatever
comes under its id afterwards), `NoFork`, `DecidedBeforeResumed`, `RecordsAreFinal`,
`ClaimReleased`.  An execution that is not booked leaves no row (section 6).

### Lane

The state is the conversation's log (`log`, `seq`, `boundary`), the lane
(`pending`, `converting`, `members`, `att`, `fold`, `jobs`), the authority epoch
and the shutdown flag, and three history variables.  An input's journey is
`new`, (`stored`,) `admitted`, then `completed`, `error` or `fenced`.

An attempt's phases are the awaits of `runAttempt`: `setup` (recall, tools,
buildStep), `model` (the stream), `landed` (sinks are told, a threshold fold may
follow), `folding`.  `Convert` is the await inside `prepareStep`: steers that
were claimed and are not yet members.  An aborted stream may end its attempt
while such a conversion is out; it settles its input as fenced when it returns.

Abstractions, each of them without loss for the properties:
- The sizes of events and the tail budget only decide which cut `chooseBoundary`
  returns.  `Cuts` is the set of cuts some sizes and budget produce: every
  complete cut above the last boundary that leaves something below the ceiling.
- Continuations that run without an await of their own after an authority check
  are one step with the check.
- What a failed turn leaves behind is one anchored note, or nothing.
- Of what is folded the model sees one entry, the summary, with the seq of the boundary
  (`View`); it counts as the user's, so a reply that read nothing above it anchors there.
- Tools are not in this module: an attempt that had an effect is one that is no
  longer `fresh`, or fails without advancing.

Properties: `HeldAndRead`, which is the type invariant with `Custody` (an
unsettled input is held in one place, once) and `CompletedWasRead` (a completed
input was read by a reply anchored at or after it) and `NoOvertaking`;
`FenceHolds` (`StopIsFinal`, `FencedForCause` and `SettledOnce`),
`FoldSparesUnanswered`, of what was not offered late; `LostOnlyOverWaiting` (which replies alone a fold hides from the
model unread: `NothingLost` without a condition does not hold); `EverySettled` and
`DrainLoopEnds`
(`EveryJobAnswered` and `ShutdownDrains`) under fairness.

### Inbox

One lane of Telegram's intake.  `db` is the database as far as the intake writes
it: the rows of `tg_inbox` with their state, text and archive target, the receipts
of navigation commands, the histories (`log`), the current conversation (`pin`) and
the links back (`prev`).  `chain`, `bucket`, `timers`, `deferred` and `flight` are
the memory of the lane; `sent`, `handled` and `confirmed` are the user, this process
and Telegram's offset.  An update's number is its place in the chat.

A flush runs from the buffer's timer to its first await (`Flush`), and from there in
one `Resume` per await: the follow-up check, then the marker of a new conversation.
After each the batch is compared with what a navigation has assigned meanwhile.
These parts run in one callback, so they are functions of the database (`Assigned`,
`Archived`, `Remaining`, `Admitted`), composed in the order of the code.  When the
flush's promise settles, the deferred one starts before anything else (`Settle`).
`Breaks` is a check or a write that throws, before, between or after the archiving
commits, one per history (`Begun`); the whole batch returns to the front of the buffer.
`Drain` is `drainIntake`.
A command's text does not matter: it may roll an idle chat or end the current turn.

Properties: `IntakeInv`, the type invariant with `HeldOnce` (a pending row is in one
place, once), `LandedOnce` (one history, once, with the text its row has), `InOrder`
(a history has its inputs as they were sent, but for what the gate had refused before
a crash), `NavigationCutsOff` (what a navigation passed is kept where the user left,
without a turn) and `CleanStop`; `JoinsTheCurrent`; `EveryInputDecided` under
fairness.

Left out: a sender's class does not change (the reset of a demoted chat deletes
conversations), group topics (flushed like the app's, without a deletion), the
downloads' outcome, an edit whose row cannot be written after its buffered item was.

### WakeDelivery

The rows are `wakeOf` (`wake_events`), `wakes` (`wake_deliveries`), `runs`
(`turn_runs`) and the epoch; `queue`, `joining`, `members` and `att` are the lane
as far as it calls the dispatcher (its own behaviour is `Lane`'s), `unlinked` is
the dispatcher's fence map.  `told`, `took`, `line`, `revoked` and `lost` are
history.

A pump is synchronous and runs inside whatever called it: a recorded
development, the ticker, the end hook of a run, the boot.  So `Pump` is an
operator over the rows and the memory that its caller leaves, and `Record`,
`Ticker`, `Stamp` and `Boot` are one step each with it.  `Record` is `recordAll`,
with one pump after the last development; `record` is the case of one.  `Classify` is
`reconcile`, `Pumped` what the pass writes, `Offerable` and `Take` the submit.
`Begin`, `JoinSteers` and `DieBeforeRun` call the begin, members and
pre-run-failure hooks (`LinkEvents`, `CloseUnlinked`).  In a step with a fault
the store refuses an arbitrary set of the writes; a submit may throw, which
gates its wake until `GateOpens`.  A step takes refused writes or a crash, not both.

Nothing of the process comes between the writes of a step, but each commits on its
own, and a crash comes between them.  `CrashInBegin` dies after `beginRun` committed
the run's row and before the begin hook committed its last retarget or link;
`CrashInDeath` between two closures of a turn that died before its run.  The other
cuts add nothing and are not separate steps.  A pump writes row by row, so one cut
short, or a `Record` or `Stamp` whose pump never began, leaves what the boot's own pump
finds and does again; a cut among the links of joining steers leaves what a join of the
linked ones and then a crash leaves.

Abstractions: a refused admission is a setup that dies at once; the members of a
failed attempt are told in one step, after the end hook; conversions that a stop
fenced settle together; what a fold is about is left to `Lane`; an interrupted run can
be resumed also after its trigger ran again elsewhere, as the code does not look there.

Properties: `Accounted`, which is the type invariant with `ProcessedOnce`,
`NothingUntold` and `SettledWasAnswered`; `RunDecides`, `StopRevokes`, and
`EveryWakeDecided` under fairness.  `ProcessedOnce` and `RunDecides` except the wakes in
`lost`, whose run no row names: those whose link and fail-closed write were both refused,
when the process ends and with it the in-memory fence (the code says so, "submit fenced
for this process"); and those a crash caught between the commit of the run's row and the
commit of their link, or, inherited from the attempt before, of their retarget.
`AnsweredOnce` is the claim without the exception; it does not hold (section 6).

### MailOutbox

`row` is the status column of `mail_outbox`, `flight` the in-flight table with
the await its send stands at (the thread lookup, Gmail's answer, or the notice
that follows).  `afloat` and `accepted` are Gmail: a POST that left is accepted
now, later or never, whether anyone waits for it or not, and a crash does not
recall it.  `Accept` is therefore the one external action.  `Rejected` is a
token that could not be minted or a definitive 4xx, `Ambiguous` everything
`AmbiguousSendError` stands for, `Completed` a readable answer.  `Answered` is
the `finally` that takes the flight off the table.

Abstractions: the claim counts the POST as leaving, which adds only behaviours
(a crash before it leaves is one that Gmail never accepts); a graceful stop waits
for flights and so is an interleaving already there; texts, addresses, message
bindings and whether a stamp is delivered are left out, what a decision would
stamp is `stamp`.

Properties: `SentOnce`, `StampIsTrue`, `DecidedOnce`, and `EveryDraftDecided`
under fairness.

### Programs, Scheduler, MailWatcher, ProgramFiring

`rows` is the programs table (deleted rows are `None`), `proposals` the staged
grants in order, `minted` the hook credentials.  `Programs` has the commands: a
proposal to create, edit or rotate a hook, its approval with the stale check by
`Fingerprint`, rejection and supersession, the free edits, enabling, disabling,
deletion.  Each is one transaction.  A cron of period c fires at the multiples of
c; a name and a lateness are edited alike, so one field stands for both.

`Scheduler` has the scan.  The rows of one scan do not read each other, so a step
fires one due row: it reads the latest occurrence, passes over what is too late,
holds back what Telegram cannot deliver, submits, and writes the cursor.  A
refused cursor write leaves a fence in memory, and the next scan retries the
write and not the fire.  `timers` is the ladder of retries for turns that died
before a model was called.

`MailWatcher` has one scan at a time over a snapshot of the rows, with an await
at Gmail and one at the injection gate, and its conditional writes (`rev` is the
filter's revision).  A history id is a length of `mailbox`.

`ProgramFiring` composes them with `Tick`, `Arrive` and `Crash`.  A crash may fall
between a fire and the write that accounts for it.

Properties: `StoreSound` (rows well formed; one grant at most waits for a
program), `FiresOnce` (`CursorFollowsFires`: every occurrence behind the cursor
was fired or passed over, whatever was refused or edited; `PaidOnce`: one
attempt of an occurrence at a time, none after one reached a model; and of the
mail `MailNotLost`, `NoBacklogFired`, `FiredOnce`), `AuthorityIsGranted`
(`GrantIsWhatWasShown`, `AuthorityNeedsApproval`: settings come only from
approvals, and as the card showed them), `WithdrawalWins` (`SkippedNotOwed`,
`WithdrawnNeverFires`).

Left out: webhooks beyond their credential, follow-up rows, rendering of cards,
the text of outage notices.

### RetentionPromise and Retention

`rows` is `memory_outbox` by document, `suppressed` and `blocks` are the
suppressions and the recall blocks of conversations, `asked` the worker's one
request in flight with its deferred cancellation, `forgets` the running /forget
of a document, `recall` a recall in flight.  `ops`, `bank` and `late` are the
other service and the network: an operation is accepted, processed, answered
about or dropped, and a POST that timed out may still arrive.  Backoff is only
when the worker gets to a row, so any row may be due.

`RetentionPromise` is what the operator is promised: the `topic`, one `fate` per exchange
and the set of documents in the bank.  What is said in a topic that is off is refused;
turning the topic off or deleting it (`Shut`) drops what is owed, but for the one exchange
whose request may be on its way.  The promise does not say that an excluded topic sends
nothing: `Retry` owes again what is parked, whatever the topic, as `/memory retry` does
(section 6).  `KeepsThePromise` is `P!Spec` for the fates
`FateOf` reads off the rows and the history; TLC checks it as a property of the
detailed specification, steps included.  `RetentionInv` is the type invariant with
`RequestOwnsItsRow` (nobody changes a row under the request made for it),
`CancelledIsNotSent` (a withdrawn exchange waits for a POST only if it was in
flight) and `ForgottenStaysOut` (what was forgotten with nothing of it under way
elsewhere is in no row, no recall block and not in the bank).

Left out: a second bank, which refuses /forget before it changes anything;
screening, quarantine, attempt counts.

### Delegation

One row, since rows do not read each other and the scan takes them in turn.
`launch`, `send`, `stop` and `scan` say which await each of them stands at.
`space` and `agent` are herdr and outlive the process; an agent has a status, a
sequence number of its status changes and the one of its last completion.
`promptedAt` is the number of the prompt, since reports are compared with it and
nothing else is.  `aged` is the stall timeout.

What passes for a completion is `DoneSeq`: the completion number or, where herdr shows
none, the number of any status change, whether the server is too old to count completions
or the agent has completed nothing.  `guessed` are the prompts last judged done by that
fallback.

`DelegationInv` is the type invariant with `DoneWasDone` (a completion is of the
last prompt, never of one folded into a baseline, but for the guesses), `VerdictWasTold` (a notice
lands before the transition) and `NothingLeftRunning` (a delegation that is over
leaves no agent behind, unless a close failed).  `EndsOnce` has `StopIsFinal` and,
under fairness, `EverySettles`, which excepts `Folded` (section 6).

Left out: remote machines, trust seeding, reading and answering the agent's
screen.

### Subagents

`runs` are the rows, `pi` the durable conversation that works for each, `lane` the
operation that holds a row's lane with the await it stands at, `watch` and
`ready` the monitors and what they have seen, `pending` and `inflight` the recovery
list and what the drain has taken, `boot` the rows a start has yet to recover.
The approval gate runs inside Pi and outside the lane; so does the record of a
stop.  The actions are the drain, the steps of an admission, start, send,
decide, stop, the steps of a settlement, recovery and its exhaustion, Pi's
own steps, and the process.

`SubagentInv` is the type invariant with `Slots`, `OneInTheBox` (one worker holds
a conversation's box), `StopWins` (a recorded stop is not overtaken by a
settlement, an admission or a recovery), `QuietWhenOver` (no tool runs for a run
that is over), `AnswersTheLast` (an outcome is of the last input), `Told` and
`Owned` (a live run has something that will settle it); `EndsOnce` has its
`OverIsFinal`.  They except two kinds of rows, each by a history variable (section 6):
`crossed`, whose approval was admitted over an input, and `revived`, which were admitted
after they had failed.

Left out: the desktop's lease beyond a refused claim, file transfer, close(), a
Pi conversation that vanished, environment values.  Ten failures of a recovery
are one fault.

### MCBackgroundWork

Memory, delegations and subagents keep their own tables, and none calls
another, so every interleaving of the three is one of each.  `part`, chosen in
`Init`, says which of them a behaviour is of; the specification, its fairness and
its properties are those of the modules, of which `Retention` is extended and the
others are instantiated.

### ManagedSends, Observation, Followups, MCOutbound

A handed-over responsibility has a status and a revision, bindings to agents in
Herdr's panes, prompts sent through them, an observer that watches them and a
program that reviews it.  Each of the three modules takes one of the last three
with what it reads, and changes the rest in every way the others may (`Sight`,
`PauseOrResume`, `Correct`, `Detach`); none of the three reads what another
writes beyond that, so `MCOutbound` chooses a `part` in its initial state, as
`MCBackgroundWork` does, beside the mail outbox.

`ManagedSends`: one pane that hosts one of two harness sessions.  `Send` is
`prepareOperation` with the claim, which run without an await; `Spawn` is
`validateForSend` at the wire and the occupant check of Herdr's preflight;
`crossing` holds prompts that left and have not arrived, `landed` where they did.
`looking` is a bind that awaits its listing, from the tool or the app.  A session
stands for the whole dispatch identity, of which a pane's successive agents differ
in the harness session.  `ManagedSendInv` is the type invariant with `OneInDoubt`
(at most one unresolved send per agent, whatever its bindings) and
`VerdictsAreTrue` (refused never arrives, acknowledged arrived at the agent);
`LatestWordWins` (no prompt leaves for what was paused, corrected or rebound since
it was prepared, no reattach undoes a detach it never saw).

`Observation`: one binding.  `Reconcile` is `reconcileCurrent` in its order,
`Tell` the commit with a development, whose key is the generation, the epoch of the
cursor, the kind and a number; `Current` is the re-read in the transaction.
`ObservationInv`: `FreshKeys` (no development is taken for the replay of another,
unless a reset of Herdr's server went by unseen), `NoneSwallowed` (what the cursor
covers was told, or seen at the bind), `ReplacedForCause`.

`Followups`: `call` is the rest of an `ensureFollowup` or of a review that was
recorded; a refused write or a crash may come between any two of its commits.
`held` says that the latest report gave the move to the operator.  `FollowupInv`:
`OneProgram`, `ReviewedOnce`, `FreshBound` (an answer does not set off a silence
that went overdue while the operator had the move) and `Armed`.

Left out: the texts and the evidence check of a done report, worker runs and their
reports, the feed, authority stamps, identities that Herdr does not report, several
responsibilities, and the `prepared` row a crash inside one synchronous call could
leave, which nothing dispatches.

## 3. Runs and bounds

| run | instance | what it shows |
|---|---|---|
| `journal_chain` | 3 runs, 2 call ids, 1 signature | the safety of recovery along chains; the inductive invariant of the proofs |
| `conversation` | journal: 2 runs, a replay-safe signature beside an effectful one; lane: 2 inputs (a resume seed, a stored wake trigger offered late), 1 job, 1 fallback, 1 note | skips, declared calls, final records, released claims; every sink and every /compact is told, a shutdown drains |
| `intake` | 3 updates, 2 conversations, 1 mishap | recorded inputs enter one history, once, in order, where navigation left them, and none waits for ever |
| `lane_mixed` | 3 inputs (one streaming, one that may not convert), 1 job, epochs to 3; with a trigger offered late or a note (`Focus`): any 2 of 4 inputs, no job, epochs to 2 | custody, order, fences, settled once, which replies alone a fold hides |
| `lane_lost` | the smallest instance | violated: see section 6 |
| `wake_crash` | 2 interchangeable developments, recorded apart or together, 3 runs, 1 stop, 1 fallback, 1 crash between any two commits, no compaction | one turn per trigger, its terminal row decides |
| `wake_faults` | 1 development, 2 runs, a stop or settings change, 1 fallback, folds, 1 step with refused writes, 1 crash | no second processing, no revoked trigger runs, every development gets a disposition |
| `wake_resume`, `wake_cut` | the smallest instances | violated: see section 6 |
| `outbound` | a new mail and a reply, without bound; 2 bindings, 2 prompts, 2 sessions, 3 moves; a cursor to sequence 4, 2 troubles, 2 generations; 3 program rows, 4 plans; see `Focus` | one copy, true stamps, final decisions, every draft decided; one unresolved prompt per agent, the latest word wins; fresh keys, nothing swallowed; one follow-up, one review per plan |
| `program_firing` | one row of each of three kinds or one to create, 2 commands, 2 proposals, clock to 5, 2 mails, 1 retry, 1 refused write or crash | fires and mail once, grants as shown, withdrawals win |
| `background_work` | 2 exchanges with 2 operations each, 1 loss; 2 prompts, 1 fault; 2 subagent runs on 1 slot with 2 inputs each, 3 faults; see `Focus` | memory keeps its promise; delegations and subagent runs end once, truthfully and owned |

Why these are enough.  Journal: three runs are the shortest chain in which
evidence comes to an attempt both from its predecessor and from that one's
source; two calls let one be undecided while the other is settled.  Lane: three
inputs let one lead, one join and one be refused by the claim; two epochs above
the first let a stop and a settings change hit the same turn; a late trigger or a note
beside one other input is enough to be folded before its turn, and `Focus` keeps the
two out of the larger part.  Intake: three
updates are a batch in flight, a message behind it and a command or an edit that
passes both; past the second conversation a chat is rolled by navigation and by
first messages only; a mishap is a failed write or check, a crash, or a change of
the sender's list (two mishaps, and four updates with one, were checked for
safety).  Wakes: two
developments may share a wake or not; three runs are an interrupted run, its
continuation, and a third that a wrong pump would start; outside the
conditions of `HandsOverOnce`, `RunDecides` fails in the ways of section 6.
Drafts do not interact, so a mail with and one without a thread lookup are every
case.

`program_firing`: the scan takes rows one by one, so one row with every trigger
meets every command; two commands are an edit and the decision it makes stale,
or a disable and a re-enable; crons of 2 and 3 up to 5 give several occurrences,
a missed one, and a change of schedule between; one retry is a rung and its
exhaustion.  No definition reads both the clock and the mailbox, so `Focus` lets
a behaviour move one of them.

`background_work`: documents meet only in the worker's single request and the
commands on a whole topic, so `Focus` takes one document with every operation,
loss and recall, or two with one operation each and neither loss nor recall.  A
delegation takes a failed close or another fault, not both.  Two subagent runs
compete for the slot and the box with one input each and at most one fault, or
with more inputs and none; one run alone takes two inputs and two faults, or one
input and three, which is a crash in a recovery of a crash, and a refused notice.
With one slot no revived row meets another worker (section 5); the theorem is for any slots.
`outbound`: a second binding, a second prompt and a second session are what it
takes to go round a fence; three moves are a detach, a bind and a replacement.
`Focus` lets two binds wait beside no operation or one bind beside one, takes
corrections and failing health with a single binding, lets a pass miss at most two
changes while it waits, and one trouble beside a second generation.  The numbers
of an agent may start over below, at or above the cursor.  Three rows are a link
that dangles, an orphan and a fresh row; the plan's token only grows, four give a
plan of each kind its successor.

In `program_firing` and `background_work` the bounds end behaviours, and a quiet
system may rest for good: deadlock is not checked there, nor in the journal's run and
the one it shares with the lane.

## 4. Fairness

`TurnJournal`: the drain loop begins an admitted attempt and ends a running one;
nothing else is fair, crashes are always possible.  `Lane`: provider streams,
summaries and conversions are bounded by timeouts in the code, so an enabled
step of a turn is eventually taken; each pending conversion returns; the drain
loop never parks.  `MCConversation` assumes both in the behaviours that are of each.  `Inbox`: downloads, the follow-up check and sends have timeouts,
timers fire, promises settle, and a drain goes on; the user, the turns and the
operator owe nothing, and `EveryInputDecided` speaks of a user who sends no more
than `MaxUpdates`.  `WakeDelivery`: the ticker is an interval timer, a backoff
is a time, a turn's awaits return, and a process that was shut down is started
again.  `MailOutbox`: every await of a flight has a timeout, the sweep is an
interval timer, time passes; Gmail need not ever accept; the other parts of
`outbound` are checked for safety and assume nothing.  `Delegation`: herdr's
commands have timeouts, so launch, send and stop return; the watcher is an
interval timer; a working agent ends its work; the stall timeout passes.  The
operator and the channels owe nothing.  `Retention`, `Subagents` and
`ProgramFiring` are checked for safety only and assume no fairness.

## 5. Proofs

`TurnJournalProofs` proves, for every set of runs, calls and signatures, the
type invariant, the inductive invariant and six safety properties of
`TurnJournal`, whatever ids a provider brings back within a run.  What an id that comes
back costs is in the properties: they speak of booked executions (section 6).

The properties are not inductive.  `IInv` adds why they hold: every booked execution
of an ancestor has a settled row in the run (`EvidenceCarried`), with its spent
grants and skips (`SpentCarried`, `SkipCarried`); the in-memory guard says what
the inherited rows say (`GuardCurrent`); a dispatched row of a healthy attempt
is a tool still running (`AmbiguousInFlight`), so a run that hands over has no
ambiguous call (`PredecessorSettled`).  `BeginRunStep` is the heart: the
transaction that inherits carries the evidence one step down the chain.
TLC checks `IInv` itself in `journal_chain`.

`OutboundProofs` proves `SentOnce`, `StampIsTrue` and `DecidedOnce` of the mail outbox
for every set of drafts.  The invariant `OneDraft` says why: a row that can be claimed or
can expire has never left, and a flight that awaits Gmail holds its claim, so
nobody else can release it.

`LaneProofs` proves `HeldAndRead`, `StopIsFinal` and `SettledOnce` of a lane for any
inputs, jobs, notes and bounds (`LaneAssumption` only types the constants), `FenceHolds`
for a lane without fallbacks, and `FoldSparesUnanswered`: no fold covers an unanswered
input that was not offered late.  The restrictions
are the code's: the fallback walk takes along what is queued without asking whose
authority it was admitted under (section 6), and a trigger offered again after a backoff
may lie below a boundary.  `LaneInv` adds to the properties: an input's place in the log
(`StoredOnce`), the epochs of what waits never pass the lane's (`Epochs`), so that what a
stop found is stale for ever (`StoppedStale`); the queue is in the order of the log
(`InLine`); what a fold may cover while its summary is awaited (`Spared`, `Summarised`);
and what an attempt's cursor has read (`ReadAhead`), from which `CompletedWasRead` follows
when it lands.

`WakeDeliveryProofs` proves `ProcessedOnce`, `Accounted` and `StopRevokes` for any number
of developments, runs, crashes between and within hooks, stops, fallbacks and refused
writes, in every configuration.  `WakeInv` has one condition per run (`RunsOK`: its line is
itself and the line of the run it continues, which ended first and is continued once), one
per wake (`WakesOK`: what its run, its fence and its trigger say of who took it), one for
the attempt, and `TakenOnce`: every run that took a trigger lies on the line of the run its
row names, unless the wake is fenced, or lost.  Two runs on one line are ordered by it,
which is `ProcessedOnce`.  `BegunRows` says once what the commit of a run's row does to the
rows, for the begin and for the crash that cuts it (`CutRows`); the wakes that were not
retargeted or linked by then are exactly the ones it loses.

The same module proves `RunDecides` (`WakeRunDecides`) under `HandsOverOnce`: writes
succeed, no settings change, and a turn hands its messages over at most once, to one
fallback model or past one fold in a conversation where nothing is resumed.  Any number of
developments, runs, epochs, stops, crashes and resumes remains; section 6 has what happens
outside.  `DecideInv` follows a wake that is not lost along the chain of its runs.  Of what
continues the runs that took its trigger, only the run the wake is linked to has not ended,
and if an attempt goes on from that run (`Carried`: the run it is at, the one it resumes, or
the one that handed over to it) the wake is among what it carries (`OwnedOK`).  A pump reads
the row at the end of that chain (`AtEnd`, `EndsDecide`): it finds the run withheld with the
wake admitted, and leaves it, or nothing will go on, and books it failed (`PumpDecides`,
`FailedOK`).  What waits or is on its way into a turn with authority is claimed and linked to
no other run (`PlacesDecide`), which is why a trigger in the lane is never that of a failed
wake.

`BackgroundProofs` proves `RetentionInv`, and that `Retention` implements
`RetentionPromise` (`KeepsThePromise`: the initial states map, and each of the
steps maps to one of the promise's or to a stutter), under `RetentionAssumption`.  The
invariant `MemoryInv` adds what joins a row to the services beside it: nothing of a document
that was not said (`UnsaidIsBlank`) or has been drained (`DrainedIsQuiet`) is anywhere, a
row marked deleting or cancelled has its operation (`DeletingIsMarked`,
`CancelIsWithdrawn`), a clean document has nothing under way elsewhere (`CleanIsQuiet`),
and each operation of the bank has an owner or is accounted dropped.

`SubagentProofs` proves `SubagentInv` and `OverIsFinal` for any number of rows, slots,
inputs and faults, under `SubagentsAssumption` (the bounds are numbers, `None` is none of
what it stands beside).  `IInv` says of each row how its five carriers fit together:
- Pi (`PiAt`): it holds inputs after the one it is bound to, and an outcome is of that one
  and ends its work; so an outcome of the last input leaves nothing to run.
- the row (`RowAt`): what was submitted was placed, what was placed was persisted; a parked
  row has its call at the gate, or its stop; a row that is over has neither a park nor work.
- the monitors (`WatchAt`): they wait for inputs the row had, and an input one has seen
  settled stays so (`Settled`), since what would start Pi again is a newer input.
- the lane (`LaneAt`): what each operation may still assume when its await returns, whatever
  the gate, a stop or an exhausted recovery wrote meanwhile; a settlement kept as done is of
  its own input, and a steer that may take its input back has not placed it.
- the owner (`OwnedAt`): a running row has its lane, the recovery list or a monitor, and the
  input a refused steer goes back to has one too.
Of all rows together, `Leases` says who holds a conversation's box: the row that is along or
taken by the drain, and every older row is over.  Each action is shown to be sound for its
row and to leave the others (`Unmoved`); all but the drain take no slot and no lease
(`Modest`), so that one lemma carries the rest (`ModestKeeps`).  The proof showed that
`OneInTheBox` needs the exception of revived rows: with two slots, an exhausted recovery
fails a row the drain has taken, its lease goes to the next worker, and the admission that
was waiting brings the first one back.

`BackgroundProofs` also proves `DelegationInv` and `StopIsFinal` for any number of prompts,
faults and sequence numbers, under `DelegationAssumption` (`None` is none of what it
stands beside).  `IInv` adds what each call may assume when its await returns: the launch
owns the row it started (`LaunchOwns`), an owed task is alone (`OwedIsAlone`), a
follow-up or a scan holds a snapshot not younger than the row (`SendSound`, `ScanSound`),
a row that is over has nothing under way that could write it (`OverIsQuiet`), and the
agent's numbers never pass the prompts it took (`SeqCovers`).

`BackgroundProofs`, `SubagentProofs` and `OutboundProofs` extend `MCBackgroundWork` and
`MCOutbound`, which instantiate their components, and state what the runs check twice: of
the component's own specification and of the composed one that TLC checks.  The parts share no variable, so each takes its own steps there or
none (`MemorySteps`, `OwnSteps`, `Apart`).

`InboxProofs` proves `IntakeInv` and `JoinsTheCurrent` for any number of updates,
conversations and mishaps; `InboxAssumption` says only that the bounds are numbers.  None
of the five parts of `IntakeInv` is inductive.  What carries them, in `IInv`:
- `Queue`: the items of the flush, the bucket and the chain's downloads are one queue, in
  this order, without an update twice and sorted but for what the gate once refused.  So a
  failed flush may put its batch in front of what arrived meanwhile (`Retaining`), and a
  timer that fires takes the bucket as it is (`Starting`).
- `Backed` and `Batched`: what the queue holds has a row, with the text the item has; the
  batch is what of the items still waits, whatever was archived under the await.
- `Histories`: `Passed` (a navigation assigns all that waits in front of what it assigns),
  `Landed`, `Cut`, `Sorted`, and `Behind`: what waits with a smaller number than an entry of a
  history has a target, and another one than that history.  This is why a commit may append
  to a history at any time and `InOrder` lasts (`CommitHistories`); archiving a history at a
  time needs it, since a failure between two of them leaves the rest waiting.
- `Kept`, `Recorded`, `Phased`, `AppOnly`: while the process is up the queue holds all that
  waits; a text handled and not refused has a row; what is empty in each phase of the drain.
`Only`, the selection both of a batch and of a replay, is a recursive function; that it takes
exactly what fits, in order, is proved from the steps of the selection (`PicksEmbed`), by the
least number at which it would fail.  Every flush and every continuation after an await ends
in one `Outcome`, so that the queue is argued about once.  `TurnsJoinTheCurrent` follows each
database through the same steps: an archive starts no turn (`Silent`), an admission starts its
turns in the current conversation (`Joins`), nothing else appends.

`OutboundProofs` proves further, of the responsibilities:
- Sends, for any bindings, prompts and sessions: `ManagedSendInv` and `LatestWordWins`.
  `SendsInv` adds that a prompt on the wire is still "sent" and one before its preflight
  never landed (`WireSound`), and that a reattach read its row after the last
  detachment the row shows (`AskedSound`).
- Follow-ups, for any number of rows and plans: `FollowupInv`.  `ReviewInv` adds what
  each pending commit of a call will leave armed (`Arming`), which is why a
  responsibility at rest is armed.
- Observation: `ObservationInv`.  `WatchInv` says what a key on record tells of
  generation, epoch and cursor (`KeysSound`), and that the cursor, a listing in flight
  and the agent come in this order (`ListingsSound`).
They assume that there is a session and that `None` is apart from what it stands beside.

`ProgramFiringProofs` proves all that `program_firing` checks, `StoreSound`, `FiresOnce`,
`AuthorityIsGranted` and `WithdrawalWins`, for any rows, drafts, patches, schedules and
bounds.  `IInv` adds to the types two arguments.
- Of the clock (`ClockInv`): the next run of a row is an occurrence of its schedule, past
  the time the schedule began, and the one before it was fired or passed over
  (`CursorAt`); a fence whose occurrence is still the row's tells when that one was fired
  (`FenceAt`), so the write that is retried lands where the refused one would have; an
  attempt or a rung is of an occurrence behind the cursor or the fence (`AttemptsSound`),
  so the scan never hands out one that is under way.
- Of the mail (`MailInv`): a cursor lies between the baseline of its revision and the end
  of the mailbox (`MarkAt`); a snapshot and its row agree on filter and cursor as long as
  they agree on the revision, and a row revised since has no cursor (`SnapSound`), so a
  result that comes back late is either of the present filter or refused; what landed is
  past the baseline of its revision and, unless a write was refused or the process ended
  since, behind the row's cursor (`LandedAt`).
`AuthorityIsGranted` and `WithdrawalWins` are action properties: each kind of step is
classified by what it may do to the rows (`RowsMove`, `CursorMoves`, `CheckpointMoves`),
and only the first of these changes settings.  `ProgramsAssumption` says that a cron has a
period, that drafts and patches are well formed and that a draft has a trigger;
`SchedulerAssumption` and `MailWatcherAssumption` that `None` is apart from what it stands
beside.

What the theorems assume of the constants are named definitions or assumptions of the
components; TLC evaluates those of the instances in every run (`MCBackgroundWork`,
`MCOutbound` and `MCIntake` assume them).

Only model-checked: `LostOnlyOverWaiting`; `RecordsAreFinal` of the journal; and the liveness properties (`ClaimReleased`,
`EveryWakeDecided`, `EverySettles` and their like), which are beyond the prover.  No
module here has a recursive operator.

## 6. Where the code and its words part

Three runs end in a violation, on purpose:

1. `lane_lost`: `chooseBoundary` (compaction.ts:86) filters the history by seq
   before it asks whether an exchange is complete.  A reply that landed after a
   still-queued message has a seq above the ceiling and does not hold back a cut
   at the message it answers; the cut hides it from the model view and no summary
   contains it.  `LostOnlyOverWaiting` says that a reply is lost in this way only, or
   as in 4.
2. `wake_resume`: `runStatus` (wake-dispatcher.ts:95) holds a withheld attempt
   only while a wake of it is admitted by its trigger's seq.  A resumed run
   carries its wakes by retarget and its admitted member is the resume event; when
   it overflows, its end hook fails the wake, and the continuation completes.
3. `wake_cut`: `runAttempt` commits the run's row (runtime.ts:1332) and the begin hook
   links the wakes by commits of their own (runtime.ts:1364, wake-store.ts:545).  A process
   that dies in between leaves an interrupted run, which the operator may resume, and a
   wake that reads as never admitted: the boot's pump submits its trigger again, and both
   turns complete on it.  The head comment of wake-dispatcher.ts says that a trigger that
   already ran is not submitted again.

Four more claims of the repository do not hold.  Each is a definition next to the property
that keeps what does hold, with a configuration that shows it:

4. `NextTurnSeesIt` (`tlc -config MCLaneLate.cfg MCLane`).  A stored trigger may be folded
   before it is offered again, the boundary on it.  Its turn fails, and the note of what it
   completed is anchored to it (runtime.ts:1254), which is at the boundary: no later view
   has the note, and no summary does, where the comment at runtime.ts:1232 says "so the next turn
   does not lose the work".
5. `EveryExecutionJournaled` (`MCTurnJournalReuse.cfg`, `MCTurnJournal`).  `qDispatch`
   (turn-journal.ts:563) moves only a planned row, or a dispatched one without a name.  When
   a provider numbers its calls per response, as turn-journal.ts:637 says some do, the second
   execution of an id finds the first call's terminal row and writes nothing: a crash in it
   leaves no ambiguous call, and a successor may run it again.  The namespace `o:c` cures this
   between runs, not within one.  design/runtime-turn.md:76 says "The run row lands before
   any tool side effect can execute; a dispatched call without a result is the ambiguous
   state".
6. `ExcludedSendsNothing` (`MCBackgroundOff.cfg`, `MCBackgroundWork`).  `/memory off` leaves
   blocked rows alone and `retryBlocked` (memory/queue.ts:350) re-arms them without a look at
   the topic, so `/memory retry` sends an exchange of an excluded topic.
   design/memory.md:32 says "Excluded topics send nothing and recall nothing".
7. `DoneOnlyWhenFinished` (`MCBackgroundGuess.cfg`, `MCBackgroundWork`).  `doneSeq` is
   `completion_seq ?? state_change_seq` (delegation-lifecycle.ts:1292), not only for servers
   that omit the field but for every agent that has completed nothing yet.  One that began
   its first task and was interrupted rests with a moved seq, and the delegation is told
   done.  herdr.ts:101 says of the field "startup and session changes do not set it".

`RunDecides` fails in two more ways that no comment foresees; to see them, change the constants of
`MCWakeResume.cfg`:

- `Settings = TRUE`, no crash: `applySettings` (conversation.ts:848) advances the
  epoch and leaves the queue alone.  The next pump fails the queued wake for lost
  authority; its trigger is still in the lane, and the next turn runs it.  The wake
  is recorded failed, the work was done.
- `Fallbacks = 2`, `MaxRuns = 3`, `Compaction = FALSE`, no crash: a fallback
  attempt that dies before its run row passes no predecessor on (runtime.ts:1813).
  The third attempt neither retargets nor links the wake of the first, and the wake
  is failed after the turn completed.

With a refused write it fails as the code intends: a wake whose link to its run could not
be written is booked failed while the run goes on (`failUnlinked`, wake-dispatcher.ts:13
says why), hence `MaxFaults = 0` in `wake_crash` and in `HandsOverOnce`.

The models take the following as the code has it; the properties say so where
they would be about it.

- Lane: the fallback walk (runtime.ts:1782) does not compare the epoch; an attempt
  that lost its authority while it was set up claims newer messages and takes
  them down when it is fenced.
- Intake: an update the gate refused is acknowledged; if the process dies before the
  offset is confirmed and the sender is back on its list, it is delivered again and
  lands behind later ones; `InOrder` excepts it.  An input assigned to a history that
  a demotion then deletes makes every flush of its batch throw, and the batch holds
  up its lane (mod.ts:840); a redelivered `/new` whose conversation is gone throws,
  and the process exits (navigation.ts, "selected history is missing").  Demotion is
  outside the model.  docs/operations.md says of the attach that it is not retried;
  index.ts retries it.
- Wakes: the fence of a wake whose link and closure were both refused is in memory
  (wake-dispatcher.ts:153); `ProcessedOnce` excepts it once the process has ended.  A wake of
  the attempt before, not yet retargeted when the process dies in the begin hook, is booked
  failed by the boot though its run may be resumed; `RunDecides` excepts it as `lost`.
- Mail: `requestDraft` ignores whether its cancellation took effect
  (mail-approval.ts:174) and tells the tool to retry although the operator may
  have sent the draft from the app meanwhile; the retry is a new draft.
- Programs: a mail fire submits the charter it read before the injection gate
  (scheduler.ts:409), and the key of a fire has the resolution of a millisecond
  (scheduler.ts:599).
- Retention: a /forget is undone by an operation the queue no longer follows or by
  a late POST, and by a recall in flight that saves its block afterwards
  (memory/mod.ts:264); `clean` says which documents had none of these.  A crash
  loses a deferred cancellation (queue.ts:281).
- Delegation: a completion folded into the baseline read after it, with the agent
  shown done and no fresh report, is settled by nothing (`Folded`).  A stop during
  a launch between bind and start finds no agent and marks the row stopped, and so
  does one whose close fails; a crash between the failed status and the close
  leaves the agent running (delegation-lifecycle.ts:538); all are in `leaked`.  A
  crash between the delivery of an owed task and `markRunning` delivers it again
  (delegation-lifecycle.ts:1150).
- Sends: `attach` refuses a second live binding of an agent
  (responsibilities.ts:1048), `reattach` does not look at siblings, so a binding can
  be moved onto an agent that another holds; the sends of both are fenced by the
  agent all the same.  An agent that leaves the pane and comes back while its own
  prompt is awaited would acknowledge it; the model excludes that return.
- Observation: a reset whose sequence has passed the cursor's before the next poll,
  or one of a server that reports no sequence, shows no regression
  (responsibility-observer.ts:229).  A completion number of the new life may then
  meet a key of the old one: with the same status it is dropped as a replay, with
  another `record` throws, the transaction is rolled back, and every later pass
  meets it again (`blind`, `clash`).  A poll that sees a reset takes a blocked agent
  into the cursor with a development that says nothing of it; `NoneSwallowed` counts
  it as told.
- Follow-ups: a crash between the status of a resume and the enabling of its program
  leaves the program off, and the boot sweep (index.ts:664) does not enable; `Armed`
  excepts it as `cut`.  A send that becomes uncertain takes the move from the
  operator without a fresh bound; sends are not in this module.
- Subagents: an approval is admitted without regard to an input that is persisted
  and not yet submitted (admission.ts:147; compare mod.ts:494), so the run's last
  input has nothing to settle it; `monitored` asks for any monitor of the row and
  not for one of this input (admission.ts:157); these rows are in `crossed`.  Recovery
  may run out while an admission awaits, and `throwIfHalted` asks for a stop only, so
  that the admission revives a failed run (admission.ts:115, recovery.ts:249), beside
  the worker that has its lease by then if there are two slots; these are in `revived`.

## 7. Not modelled, and the plan

`PROJECT.json` lists every component with its status and reason.  A part is
called partly modelled when some operation of it that changes state has no
action: migrations, rendering and the bindings of messages to rows are such
operations almost everywhere.

What the checking time of one instance allows decides what is composed: the lane
with the journal, or the wakes with the lane, multiply beyond it.  The interface
is then modelled on both sides (`WakeDelivery` has the part of the lane that calls
it, `Lane` offers late triggers and resume seeds as its inputs).

Next, in this order: a proof of `LostOnlyOverWaiting`; the
reset of a demoted chat; the worker runs of responsibilities; the exact
loop of `chooseBoundary` against `Cuts`; cache pruning as a pure operator.

Not planned: the desktops and sandboxes, whose truth is podman's; staging and
install of skills, which are moves on disk; notes and projects, whose rows are
written by one statement with a revision check; surfaces, providers, wire formats,
configuration and the app's views, which keep no protocol state.
