--------------------------------- MODULE Inbox ---------------------------------
(***************************************************************************)
(* One lane of Telegram's intake (tg/mod.ts, inbox.ts, buffer.ts,          *)
(* navigation.ts, rolling.ts): an update is recorded before it is          *)
(* acknowledged, a chain downloads what it carries, a buffer coalesces     *)
(* what arrives together, a flush decides the conversation and commits the *)
(* batch with its history in one transaction.  /new and /back act at once, *)
(* in front of all that waits.                                             *)
(*                                                                         *)
(* The lane is a private chat, whose conversations roll, or an app         *)
(* conversation answered through a ping.  An update is named by its place  *)
(* in the chat, a text by the update that wrote it, a conversation by the  *)
(* order of its creation.  The class of the sender (operator or guest) is  *)
(* fixed; it may leave its list and come back.                             *)
(***************************************************************************)
EXTENDS Integers, Sequences, FiniteSets

CONSTANTS
    MaxUpdates,  \* bound: what the user sends
    MaxConvs,    \* bound: past it, no roll that could as well be a join
    MaxMishaps   \* bound: failing writes and checks, crashes, changes of the sender's list

VARIABLES
    lane,       \* "dm" or "app"
    sent,       \* what the user sent: each update's kind, and the message an edit changes
    confirmed,  \* the updates Telegram will not deliver again
    handled,    \* the updates this process has handled
    listed,     \* the sender is on its list
    db,         \* the database
    bot,        \* the channel: up, or how far its shutdown has come
    chain,      \* the lane's intake steps: a message's download, an edit
    bucket,     \* the coalescing buffer's items
    timers,     \* the bucket's two timers, armed or not
    deferred,   \* a timer fired during a flush
    flight,     \* the flush in progress
    live,       \* conversations with an unfinished turn
    spoiled,    \* the last drain saw a flush fail
    refused,    \* history: updates the access gate has turned away
    mishaps

memory == <<chain, bucket, timers, deferred, flight, live, spoiled>>
inbox == <<lane, sent, confirmed, handled, listed, db, bot, memory, refused, mishaps>>

-----------------------------------------------------------------------------
InboxAssumption == MaxUpdates \in Nat /\ MaxConvs \in Nat /\ MaxMishaps \in Nat

Updates == 1 .. MaxUpdates
Kinds == {"text", "edit", "new", "back", "command"}

\* tg_inbox, with tg_inbox_archives' target (0 for none).
Row == [state : {"none", "pending", "committed"}, text : Nat, target : Nat]
Unseen == [state |-> "none", text |-> 0, target |-> 0]

\* The turn inputs of the conversations' histories, in the order they were appended.
Entry == [u : Updates, text : Updates, conv : Nat, turn : BOOLEAN]
Item == [u : Updates, text : Updates]

Off == [quiet |-> FALSE, max |-> FALSE]
On == [quiet |-> TRUE, max |-> TRUE]
NoFlight == [at |-> "none", items |-> <<>>, batch |-> <<>>, asked |-> 0]

Phases == {"down", "polling", "stopping", "first", "chains", "second", "off", "stuck"}
Mishap == mishaps < MaxMishaps /\ mishaps' = mishaps + 1
Closed == bot \notin {"down", "polling"}

Db == [rows : [Updates -> Row], receipts : SUBSET Updates, gone : BOOLEAN, log : Seq(Entry),
       pin : Nat, prev : Seq(Nat)]
Flights == [at : {"none", "checking", "marking", "over"}, items : Seq(Item), batch : Seq(Item),
            asked : Nat]

TypeOK ==
    /\ lane \in {"dm", "app"}
    /\ sent \in Seq([kind : Kinds, of : 0 .. MaxUpdates]) /\ Len(sent) <= MaxUpdates
    /\ confirmed \in 0 .. handled /\ handled \in 0 .. Len(sent)
    /\ listed \in BOOLEAN
    /\ db \in Db /\ db.pin <= Len(db.prev)
    /\ \A c \in DOMAIN db.prev : db.prev[c] < c
    /\ \A u \in Updates :
        /\ db.rows[u].target <= Len(db.prev)
        /\ db.rows[u].state # "none" => db.rows[u].text \in Updates
    /\ bot \in Phases /\ timers \in [quiet : BOOLEAN, max : BOOLEAN]
    /\ chain \in Seq([u : Updates, edit : 0 .. MaxUpdates])
    /\ bucket \in Seq(Item) /\ flight \in Flights
    /\ (bucket = <<>> => timers = Off /\ ~deferred)
    /\ deferred \in BOOLEAN /\ spoiled \in BOOLEAN
    /\ live \subseteq 1 .. Len(db.prev) /\ refused \subseteq Updates
    /\ mishaps \in 0 .. MaxMishaps

Init ==
    /\ lane \in {"dm", "app"} /\ sent = <<>> /\ confirmed = 0 /\ handled = 0 /\ listed = TRUE
    /\ db = [rows |-> [u \in Updates |-> Unseen], receipts |-> {}, gone |-> FALSE, log |-> <<>>,
             pin |-> IF lane = "app" THEN 1 ELSE 0, prev |-> IF lane = "app" THEN <<0>> ELSE <<>>]
    /\ bot = "polling" /\ chain = <<>> /\ bucket = <<>> /\ timers = Off /\ deferred = FALSE
    /\ flight = NoFlight /\ live = {} /\ spoiled = FALSE /\ refused = {}
    /\ mishaps = 0

-----------------------------------------------------------------------------
(* The tables.                                                             *)

Pending(d, u) == d.rows[u].state = "pending"
Waiting(d) == {u \in Updates : Pending(d, u)}
Ids(items) == {items[k].u : k \in DOMAIN items}

\* Those of the items whose update is in us, in their order.
Only(items, us) ==
    LET pick[k \in 0 .. Len(items)] ==
            IF k = 0 THEN <<>>
            ELSE IF items[k].u \in us THEN Append(pick[k - 1], items[k]) ELSE pick[k - 1]
    IN  pick[Len(items)]

\* rollDm: a new current conversation, linked to the one before.
Mint(d) == [d EXCEPT !.prev = Append(@, d.pin), !.pin = Len(d.prev) + 1]

\* archivePendingBefore: the first navigation to pass an input decides where it goes.
Assigned(d, u, conv) ==
    [d EXCEPT !.rows = [v \in Updates |->
        IF v < u /\ Pending(d, v) /\ @[v].target = 0 THEN [@[v] EXCEPT !.target = conv] ELSE @[v]]]

\* commitBatch's acknowledgement.
Acknowledged(d, items) ==
    [d EXCEPT !.rows = [u \in Updates |->
        IF u \in Ids(items) THEN [@[u] EXCEPT !.state = "committed"] ELSE @[u]]]

\* commitBatch: the history and the acknowledgements, or neither.
Committed(d, items, conv, turn) ==
    [Acknowledged(d, items) EXCEPT !.log = @ \o [k \in DOMAIN items |->
        [u |-> items[k].u, text |-> items[k].text, conv |-> conv[items[k].u], turn |-> turn]]]

\* Mutant: the batch goes where it was routed before the await.
AdmittedWhereAsked(d, items) ==
    Committed(d, items, [u \in Updates |-> IF flight.asked = 0 THEN d.pin ELSE flight.asked], TRUE)

\* admitBatch's commit, into the current conversation.
Admitted(d, items) == Committed(d, items, [u \in Updates |-> d.pin], TRUE)

\* archiveNavigatedInput: what a navigation passed goes to the history it left, without a
\* turn, a history at a time; what an earlier flush of the batch committed is skipped.
ArchivedTo(d, items, convs) ==
    LET passed == Only(items, {u \in Waiting(d) : d.rows[u].target \in convs})
    IN  Committed(d, passed, [u \in Updates |-> d.rows[u].target], FALSE)

Archived(d, items) == ArchivedTo(d, items, 1 .. Len(d.prev))

\* What a failure may leave of it: the histories of its first items are done.
Begun(d, items) ==
    {ArchivedTo(d, items, {d.rows[u].target : u \in Ids(SubSeq(items, 1, k)) \cap Waiting(d)} \ {0})
        : k \in 0 .. Len(items)}

\* The rest is the conversation's.
Remaining(d, items) == Only(items, {u \in Waiting(d) : d.rows[u].target = 0})

-----------------------------------------------------------------------------
(* The flush.  bk: what the buffer holds beside the batch.                 *)

Over == IF lane = "dm" THEN [NoFlight EXCEPT !.at = "over"] ELSE NoFlight
Beside(bk) ==
    /\ bucket' = bk
    /\ timers' = IF bk = <<>> THEN Off ELSE timers
    /\ deferred' = (deferred /\ bk # <<>>)

\* A drain counts the failures since it began.
Unspoiled == spoiled' = (spoiled /\ bot = "second")

Ends(d, alive, bk) ==
    /\ db' = d /\ live' = alive /\ flight' = Over /\ Beside(bk) /\ Unspoiled
    /\ UNCHANGED mishaps

Waits(d, at, items, batch, bk) ==
    /\ db' = d /\ Beside(bk) /\ Unspoiled
    /\ flight' = [at |-> at, items |-> items, batch |-> batch, asked |-> d.pin]
    /\ UNCHANGED <<live, mishaps>>

\* Mutant: what arrived meanwhile is put in front.
RetainedBehind(items, bk) == bk \o items

\* retain: a failed batch goes back in front of what arrived meanwhile.
Retained(items, bk) == items \o bk

\* A write or a check fails; d is what was committed before.
Breaks(d, items, bk) ==
    /\ db' = d /\ flight' = Over
    /\ bucket' = Retained(items, bk) /\ timers' = On /\ deferred' = FALSE
    /\ spoiled' = (bot \in {"chains", "second"})
    /\ UNCHANGED live

\* admitBatch, or refuseDroppedBatch for a sender that has left its list: the batch joins
\* what is current now.  A closed runtime starts no turn.
Admits(d, batch, bk) ==
    IF ~listed THEN Ends(Acknowledged(d, batch), live, bk)
    ELSE Ends(Admitted(d, batch), IF Closed THEN live ELSE live \cup {d.pin}, bk)

\* flushRolling's loop, up to its next await: a first conversation is created, an idle one
\* past its quiet gap may be left to the follow-up check, any other is joined.
Routes(d, items, batch, bk) ==
    \/ (batch = <<>> \/ ~listed) /\ Ends(Acknowledged(d, batch), live, bk)
    \/ /\ batch # <<>> /\ listed
       /\ \/ d.pin = 0 /\ Waits(Mint(d), "marking", items, batch, bk)
          \/ d.pin # 0 /\ Admits(d, batch, bk)
          \/ d.pin \notin live \cup {0} /\ Waits(d, "checking", items, batch, bk)

\* flushConversation for an app conversation: a deleted one drops the batch.
FlushApp(items) ==
    \/ db.gone /\ Ends(Acknowledged(db, items), live, <<>>)
    \/ ~db.gone /\ Ends(Admitted(db, items), IF Closed THEN live ELSE live \cup {1}, <<>>)
    \/ Mishap /\ Breaks(db, items, <<>>)

Flush(items) ==
    IF lane = "app" THEN FlushApp(items)
    ELSE \/ \E d \in {Archived(db, items)}, rest \in {Remaining(db, items)} :
                Routes(d, items, rest, <<>>)
         \/ Mishap /\ \E done \in Begun(db, items) : Breaks(done, items, <<>>)

\* What archiveNavigatedInput leaves of a batch after an await.
Rechecked(d, items) == Remaining(d, items)

\* The follow-up check or the marker's delivery returns.  A fresh subject rolls only the
\* conversation that was asked about, and only while it is idle.
Resume ==
    /\ flight.at \in {"checking", "marking"}
    /\ \E d \in {Archived(db, flight.batch)}, rest \in {Rechecked(db, flight.batch)} :
       LET same == Len(rest) = Len(flight.batch)
       IN  \/ ~same /\ Routes(d, flight.items, rest, bucket)
           \/ same /\ Admits(d, rest, bucket)
           \/ /\ same /\ flight.at = "checking" /\ Len(db.prev) < MaxConvs
              /\ db.pin = flight.asked /\ db.pin \notin live
              /\ Waits(Mint(d), "marking", flight.items, rest, bucket)
           \/ Mishap /\ \E done \in Begun(db, flight.batch) : Breaks(done, flight.items, bucket)
    /\ UNCHANGED <<lane, sent, confirmed, handled, listed, bot, chain, refused>>

-----------------------------------------------------------------------------
(* The buffer.                                                             *)

\* fire: one flush at a time; a second one waits for the first.
Fire(left) ==
    IF flight.at = "none" THEN Flush(bucket)
    ELSE /\ deferred' = TRUE /\ timers' = left /\ Unspoiled
         /\ UNCHANGED <<db, live, bucket, flight, mishaps>>

Timer ==
    /\ \/ timers.quiet /\ Fire([timers EXCEPT !.quiet = FALSE])
       \/ timers.max /\ Fire(Off)
    /\ UNCHANGED <<lane, sent, confirmed, handled, listed, bot, chain, refused>>

\* Mutant: nobody looks whether a timer fired meanwhile.
FollowsNever == FALSE

Follows == deferred

\* The flush's promise settles, before anything else runs.
Settle ==
    /\ flight.at = "over"
    /\ IF Follows THEN Flush(bucket)
       ELSE flight' = NoFlight /\ UNCHANGED <<db, live, bucket, timers, deferred, spoiled, mishaps>>
    /\ UNCHANGED <<lane, sent, confirmed, handled, listed, bot, chain, refused>>

\* enqueuePersisted: the download is over, with or without the file.
Push(u) ==
    /\ bucket' = Append(bucket, [u |-> u, text |-> db.rows[u].text])
    /\ timers' = IF bucket = <<>> THEN On ELSE [timers EXCEPT !.quiet = TRUE]
    /\ UNCHANGED db

\* handleEditedMessage's step: the row and the item it finds in the buffer change
\* together; an edit that changed the medium, or comes too late, changes nothing.
Amend(u, e) ==
    \/ UNCHANGED <<bucket, db>> /\ UNCHANGED timers
    \/ /\ Pending(db, u) /\ u \in Ids(bucket)
       /\ bucket' = [k \in DOMAIN bucket |->
              IF bucket[k].u = u THEN [bucket[k] EXCEPT !.text = e] ELSE bucket[k]]
       /\ db' = [db EXCEPT !.rows[u].text = e]
       /\ UNCHANGED timers

IntakeStep ==
    /\ chain # <<>>
    /\ LET step == Head(chain)
       IN  IF step.edit = 0 THEN Push(step.u) ELSE Amend(step.u, step.edit)
    /\ chain' = Tail(chain)
    /\ UNCHANGED <<lane, sent, confirmed, handled, listed, bot, deferred, flight, live, spoiled,
                   refused, mishaps>>

-----------------------------------------------------------------------------
(* Updates.                                                                *)

\* handleMessage: recorded before it is acknowledged; a redelivery stands as it was.
TakeMessage(u) ==
    IF db.rows[u].state # "none" THEN UNCHANGED <<db, chain, live>>
    ELSE /\ db' = [db EXCEPT !.rows[u] = [state |-> "pending", text |-> u, target |-> 0]]
         /\ chain' = Append(chain, [u |-> u, edit |-> 0])
         /\ UNCHANGED live

TakeEdit(u, m) ==
    /\ chain' = IF Pending(db, m) THEN Append(chain, [u |-> m, edit |-> u]) ELSE chain
    /\ UNCHANGED <<db, live>>

\* navigateDm: the inputs in front are assigned to the history that is left, another one is
\* selected and the command's receipt written in one transaction; then the turn is cancelled.
Select(u, kind) ==
    LET early == \E v \in Waiting(db) : v < u
        d == IF kind = "new" /\ db.pin = 0 /\ early THEN Mint(db) ELSE db
        left == IF d.pin = 0 THEN d ELSE Assigned(d, u, d.pin)
    IN  CASE kind = "new" -> Mint(left)
          [] kind = "back" /\ d.pin # 0 /\ d.prev[d.pin] # 0 -> [left EXCEPT !.pin = d.prev[d.pin]]
          [] OTHER -> db

Navigate(u, kind) ==
    /\ IF u \in db.receipts THEN UNCHANGED <<db, live>>
       ELSE LET d == Select(u, kind)
            IN  /\ db' = [d EXCEPT !.receipts = @ \cup {u}]
                /\ live' = IF d = db THEN live ELSE live \ {db.pin}
    /\ UNCHANGED chain

\* routeDm: a first conversation is created, an idle one past its gap may be left.
Rolls ==
    \/ db.pin = 0 /\ db' = Mint(db)
    \/ db.pin # 0 /\ UNCHANGED db
    \/ db.pin \notin live \cup {0} /\ Len(db.prev) < MaxConvs /\ db' = Mint(db)

\* Another command: it may roll the chat, and /stop ends the current turn.
Command ==
    /\ Rolls
    /\ live' \in {live, live \ {db'.pin}}
    /\ UNCHANGED chain

\* The next update: one the user sends now, or one delivered again after a crash.
Handle ==
    /\ bot \in {"polling", "stopping"}
    /\ \E kind \in Kinds, m \in 0 .. handled :
        /\ lane = "app" => kind \in {"text", "edit"}
        /\ IF kind = "edit" THEN m # 0 /\ sent[m].kind = "text" ELSE m = 0
        /\ IF handled < Len(sent)
           THEN sent[handled + 1] = [kind |-> kind, of |-> m] /\ UNCHANGED sent
           ELSE handled < MaxUpdates /\ sent' = Append(sent, [kind |-> kind, of |-> m])
        /\ LET u == handled + 1
           IN  CASE ~listed -> UNCHANGED <<db, chain, live>>
                 [] listed /\ kind = "text" -> TakeMessage(u)
                 [] listed /\ kind = "edit" -> TakeEdit(u, m)
                 [] listed /\ kind \in {"new", "back"} -> Navigate(u, kind)
                 [] listed /\ kind = "command" -> Command
    /\ handled' = handled + 1
    /\ refused' = IF listed THEN refused ELSE refused \cup {handled + 1}
    /\ UNCHANGED <<lane, confirmed, listed, bot, bucket, timers, deferred, flight, spoiled, mishaps>>

-----------------------------------------------------------------------------
(* Around the lane.                                                        *)

\* A program's fire or a wake rolls the chat as a command does, and starts a turn.
Wake ==
    /\ lane = "dm" /\ bot = "polling"
    /\ Rolls
    /\ live' = live \cup {db'.pin}
    /\ UNCHANGED <<lane, sent, confirmed, handled, listed, bot, chain, bucket, timers, deferred,
                   flight, spoiled, refused, mishaps>>

TurnOver ==
    /\ \E c \in live : live' = live \ {c}
    /\ UNCHANGED <<lane, sent, confirmed, handled, listed, db, bot, chain, bucket, timers, deferred,
                   flight, spoiled, refused, mishaps>>

\* A saved configuration applies at once.
Reconfigure ==
    /\ Mishap
    /\ listed' = ~listed
    /\ UNCHANGED <<lane, sent, confirmed, handled, db, bot, memory, refused>>

DeleteApp ==
    /\ lane = "app" /\ ~db.gone
    /\ db' = [db EXCEPT !.gone = TRUE]
    /\ live' = {}
    /\ UNCHANGED <<lane, sent, confirmed, handled, listed, bot, chain, bucket, timers, deferred,
                   flight, spoiled, refused, mishaps>>

\* What survives the process.
Forgotten ==
    /\ chain' = <<>> /\ bucket' = <<>> /\ timers' = Off /\ deferred' = FALSE /\ flight' = NoFlight
    /\ live' = {} /\ spoiled' = FALSE

\* Telegram delivers again what the last getUpdates had not confirmed.
Crash ==
    /\ bot # "down" /\ Mishap
    /\ bot' = "down" /\ Forgotten
    /\ confirmed' \in confirmed .. handled /\ handled' = confirmed'
    /\ UNCHANGED <<lane, sent, listed, db, refused>>

\* replayInbox, before polling starts.
Boot ==
    /\ bot = "down" /\ bot' = "polling"
    /\ chain' = Only([u \in Updates |-> [u |-> u, edit |-> 0]], Waiting(db))
    /\ UNCHANGED <<lane, sent, confirmed, handled, listed, db, bucket, timers, deferred, flight, live,
                   spoiled, refused, mishaps>>

\* shutdown closes the runtime and stops polling; an update in progress is still handled.
Shutdown ==
    /\ bot = "polling" /\ bot' = "stopping" /\ live' = {}
    /\ UNCHANGED <<lane, sent, confirmed, handled, listed, db, chain, bucket, timers, deferred, flight,
                   spoiled, refused, mishaps>>

\* buffer.drain's first half: the timers are cleared and the bucket fires.
StartDrain ==
    IF bucket = <<>> THEN Unspoiled /\ UNCHANGED <<db, live, bucket, timers, deferred, flight, mishaps>>
    ELSE Fire(Off)

SecondLook == StartDrain

\* drainIntake: drain, whatever comes of it; the chains; drain again.
Drain ==
    /\ \/ bot = "stopping" /\ bot' = "first" /\ StartDrain
       \/ /\ bot = "first" /\ flight.at = "none" /\ bot' = "chains"
          /\ UNCHANGED <<db, live, bucket, timers, deferred, flight, mishaps, spoiled>>
       \/ bot = "chains" /\ chain = <<>> /\ bot' = "second" /\ SecondLook
       \/ /\ bot = "second" /\ flight.at = "none" /\ bot' = IF spoiled THEN "stuck" ELSE "off"
          /\ UNCHANGED <<db, live, bucket, timers, deferred, flight, mishaps, spoiled>>
    /\ UNCHANGED <<lane, sent, confirmed, handled, listed, chain, refused>>

\* The process ends; stopping has confirmed the offset.
Exit ==
    /\ bot \in {"off", "stuck"} /\ bot' = "down" /\ Forgotten
    /\ confirmed' = handled
    /\ UNCHANGED <<lane, sent, handled, listed, db, refused, mishaps>>

Next ==
    IF flight.at = "over" THEN Settle
    ELSE \/ Handle \/ IntakeStep \/ Timer \/ Resume \/ Wake \/ TurnOver \/ Reconfigure \/ DeleteApp
         \/ Shutdown \/ Drain \/ Exit \/ Crash \/ Boot

\* Downloads, checks and sends have timeouts, timers fire and promises settle.
Fairness ==
    /\ WF_inbox(Settle) /\ WF_inbox(flight.at # "over" /\ IntakeStep)
    /\ WF_inbox(flight.at # "over" /\ Timer) /\ WF_inbox(Resume)
    /\ WF_inbox(flight.at # "over" /\ Drain)

Spec == Init /\ [][Next]_inbox /\ Fairness

-----------------------------------------------------------------------------
(* Properties.                                                             *)

\* While the process is up, every pending row is in one place, once: a step of the chain,
\* the buffer or the flush.
Places ==
    ({"chain"} \X {k \in DOMAIN chain : chain[k].edit = 0})
        \cup ({"flight"} \X DOMAIN flight.items) \cup ({"bucket"} \X DOMAIN bucket)
HeldAt(p) ==
    CASE p[1] = "chain" -> chain[p[2]].u
      [] p[1] = "flight" -> flight.items[p[2]].u
      [] p[1] = "bucket" -> bucket[p[2]].u

HeldOnce ==
    /\ bot # "down" => \A u \in Waiting(db) : \E p \in Places : HeldAt(p) = u
    /\ \A p, q \in Places : HeldAt(p) = HeldAt(q) => p = q

\* An update enters one history, once, acknowledged with it, and with the text its row
\* has: an edit reaches the record and the batch together, or neither.
LandedOnce ==
    /\ \A j, k \in DOMAIN db.log : db.log[j].u = db.log[k].u => j = k
    /\ \A k \in DOMAIN db.log :
        db.rows[db.log[k].u].state = "committed" /\ db.log[k].text = db.rows[db.log[k].u].text
    /\ \A k \in DOMAIN bucket : Pending(db, bucket[k].u) => bucket[k].text = db.rows[bucket[k].u].text

\* A history has its inputs in the order they were sent, through retries, crashes and
\* navigation.
InOrder ==
    \A j, k \in DOMAIN db.log :
        j < k /\ db.log[j].conv = db.log[k].conv /\ {db.log[j].u, db.log[k].u} \cap refused = {}
            => db.log[j].u < db.log[k].u

\* An input a navigation passed is kept in the history that was left, and starts no turn.
NavigationCutsOff ==
    \A k \in DOMAIN db.log :
        LET target == db.rows[db.log[k].u].target
        IN  IF target = 0 THEN db.log[k].turn ELSE ~db.log[k].turn /\ db.log[k].conv = target

\* A shutdown whose drain succeeded leaves nothing behind, in memory or to replay.
CleanStop ==
    bot = "off" => Waiting(db) = {} /\ chain = <<>> /\ bucket = <<>> /\ flight = NoFlight

IntakeInv == TypeOK /\ HeldOnce /\ LandedOnce /\ InOrder /\ NavigationCutsOff /\ CleanStop

\* A turn is started in the conversation that is current when its batch is committed.
JoinsTheCurrent ==
    [][\A k \in DOMAIN db'.log \ DOMAIN db.log : db'.log[k].turn => db'.log[k].conv = db'.pin]_inbox

\* All that was recorded is decided, as the user sends no more than MaxUpdates, and a
\* shutdown's drain ends, unless the process dies.
Owing == Waiting(db) # {}
QuietOrDead == Waiting(db) = {} \/ bot \in {"stuck", "down"}
Stopping == bot = "stopping"
Stopped == bot \in {"off", "stuck", "down"}
EveryInputDecided ==
    /\ Owing ~> QuietOrDead
    /\ Stopping ~> Stopped
=============================================================================
