------------------------------- MODULE Retention -------------------------------
(***************************************************************************)
(* Long-term memory: the outbox of exchanges to retain (memory/queue.ts),  *)
(* its worker, /forget (memory/forget.ts) and the recall of a turn         *)
(* (memory/mod.ts).  The outbox, the suppressions and the recall blocks    *)
(* are durable; the request in flight with its cancellation, the pauses    *)
(* and a recall are not.  The bank is another service: it accepts an       *)
(* operation, processes it and answers about it when it can.               *)
(* Backoff is when the worker gets to a row, so any row may be due; the    *)
(* attempt count only words notices.                                       *)
(***************************************************************************)
EXTENDS Integers, FiniteSets

CONSTANTS
    None,
    MaxDocs,      \* bound: exchanges of the conversation, in order
    MaxOps,       \* bound: operations minted for one document
    MaxLosses     \* bound: crashes, lost answers and operations the bank drops

Docs == 1 .. MaxDocs
Ops == 1 .. MaxOps

\* A row of the outbox, the request made for one, a running /forget.
Row == [state : {"pending", "submitted", "completed", "blocked", "dismissed", "deleting"}, op : Ops]
Request == [doc : Docs, op : Ops, post : BOOLEAN, cancel : BOOLEAN]
Forgetting == [phase : {"draining", "settling", "deleting"}, op : Ops \cup {None}, alone : BOOLEAN]

\* None is none of what it stands beside.
RetentionAssumption ==
    /\ {MaxDocs, MaxLosses} \subseteq Nat /\ MaxOps \in Nat \ {0}
    /\ None \notin Row /\ None \notin Request /\ None \notin Forgetting /\ None \notin Ops
    /\ \A found \in SUBSET Docs : found # None

VARIABLES
    said,         \* exchanges appended to the conversation
    topic,        \* "on", "off" (excluded) or "deleted"
    rows,         \* memory_outbox by document: None or [state, op]
    suppressed,   \* memory_suppressions
    blocks,       \* memory_contexts: the documents each recall block cites
    asked,        \* the worker's request: None or [doc, op, post, cancel]
    forgets,      \* running forgets by document: None or [phase, op, alone]
    recall,       \* documents of the recall in flight, or None
    ops,          \* the bank: operations by document and number
    bank,         \* the bank: documents
    late,         \* the network: POSTs given up on that may still arrive
    losses,
    withdrawn,    \* history: cancellations asked for and not lost
    answered,     \* history: documents /forget said are forgotten
    clean         \* history: those forgotten with nothing of theirs under way elsewhere

queue == <<said, topic, rows, withdrawn>>
memory == <<suppressed, blocks, forgets, recall, answered, clean>>
service == <<ops, bank, late>>
vars == <<queue, memory, service, asked, losses>>

Loss == losses < MaxLosses /\ losses' = losses + 1
In(S) == {d \in Docs : rows[d] # None /\ rows[d].state \in S}
To(d, state) == rows' = [rows EXCEPT ![d].state = state]

-----------------------------------------------------------------------------
(* The conversation.                                                       *)

\* The answer lands: the live exclusion and the suppressions gate the enqueue, in the
\* transaction of the append.
Land ==
    /\ topic # "deleted" /\ said < MaxDocs /\ said' = said + 1
    /\ rows' = IF topic = "on" /\ said' \notin suppressed
               THEN [rows EXCEPT ![said'] = [state |-> "pending", op |-> 1]]
               ELSE rows
    /\ UNCHANGED <<topic, withdrawn, memory, service, asked, losses>>

\* purgePending: a row whose POST is in flight stays, to be dropped when it settles.
Purge(D) ==
    LET gone == D \cap In({"pending"})
        held == {d \in gone : asked # None /\ asked.doc = d /\ asked.op = rows[d].op}
    IN  /\ rows' = [d \in Docs |-> IF d \in gone \ held THEN None ELSE rows[d]]
        /\ asked' = IF held = {} THEN asked ELSE [asked EXCEPT !.cancel = TRUE]
        /\ withdrawn' = withdrawn \cup gone

\* /memory off that writes the flag and cancels nothing.
ExcludeOnly == topic = "on" /\ topic' = "off" /\ UNCHANGED <<said, rows, asked, withdrawn>>

Exclude == topic = "on" /\ topic' = "off" /\ Purge(Docs) /\ UNCHANGED said
Include == topic = "off" /\ topic' = "on" /\ UNCHANGED <<said, rows, asked, withdrawn>>
Delete == topic # "deleted" /\ topic' = "deleted" /\ Purge(Docs) /\ UNCHANGED said
Edit == \E cut \in 1 .. said : Purge(cut .. MaxDocs) /\ UNCHANGED <<said, topic>>

Converse ==
    (Exclude \/ Include \/ Delete \/ Edit) /\ UNCHANGED <<memory, service, losses>>

\* /memory retry mints an operation for every blocked row, /memory dismiss parks them.
RetryBlocked ==
    LET D == In({"blocked"})
    IN  /\ D # {} /\ \A d \in D : rows[d].op < MaxOps
        /\ rows' = [d \in Docs |-> IF d \in D THEN [state |-> "pending", op |-> rows[d].op + 1]
                                   ELSE rows[d]]
        /\ withdrawn' = withdrawn \ D
        /\ UNCHANGED <<said, topic, memory, service, asked, losses>>

DismissBlocked ==
    /\ rows' = [d \in Docs |-> IF d \in In({"blocked"}) THEN [rows[d] EXCEPT !.state = "dismissed"]
                               ELSE rows[d]]
    /\ UNCHANGED <<said, topic, withdrawn, memory, service, asked, losses>>

-----------------------------------------------------------------------------
(* The worker.                                                             *)

Paused == \E d \in Docs : forgets[d] # None

\* A tick takes a row that is due; beginInflight marks the one it is about to POST.
Take ==
    /\ asked = None /\ ~Paused
    /\ \E d \in In({"pending", "submitted"}) :
        asked' = [doc |-> d, op |-> rows[d].op, post |-> rows[d].state = "pending", cancel |-> FALSE]
    /\ UNCHANGED <<queue, memory, service, losses>>

Mine == rows[asked.doc] # None /\ rows[asked.doc].op = asked.op
Drop == rows' = [rows EXCEPT ![asked.doc] = None]
Accepted == ops' = [ops EXCEPT ![asked.doc][asked.op] = IF @ = "none" THEN "processing" ELSE @]

\* update writes only the row it read; a cancelled POST that may be asked again is dropped.
Retryable == IF asked.cancel THEN Drop ELSE UNCHANGED rows

PostReturns ==
    /\ asked # None /\ asked.post
    /\ \/ Accepted /\ To(asked.doc, "submitted") /\ UNCHANGED <<late, losses>>
       \/ Accepted /\ Retryable /\ Loss /\ UNCHANGED late
       \/ Accepted /\ To(asked.doc, "blocked") /\ Loss /\ UNCHANGED late
       \/ late' = late \cup {<<asked.doc, asked.op>>} /\ Retryable /\ Loss /\ UNCHANGED ops
       \/ Retryable /\ UNCHANGED <<ops, late, losses>>
       \/ To(asked.doc, "blocked") /\ UNCHANGED <<ops, late, losses>>
    /\ asked' = None
    /\ UNCHANGED <<said, topic, withdrawn, memory, bank>>

PollReturns ==
    /\ asked # None /\ ~asked.post
    /\ LET answer == ops[asked.doc][asked.op]
       IN  \/ answer = "completed" /\ To(asked.doc, "completed") /\ UNCHANGED losses
           \/ answer \in {"none", "failed"} /\ To(asked.doc, "blocked") /\ UNCHANGED losses
           \/ UNCHANGED <<rows, losses>>            \* still processing, or a retryable failure
           \/ Loss /\ To(asked.doc, "blocked")      \* a failure that is not
    /\ asked' = None
    /\ UNCHANGED <<said, topic, withdrawn, memory, service>>

-----------------------------------------------------------------------------
(* /forget.  The pauses of two forgets nest.                               *)

Phase(d, p) == forgets' = [forgets EXCEPT ![d] = p]

ForgetAsked(d) ==
    /\ d \in 1 .. said /\ forgets[d] = None
    /\ Phase(d, [phase |-> "draining", op |-> None, alone |-> FALSE])
    /\ UNCHANGED <<queue, suppressed, blocks, recall, answered, clean, service, asked, losses>>

\* The tick in flight has ended; the operation of a row not settled is waited for.
Drained(d) ==
    /\ forgets[d] # None /\ forgets[d].phase = "draining" /\ asked = None
    /\ Phase(d, [phase |-> "settling", alone |-> FALSE,
                 op |-> IF d \in In({"pending", "submitted"}) THEN rows[d].op ELSE None])
    /\ UNCHANGED <<queue, suppressed, blocks, recall, answered, clean, service, asked, losses>>

SettledOnFirstLook(d) == TRUE
Settled(d) == forgets[d].op \in Ops => ops[d][forgets[d].op] # "processing"

\* What the outbox no longer follows: an operation of a row that was parked, dropped or
\* minted anew, and a POST still on its way.
Elsewhere(d) ==
    \E k \in Ops : <<d, k>> \in late \/ (k # forgets[d].op /\ ops[d][k] = "processing")

\* suppress, then markDocumentDeleting, in one turn of the event loop.
Suppress(d) ==
    /\ forgets[d] # None /\ forgets[d].phase = "settling" /\ Settled(d)
    /\ Phase(d, [forgets[d] EXCEPT !.phase = "deleting", !.alone = ~Elsewhere(d)])
    /\ suppressed' = suppressed \cup {d}
    /\ IF rows[d] = None THEN UNCHANGED rows ELSE To(d, "deleting")
    /\ UNCHANGED <<said, topic, withdrawn, blocks, recall, answered, clean, service, asked, losses>>

Busy(d) ==
    /\ forgets[d] # None /\ forgets[d].phase = "settling" /\ forgets[d].op # None
    /\ Phase(d, None)
    /\ UNCHANGED <<queue, suppressed, blocks, recall, answered, clean, service, asked, losses>>

\* deleteDocument succeeds; confirmDeleted and deleteByDocument follow without an await.
Deleted(d) ==
    /\ forgets[d] # None /\ forgets[d].phase = "deleting"
    /\ Phase(d, None)
    /\ bank' = bank \ {d} /\ rows' = [rows EXCEPT ![d] = None]
    /\ blocks' = {b \in blocks : d \notin b}
    /\ answered' = answered \cup {d}
    /\ clean' = IF forgets[d].alone /\ (recall # None => d \notin recall)
                 THEN clean \cup {d} ELSE clean \ {d}
    /\ UNCHANGED <<said, topic, withdrawn, suppressed, recall, ops, late, asked, losses>>

\* A row stays "deleting" for the next /forget; the bank may have deleted the document.
DeleteFails(d) ==
    /\ forgets[d] # None /\ forgets[d].phase = "deleting" /\ Loss
    /\ Phase(d, None)
    /\ bank' \in {bank, bank \ {d}}
    /\ UNCHANGED <<queue, suppressed, blocks, recall, answered, clean, ops, late, asked>>

Forget(d) ==
    \/ ForgetAsked(d) \/ Drained(d) \/ Suppress(d) \/ Busy(d) \/ Deleted(d) \/ DeleteFails(d)

-----------------------------------------------------------------------------
(* Recall.  The live exclusion is read again when the bank answers.        *)

Recall ==
    /\ topic = "on" /\ recall = None
    /\ \E found \in SUBSET bank : found # {} /\ recall' = found
    /\ UNCHANGED <<queue, suppressed, blocks, forgets, answered, clean, service, asked, losses>>

RecallReturns ==
    /\ recall # None /\ recall' = None
    /\ blocks' = IF topic = "on" THEN blocks \cup {recall} ELSE blocks
    /\ UNCHANGED <<queue, suppressed, forgets, answered, clean, service, asked, losses>>

-----------------------------------------------------------------------------
(* The bank and the process.                                               *)

Process(d, k) ==
    /\ ops[d][k] = "processing"
    /\ \/ ops' = [ops EXCEPT ![d][k] = "completed"] /\ bank' = bank \cup {d} /\ UNCHANGED losses
       \/ ops' = [ops EXCEPT ![d][k] = "failed"] /\ UNCHANGED <<bank, losses>>
       \/ Loss /\ ops' = [ops EXCEPT ![d][k] = "none"] /\ UNCHANGED bank
    /\ UNCHANGED <<queue, memory, late, asked>>

LateArrives(d, k) ==
    /\ <<d, k>> \in late /\ late' = late \ {<<d, k>>}
    /\ ops' = [ops EXCEPT ![d][k] = IF @ = "none" THEN "processing" ELSE @]
    /\ UNCHANGED <<queue, memory, bank, asked, losses>>

\* What is in flight is gone with the process; the POST may have been accepted.
Gone ==
    /\ Loss
    /\ asked' = None /\ recall' = None /\ forgets' = [d \in Docs |-> None]
    /\ IF asked # None /\ asked.post THEN Accepted \/ UNCHANGED ops ELSE UNCHANGED ops
    /\ UNCHANGED <<said, topic, suppressed, blocks, answered, clean, bank, late>>

Crash ==
    /\ Gone /\ UNCHANGED rows
    /\ withdrawn' = withdrawn \ {d \in Docs : asked # None /\ asked.cancel /\ asked.doc = d}

\* stop aborts the request: a POST that was cancelled meanwhile is dropped.
Stop ==
    /\ asked # None /\ asked.post /\ asked.cancel
    /\ Gone /\ Drop /\ UNCHANGED withdrawn

Init ==
    /\ said = 0 /\ topic = "on" /\ rows = [d \in Docs |-> None]
    /\ suppressed = {} /\ blocks = {} /\ asked = None
    /\ forgets = [d \in Docs |-> None] /\ recall = None
    /\ ops = [d \in Docs |-> [k \in Ops |-> "none"]] /\ bank = {} /\ late = {}
    /\ losses = 0 /\ withdrawn = {} /\ answered = {} /\ clean = {}

Next ==
    \/ Land \/ Converse \/ RetryBlocked \/ DismissBlocked
    \/ Take \/ PostReturns \/ PollReturns
    \/ \E d \in Docs : Forget(d)
    \/ Recall \/ RecallReturns
    \/ \E d \in Docs, k \in Ops : Process(d, k) \/ LateArrives(d, k)
    \/ Crash \/ Stop

Spec == Init /\ [][Next]_vars

-----------------------------------------------------------------------------
\* The compare-and-set of update and settleInflight's identity check never fail: nothing
\* changes or removes a row under the request made for it (queue.ts, update "Memory queue
\* changed during processing").
RequestOwnsItsRow ==
    asked # None =>
        Mine /\ rows[asked.doc].state = IF asked.post THEN "pending" ELSE "submitted"

\* An exchange whose retention was cancelled waits for a POST only while the POST that was
\* in flight at the time is (queue.ts, purgePending and dropCancelled).
CancelledIsNotSent ==
    \A d \in withdrawn \cap In({"pending"}) : asked # None /\ asked.doc = d /\ asked.cancel

\* A document forgotten while nothing of it was under way elsewhere is in no row, in no
\* recall block and not in the bank, and stays out (forget.ts, forgetDocument).
ForgottenStaysOut ==
    \A d \in clean : rows[d] = None /\ d \notin bank /\ \A b \in blocks : d \notin b

TypeOK ==
    /\ said \in 0 .. MaxDocs /\ topic \in {"on", "off", "deleted"}
    /\ rows \in [Docs -> Row \cup {None}] /\ asked \in Request \cup {None}
    /\ forgets \in [Docs -> Forgetting \cup {None}] /\ (recall # None => recall \subseteq Docs)
    /\ ops \in [Docs -> [Ops -> {"none", "processing", "completed", "failed"}]]
    /\ late \subseteq Docs \X Ops /\ blocks \subseteq SUBSET Docs
    /\ suppressed \cup bank \cup withdrawn \cup answered \cup clean \subseteq 1 .. said
    /\ losses \in 0 .. MaxLosses

\* An excluded topic sends nothing but a POST that was under way when it was excluded, and that
\* one is cancelled (/memory off "no new memories sent or recalled").  It does not hold: a retry
\* sends a blocked row of the topic (README, section 6).
ExcludedSendsNothing == topic = "off" /\ asked # None /\ asked.post => asked.cancel

\* The outbox and /forget: a row changes only under its own request, an exchange withdrawn
\* is never sent, and one forgotten stays out (queue.ts, forget.ts).
RetentionInv == TypeOK /\ RequestOwnsItsRow /\ CancelledIsNotSent /\ ForgottenStaysOut

-----------------------------------------------------------------------------
(* The abstract promise.                                                   *)

RowFate == [pending |-> "owed", submitted |-> "sent", completed |-> "kept", blocked |-> "parked",
            dismissed |-> "dismissed", deleting |-> "leaving"]

FateOf(d) ==
    IF d > said THEN "unsaid"
    ELSE IF rows[d] # None THEN RowFate[rows[d].state]
    ELSE IF d \in answered THEN "forgotten"
    ELSE IF d \in withdrawn THEN "dropped" ELSE "refused"

P == INSTANCE RetentionPromise WITH Docs <- Docs, topic <- topic, bank <- bank,
         fate <- [d \in Docs |-> FateOf(d)]

\* The outbox, the worker and /forget implement the promise (RetentionPromise).
KeepsThePromise == P!Spec
=============================================================================
