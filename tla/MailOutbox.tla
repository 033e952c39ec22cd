------------------------------ MODULE MailOutbox ------------------------------
(***************************************************************************)
(* The operator-gated mail outbox: a tool queues a draft, a channel        *)
(* presents it, taps decide it, a sweep expires it, and a Gmail send whose *)
(* outcome may stay unknown is claimed before it leaves (mail-outbox.ts,   *)
(* mail-approval.ts).                                                      *)
(*                                                                         *)
(* A step is the code between two awaits: Gmail's thread lookup and POST,  *)
(* the channel's presentation and notices.  Rows survive a crash, flights  *)
(* and presentations do not; a POST that left may be accepted at any later *)
(* time, or never.                                                         *)
(***************************************************************************)
EXTENDS Naturals

CONSTANTS
    Drafts,    \* the drafts, each queued once
    Replies    \* those that answer a message and look up its thread

ASSUME MailAssumption == Replies \subseteq Drafts

VARIABLES
    row,         \* mail_outbox: the status of each draft
    due,         \* drafts past their expiry time
    flight,      \* what the in-flight send of each draft awaits
    presenting,  \* drafts whose presentation is awaited
    afloat,      \* drafts whose POST has left and has not been accepted
    accepted,    \* history: the number of copies Gmail took
    stamp        \* history: what the last decision says of the mail

vars == <<row, due, flight, presenting, afloat, accepted, stamp>>

-----------------------------------------------------------------------------
Decided == {"sent", "cancelled", "expired"}
Status == {"unqueued", "pending", "sending"} \cup Decided
Flight == {"none", "thread", "post", "answer"}

TypeOK ==
    /\ row \in [Drafts -> Status]
    /\ due \subseteq Drafts /\ presenting \subseteq Drafts /\ afloat \subseteq Drafts
    /\ flight \in [Drafts -> Flight]
    /\ accepted \in [Drafts -> Nat]
    /\ stamp \in [Drafts -> {"none", "neverSent", "sent", "unknown"}]

Init ==
    /\ row = [d \in Drafts |-> "unqueued"]
    /\ due = {} /\ presenting = {} /\ afloat = {}
    /\ flight = [d \in Drafts |-> "none"]
    /\ accepted = [d \in Drafts |-> 0]
    /\ stamp = [d \in Drafts |-> "none"]

-----------------------------------------------------------------------------
(* Queueing and presentation.                                              *)

Queue(d) ==
    /\ row[d] = "unqueued"
    /\ row' = [row EXCEPT ![d] = "pending"]
    /\ presenting' = presenting \cup {d}
    /\ UNCHANGED <<due, flight, afloat, accepted, stamp>>

\* Mutant: a failed presentation cancels the row whatever became of it.
PresentedForced(d) ==
    /\ d \in presenting /\ presenting' = presenting \ {d}
    /\ \/ row' = row
       \/ row' = [row EXCEPT ![d] = "cancelled"]
    /\ UNCHANGED <<due, flight, afloat, accepted, stamp>>

\* Posted or uncertain, the row stays; failed, it is cancelled if still pending.
Presented(d) ==
    /\ d \in presenting /\ presenting' = presenting \ {d}
    /\ \/ row' = row
       \/ row[d] = "pending" /\ row' = [row EXCEPT ![d] = "cancelled"]
    /\ UNCHANGED <<due, flight, afloat, accepted, stamp>>

-----------------------------------------------------------------------------
(* Taps.                                                                   *)

\* A decision, and what its channel is told.
Settle(d, status, says) ==
    /\ row' = [row EXCEPT ![d] = status]
    /\ stamp' = [stamp EXCEPT ![d] = says]

\* Only a row at rest takes a decision; a flight answers busy.
AtRest(d, status) == row[d] = status /\ flight[d] = "none"

\* A claim whose process died or whose POST was ambiguous is the operator's to drop.
AbandonClaim(d) ==
    /\ AtRest(d, "sending")
    /\ Settle(d, "cancelled", "unknown")
    /\ UNCHANGED <<due, flight, presenting, afloat, accepted>>

\* Either tap on a row past its time.
TapExpired(d) ==
    /\ AtRest(d, "pending") /\ d \in due
    /\ Settle(d, "expired", "neverSent")
    /\ UNCHANGED <<due, flight, presenting, afloat, accepted>>

Cancel(d) ==
    /\ AtRest(d, "pending") /\ d \notin due
    /\ Settle(d, "cancelled", "neverSent")
    /\ UNCHANGED <<due, flight, presenting, afloat, accepted>>

\* Mutant: the claim is recorded with Gmail's answer.
ClaimWithAnswer(d) ==
    /\ flight' = [flight EXCEPT ![d] = "post"] /\ afloat' = afloat \cup {d}
    /\ UNCHANGED row

\* claimSend, then the POST; a row decided in the meantime is lost to the flight.
Claim(d) ==
    IF row[d] = "pending"
    THEN /\ row' = [row EXCEPT ![d] = "sending"]
         /\ flight' = [flight EXCEPT ![d] = "post"] /\ afloat' = afloat \cup {d}
    ELSE flight' = [flight EXCEPT ![d] = "none"] /\ UNCHANGED <<row, afloat>>

\* A notice is awaited, the row as it was.
Answer(d) == flight' = [flight EXCEPT ![d] = "answer"]

\* sendApproved up to its first await: mail is not configured, a reply looks up its
\* thread, any other draft is claimed.
Send(d) ==
    /\ AtRest(d, "pending") /\ d \notin due
    /\ \/ Answer(d) /\ UNCHANGED <<row, afloat>>
       \/ d \in Replies /\ flight' = [flight EXCEPT ![d] = "thread"] /\ UNCHANGED <<row, afloat>>
       \/ d \notin Replies /\ Claim(d)
    /\ UNCHANGED <<due, presenting, accepted, stamp>>

\* The thread is found, or it is not.
Threaded(d) ==
    /\ flight[d] = "thread"
    /\ \/ Claim(d)
       \/ Answer(d) /\ UNCHANGED <<row, afloat>>
    /\ UNCHANGED <<due, presenting, accepted, stamp>>

-----------------------------------------------------------------------------
(* Gmail.                                                                  *)

\* Gmail takes the mail, whether or not anyone still waits for its answer.
Accept(d) ==
    /\ d \in afloat /\ afloat' = afloat \ {d}
    /\ accepted' = [accepted EXCEPT ![d] = @ + 1]
    /\ UNCHANGED <<row, due, flight, presenting, stamp>>

\* A row of a flight moves on from its claim.
FromClaim(d, status) == [row EXCEPT ![d] = IF @ = "sending" THEN status ELSE @]

\* Mutant: an answer that is not a success is a rejection.
RejectedByDefault(d) ==
    /\ flight[d] = "post" /\ Answer(d)
    /\ row' = FromClaim(d, "pending")
    /\ UNCHANGED <<due, presenting, afloat, accepted, stamp>>

\* No token, or a definitive 4xx: nothing was delivered, the claim is released.
Rejected(d) ==
    /\ flight[d] = "post" /\ d \in afloat /\ Answer(d)
    /\ afloat' = afloat \ {d}
    /\ row' = FromClaim(d, "pending")
    /\ UNCHANGED <<due, presenting, accepted, stamp>>

\* Transport loss, a 5xx, an unreadable answer, or a verdict the store refuses: the
\* row stays claimed.
Ambiguous(d) ==
    /\ flight[d] = "post"
    /\ Answer(d) \/ flight' = [flight EXCEPT ![d] = "none"]
    /\ UNCHANGED <<row, due, presenting, afloat, accepted, stamp>>

\* Mutant: any answer means it was sent.
CompletedAnyhow(d) ==
    /\ flight[d] = "post" /\ Answer(d)
    /\ row' = FromClaim(d, "sent")
    /\ stamp' = [stamp EXCEPT ![d] = "sent"]
    /\ UNCHANGED <<due, presenting, afloat, accepted>>

\* Gmail's id is the verdict.
Completed(d) ==
    /\ flight[d] = "post" /\ d \notin afloat /\ Answer(d)
    /\ row' = FromClaim(d, "sent")
    /\ stamp' = IF row[d] = "sending" THEN [stamp EXCEPT ![d] = "sent"] ELSE stamp
    /\ UNCHANGED <<due, presenting, afloat, accepted>>

\* Mutant: only a flight that sent is taken off the books.
AnsweredIfSent(d) ==
    /\ flight[d] = "answer" /\ row[d] = "sent"
    /\ flight' = [flight EXCEPT ![d] = "none"]
    /\ UNCHANGED <<row, due, presenting, afloat, accepted, stamp>>

\* The notice is out, the flight is over.
Answered(d) ==
    /\ flight[d] = "answer"
    /\ flight' = [flight EXCEPT ![d] = "none"]
    /\ UNCHANGED <<row, due, presenting, afloat, accepted, stamp>>

-----------------------------------------------------------------------------
(* Time, the sweep, and the process.                                       *)

Elapse(d) ==
    /\ row[d] # "unqueued" /\ d \notin due
    /\ due' = due \cup {d}
    /\ UNCHANGED <<row, flight, presenting, afloat, accepted, stamp>>

\* expireDue over the drafts outside the flights busy.
Expire(busy) ==
    LET expired == {d \in due \ busy : row[d] = "pending"}
    IN  /\ row' = [d \in Drafts |-> IF d \in expired THEN "expired" ELSE row[d]]
        /\ stamp' = [d \in Drafts |-> IF d \in expired THEN "neverSent" ELSE stamp[d]]

Sweep ==
    /\ Expire({d \in Drafts : flight[d] # "none"})
    /\ UNCHANGED <<due, flight, presenting, afloat, accepted>>

\* The process dies and is started again: it sweeps at once.
Crash ==
    /\ flight' = [d \in Drafts |-> "none"] /\ presenting' = {}
    /\ Expire({})
    /\ UNCHANGED <<due, afloat, accepted>>

-----------------------------------------------------------------------------
Operator(d) == AbandonClaim(d) \/ TapExpired(d) \/ Cancel(d) \/ Send(d)
Flies(d) == Threaded(d) \/ Rejected(d) \/ Ambiguous(d) \/ Completed(d) \/ Answered(d)
World(d) == Queue(d) \/ Presented(d) \/ Accept(d) \/ Elapse(d)

Next == (\E d \in Drafts : Operator(d) \/ Flies(d) \/ World(d)) \/ Sweep \/ Crash

Spec == Init /\ [][Next]_vars

\* Every await of a flight has a timeout, the sweep ticks, time passes.  The
\* operator and Gmail owe nothing.
FairSpec == /\ Spec /\ WF_vars(Sweep)
            /\ \A d \in Drafts : WF_vars(Flies(d)) /\ WF_vars(Elapse(d))

-----------------------------------------------------------------------------
(* Properties.                                                             *)

\* Whatever the order of taps, retries, crashes and late acceptances, Gmail takes at
\* most one copy of a draft.
SentOnce == \A d \in Drafts : accepted[d] <= 1 /\ (d \in afloat => accepted[d] = 0)

\* What the operator is told is so: "neverSent" of a draft that was not accepted and
\* will not be, "sent" of one that was.
StampIsTrue == \A d \in Drafts :
    /\ stamp[d] = "neverSent" => accepted[d] = 0 /\ d \notin afloat
    /\ stamp[d] = "sent" => accepted[d] = 1

\* A decision is made once: no tap, sweep, late answer or failed presentation
\* changes a decided row.
DecidedOnce == [][\A d \in Drafts : row[d] \in Decided => row'[d] = row[d]]_vars

\* Every queued draft is decided, or is a claim of unknown outcome that only the
\* operator may drop.
EveryDraftDecided == \A d \in Drafts :
    row[d] = "pending" ~> row[d] \in Decided \/ AtRest(d, "sending")
=============================================================================
