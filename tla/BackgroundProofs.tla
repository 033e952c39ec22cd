---------------------------- MODULE BackgroundProofs ----------------------------
(***************************************************************************)
(* Long-term memory, for every number of exchanges, operations and losses: *)
(* what the outbox, its worker and /forget keep, and that they implement   *)
(* the promise of RetentionPromise.                                        *)
(*                                                                         *)
(* A delegation, for every number of prompts and faults: done means that   *)
(* the last prompt was done and told, what is over leaves no agent         *)
(* running, and a stop is final.                                           *)
(* The argument is about baselines: a baseline is read after its prompt    *)
(* was taken, so a completion past it is of that prompt or a later one,    *)
(* and stays so through every await over which a scan carries it.          *)
(***************************************************************************)
EXTENDS MCBackgroundWork, TLAPS

-----------------------------------------------------------------------------
(* Memory: the inductive invariant. *)

\* Nothing of the document is on its way into the bank.
NothingUnderWay(d) == \A k \in Ops : ops[d][k] # "processing" /\ <<d, k>> \notin late

\* The bank or the network has heard of the document.
Traced(d) == \E k \in Ops : ops[d][k] # "none" \/ <<d, k>> \in late

\* What was not said yet has no row, no forget and no operation.
UnsaidIsBlank == \A d \in Docs : rows[d] # None \/ forgets[d] # None \/ Traced(d) => d \in 1 .. said

\* A forget is past its drain only while the worker has no request.
DrainedIsQuiet == asked # None => \A d \in Docs : forgets[d] # None => forgets[d].phase = "draining"

\* The request that is to be dropped is the POST of a withdrawn exchange.
CancelIsWithdrawn == asked # None /\ asked.cancel => asked.post /\ asked.doc \in withdrawn

\* While the bank is asked to delete, the row is marked; a forget that found nothing
\* elsewhere still finds nothing.
DeletingIsMarked ==
    \A d \in Docs : forgets[d] # None /\ forgets[d].phase = "deleting"
        => /\ rows[d] # None => rows[d].state = "deleting"
           /\ forgets[d].alone => NothingUnderWay(d)

\* No operation and no recall brings back what was forgotten cleanly.
CleanIsQuiet == \A d \in clean : NothingUnderWay(d) /\ (recall # None => d \notin recall)

\* A document whose operation completed is in the bank until it is to be deleted.
CompletedIsKept ==
    \A d \in Docs : rows[d] # None /\ rows[d].state # "deleting"
        => \A k \in Ops : ops[d][k] = "completed" => d \in bank

\* A document that was sent and has no row any more was withdrawn or forgotten.
DroppedIsAccounted == \A d \in Docs : rows[d] = None /\ Traced(d) => d \in answered \cup withdrawn

AnsweredIsGone == \A d \in answered : rows[d] = None

MemoryInv ==
    /\ TypeOK /\ RequestOwnsItsRow /\ CancelledIsNotSent /\ ForgottenStaysOut
    /\ UnsaidIsBlank /\ DrainedIsQuiet /\ CancelIsWithdrawn /\ DeletingIsMarked /\ CleanIsQuiet
    /\ CompletedIsKept /\ DroppedIsAccounted /\ AnsweredIsGone

-----------------------------------------------------------------------------
(* Rows and requests. *)

LEMMA RowFacts ==
  ASSUME RetentionAssumption, TypeOK, NEW d \in Docs, rows[d] # None
  PROVE  /\ rows[d] \in Row /\ rows[d].op \in Ops
         /\ rows[d].state \in {"pending", "submitted", "completed", "blocked", "dismissed", "deleting"}
         /\ \A st \in {"pending", "submitted", "completed", "blocked", "dismissed", "deleting"} :
               LET new == [rows[d] EXCEPT !.state = st]
               IN  new \in Row /\ new # None /\ new.state = st /\ new.op = rows[d].op
  BY DEF RetentionAssumption, TypeOK, Row

LEMMA RequestFacts ==
  ASSUME TypeOK, asked # None
  PROVE  /\ asked \in Request /\ asked.doc \in Docs /\ asked.op \in Ops
         /\ asked.post \in BOOLEAN /\ asked.cancel \in BOOLEAN
  BY DEF TypeOK, Request

LEMMA ForgetFacts ==
  ASSUME RetentionAssumption, TypeOK, NEW d \in Docs, forgets[d] # None
  PROVE  /\ forgets[d] \in Forgetting /\ forgets[d].phase \in {"draining", "settling", "deleting"}
         /\ forgets[d].alone \in BOOLEAN
  BY DEF RetentionAssumption, TypeOK, Forgetting

LEMMA SaidFacts ==
  ASSUME RetentionAssumption, TypeOK
  PROVE  /\ 1 .. said \subseteq Docs /\ suppressed \cup bank \cup withdrawn \cup answered \cup clean \subseteq Docs
         /\ rows \in [Docs -> Row \cup {None}]
<1>1. 1 .. said \subseteq Docs
  BY DEF RetentionAssumption, TypeOK, Docs
<1> QED BY <1>1 DEF TypeOK

\* One row's state moves.
LEMMA RowMoves ==
  ASSUME RetentionAssumption, TypeOK, NEW d \in Docs, rows[d] # None,
         NEW st \in {"pending", "submitted", "completed", "blocked", "dismissed", "deleting"}, To(d, st)
  PROVE  /\ rows' \in [Docs -> Row \cup {None}]
         /\ rows'[d] # None /\ rows'[d].state = st /\ rows'[d].op = rows[d].op
         /\ \A e \in Docs \ {d} : rows'[e] = rows[e]
<1> DEFINE new == [rows[d] EXCEPT !.state = st]
<1>1. new \in Row /\ new # None /\ new.state = st /\ new.op = rows[d].op
  BY RowFacts
<1>2. rows' = [rows EXCEPT ![d] = new]
  BY DEF To
<1> HIDE DEF new
<1> QED BY <1>1, <1>2 DEF TypeOK

\* The bank hears of an operation: only that one changes, and only from nothing.
LEMMA Accepts ==
  ASSUME TypeOK, asked # None, Accepted
  PROVE  /\ ops' \in [Docs -> [Ops -> {"none", "processing", "completed", "failed"}]]
         /\ \A d \in Docs, k \in Ops :
               \/ ops'[d][k] = ops[d][k]
               \/ d = asked.doc /\ k = asked.op /\ ops[d][k] = "none" /\ ops'[d][k] = "processing"
  BY RequestFacts DEF TypeOK, Accepted

-----------------------------------------------------------------------------
(* The conversation. *)

LEMMA LandKeeps == ASSUME RetentionAssumption, MemoryInv, Land PROVE MemoryInv'
<1>1. /\ said < MaxDocs /\ said' = said + 1
      /\ UNCHANGED <<topic, withdrawn, suppressed, blocks, forgets, recall, answered, clean>>
      /\ UNCHANGED <<ops, bank, late, asked, losses>>
  BY DEF Land, memory, service
<1>2. TypeOK /\ said \in Nat /\ MaxDocs \in Nat /\ said' \in Docs /\ said' \notin 1 .. said /\ 1 .. said \subseteq 1 .. said'
  BY <1>1 DEF MemoryInv, TypeOK, Docs, RetentionAssumption
<1>3. /\ rows[said'] = None /\ \A d \in Docs : d # said' => rows'[d] = rows[d]
      /\ rows' \in [Docs -> Row \cup {None}]
      /\ rows'[said'] # None => rows'[said'].state = "pending"
  <2> DEFINE new == [state |-> "pending", op |-> 1]
  <2>1. new \in Row /\ new.state = "pending" /\ new # None
    BY DEF RetentionAssumption, Row, Ops
  <2>2. rows' = rows \/ rows' = [rows EXCEPT ![said'] = new]
    BY DEF Land
  <2>3. rows[said'] = None
    BY <1>2 DEF MemoryInv, UnsaidIsBlank
  <2> HIDE DEF new
  <2> QED BY <1>2, <2>1, <2>2, <2>3 DEF TypeOK
<1>4. ~Traced(said') /\ said' \notin withdrawn \cup answered \cup clean /\ forgets[said'] = None
  BY <1>2 DEF MemoryInv, UnsaidIsBlank, TypeOK
<1>5. asked # None => asked.doc # said'
  BY <1>3, RequestFacts DEF MemoryInv, RequestOwnsItsRow, Mine
<1>6. TypeOK'
  <2>1. said' \in 0 .. MaxDocs
    BY <1>1, <1>2 DEF TypeOK, Docs
  <2> QED BY <1>1, <1>2, <1>3, <2>1 DEF TypeOK
<1>7. RequestOwnsItsRow'
  BY <1>1, <1>2, <1>3, <1>5, RequestFacts DEF MemoryInv, RequestOwnsItsRow, Mine
<1>8. CancelledIsNotSent'
  BY <1>1, <1>2, <1>3, <1>4 DEF MemoryInv, CancelledIsNotSent, In
<1>9. ForgottenStaysOut' /\ AnsweredIsGone'
  <2>1. clean \cup answered \subseteq Docs
    BY <1>2, SaidFacts
  <2>2. \A d \in clean \cup answered : rows'[d] = rows[d]
    BY <1>3, <1>4, <2>1
  <2>3. ForgottenStaysOut'
    BY <1>1, <2>2 DEF MemoryInv, ForgottenStaysOut
  <2>4. AnsweredIsGone'
    BY <1>1, <2>2 DEF MemoryInv, AnsweredIsGone
  <2> QED BY <2>3, <2>4
<1>10. UnsaidIsBlank' /\ DroppedIsAccounted'
  <2>1. \A d \in Docs : Traced(d)' = Traced(d)
    BY <1>1 DEF Traced
  <2> QED BY <1>1, <1>2, <1>3, <1>4, <2>1 DEF MemoryInv, UnsaidIsBlank, DroppedIsAccounted
<1>11. DrainedIsQuiet' /\ CancelIsWithdrawn' /\ CleanIsQuiet'
  BY <1>1 DEF MemoryInv, DrainedIsQuiet, CancelIsWithdrawn, CleanIsQuiet, NothingUnderWay
<1>12. DeletingIsMarked'
  BY <1>1, <1>3, <1>4 DEF MemoryInv, DeletingIsMarked, NothingUnderWay
<1>13. CompletedIsKept'
  BY <1>1, <1>2, <1>3, <1>4 DEF MemoryInv, CompletedIsKept, Traced
<1> QED BY <1>6, <1>7, <1>8, <1>9, <1>10, <1>11, <1>12, <1>13 DEF MemoryInv

\* What a purge withdraws (gone) is dropped, or flagged while its POST is in flight (held).
Purged(D, gone, held) ==
    /\ \A d \in Docs : d \in gone <=> d \in D /\ rows[d] # None /\ rows[d].state = "pending"
    /\ \A d \in Docs : rows'[d] = IF d \in gone \ held THEN None ELSE rows[d]
    /\ withdrawn' = withdrawn \cup gone
    /\ held = {} => asked' = asked
    /\ held # {} => /\ asked # None /\ held = {asked.doc} /\ asked.post
                    /\ asked' \in Request /\ asked' # None
                    /\ asked'.doc = asked.doc /\ asked'.op = asked.op
                    /\ asked'.post = asked.post /\ asked'.cancel
    /\ asked # None => asked.doc \notin gone \ held

LEMMA PurgeSteps ==
  ASSUME RetentionAssumption, TypeOK, RequestOwnsItsRow, NEW D \in SUBSET Docs, Purge(D)
  PROVE  /\ rows' \in [Docs -> Row \cup {None}]
         /\ \E gone \in SUBSET D : \E held \in SUBSET gone : Purged(D, gone, held)
<1> DEFINE gone == D \cap In({"pending"})
           held == {d \in gone : asked # None /\ asked.doc = d /\ asked.op = rows[d].op}
<1>1. /\ rows' = [d \in Docs |-> IF d \in gone \ held THEN None ELSE rows[d]]
      /\ asked' = IF held = {} THEN asked ELSE [asked EXCEPT !.cancel = TRUE]
      /\ withdrawn' = withdrawn \cup gone
  BY DEF Purge
<1>2. \A d \in Docs : d \in gone <=> d \in D /\ rows[d] # None /\ rows[d].state = "pending"
  BY DEF In
<1>3. asked # None => asked.doc \in Docs /\ Mine /\ rows[asked.doc].state = IF asked.post THEN "pending" ELSE "submitted"
  BY RequestFacts DEF RequestOwnsItsRow
<1>4. asked # None => asked.doc \notin gone \ held
  BY <1>3 DEF Mine
<1>5. held # {} => asked # None /\ held = {asked.doc} /\ asked.post
  <2>1. ASSUME held # {} PROVE asked # None /\ held = {asked.doc}
    BY <2>1
  <2>2. ASSUME held # {} PROVE asked.post
    BY <1>2, <1>3, <2>1, <2>2
  <2> QED BY <2>1, <2>2
<1>6. rows' \in [Docs -> Row \cup {None}]
  BY <1>1 DEF TypeOK
<1>7. gone \in SUBSET D /\ held \in SUBSET gone
  OBVIOUS
<1> HIDE DEF gone, held
<1>8. held # {} => /\ asked' \in Request /\ asked'.doc = asked.doc /\ asked'.op = asked.op
                   /\ asked'.post = asked.post /\ asked'.cancel
  <2>1. asked # None => asked \in Request
    BY RequestFacts
  <2> QED BY <1>1, <1>5, <2>1 DEF Request
<1>9. held # {} => asked' # None
  BY <1>8 DEF RetentionAssumption
<1> QED BY <1>1, <1>2, <1>4, <1>5, <1>6, <1>7, <1>8, <1>9 DEF Purged

LEMMA PurgeKeeps ==
  ASSUME RetentionAssumption, MemoryInv, NEW D \in SUBSET Docs, Purge(D),
         topic' \in {"on", "off", "deleted"},
         UNCHANGED <<said, memory, service, losses>>
  PROVE  MemoryInv'
<1>1. TypeOK /\ RequestOwnsItsRow
  BY DEF MemoryInv
<1>2. rows' \in [Docs -> Row \cup {None}]
  BY <1>1, PurgeSteps
<1>3. PICK gone \in SUBSET D : \E held \in SUBSET gone : Purged(D, gone, held)
  BY <1>1, PurgeSteps
<1>4. PICK held \in SUBSET gone : Purged(D, gone, held)
  BY <1>3
<1> USE <1>4 DEF Purged
<1>5. UNCHANGED <<said, suppressed, blocks, forgets, recall, answered, clean, ops, bank, late, losses>>
  BY DEF memory, service
<1>6. \A d \in gone : d \in 1 .. said
  BY <1>4 DEF MemoryInv, UnsaidIsBlank
<1>7. /\ asked' # None <=> asked # None
      /\ asked # None => /\ asked'.doc = asked.doc /\ asked'.op = asked.op /\ asked'.post = asked.post
                         /\ asked'.cancel <=> asked.cancel \/ held # {}
  BY <1>4
<1>8. asked' \in Request \cup {None}
  BY <1>1, <1>4 DEF TypeOK
<1>9. asked # None => asked.doc \in Docs
  BY <1>1, RequestFacts
<1>10. TypeOK'
  <2>1. suppressed' \cup bank' \cup withdrawn' \cup answered' \cup clean' \subseteq 1 .. said'
    BY <1>1, <1>4, <1>5, <1>6 DEF TypeOK
  <2> QED BY <1>1, <1>2, <1>5, <1>8, <2>1 DEF TypeOK
<1>11. RequestOwnsItsRow'
  BY <1>1, <1>4, <1>7, <1>9 DEF RequestOwnsItsRow, Mine
<1>12. CancelledIsNotSent'
  <2> SUFFICES ASSUME NEW d \in withdrawn', d \in Docs, rows'[d] # None, rows'[d].state = "pending"
               PROVE  asked' # None /\ asked'.doc = d /\ asked'.cancel
    BY DEF CancelledIsNotSent, In
  <2>1. CASE d \in held
    BY <1>4, <2>1
  <2>2. CASE d \notin held
    <3>1. d \in withdrawn /\ rows[d] # None /\ rows[d].state = "pending"
      BY <1>4, <2>2
    <3> QED BY <1>7, <3>1 DEF MemoryInv, CancelledIsNotSent, In
  <2> QED BY <2>1, <2>2
<1>13. ForgottenStaysOut' /\ AnsweredIsGone'
  <2>1. clean \cup answered \subseteq Docs
    BY <1>1, SaidFacts
  <2> QED BY <1>4, <1>5, <2>1 DEF MemoryInv, ForgottenStaysOut, AnsweredIsGone
<1>14. /\ \A d \in Docs : Traced(d)' = Traced(d)
       /\ \A d \in Docs : NothingUnderWay(d)' = NothingUnderWay(d)
  BY <1>5 DEF Traced, NothingUnderWay
<1>15. UnsaidIsBlank' /\ DroppedIsAccounted'
  BY <1>4, <1>5, <1>14 DEF MemoryInv, UnsaidIsBlank, DroppedIsAccounted
<1>16. DrainedIsQuiet'
  BY <1>5, <1>7 DEF MemoryInv, DrainedIsQuiet
<1>17. CancelIsWithdrawn'
  BY <1>4, <1>7 DEF MemoryInv, CancelIsWithdrawn
<1>18. CleanIsQuiet' /\ DeletingIsMarked'
  <2>1. clean \subseteq Docs
    BY <1>1, SaidFacts
  <2> QED BY <1>4, <1>5, <1>14, <2>1 DEF MemoryInv, CleanIsQuiet, DeletingIsMarked
<1>19. CompletedIsKept'
  BY <1>4, <1>5 DEF MemoryInv, CompletedIsKept
<1> QED BY <1>10, <1>11, <1>12, <1>13, <1>15, <1>16, <1>17, <1>18, <1>19 DEF MemoryInv

LEMMA ConverseKeeps == ASSUME RetentionAssumption, MemoryInv, Converse PROVE MemoryInv'
<1>1. UNCHANGED <<memory, service, losses>>
  BY DEF Converse
<1>2. CASE Exclude \/ Delete
  <2>1. Purge(Docs) /\ UNCHANGED said /\ topic' \in {"on", "off", "deleted"}
    BY <1>2 DEF Exclude, Delete
  <2> QED BY <1>1, <2>1, PurgeKeeps
<1>3. CASE Edit
  <2>1. PICK cut \in 1 .. said : Purge(cut .. MaxDocs) /\ UNCHANGED <<said, topic>>
    BY <1>3 DEF Edit
  <2>2. cut .. MaxDocs \in SUBSET Docs /\ topic' \in {"on", "off", "deleted"}
    <3>1. \A d \in cut .. MaxDocs : d \in 1 .. MaxDocs
      BY DEF MemoryInv, TypeOK, RetentionAssumption
    <3> QED BY <2>1, <3>1 DEF MemoryInv, TypeOK, Docs
  <2> QED BY <1>1, <2>1, <2>2, PurgeKeeps
<1>4. CASE Include
  BY <1>1, <1>4 DEF Include, memory, service, MemoryInv, TypeOK, RequestOwnsItsRow, Mine,
     CancelledIsNotSent, In,
     ForgottenStaysOut, UnsaidIsBlank, Traced, DrainedIsQuiet, CancelIsWithdrawn, DeletingIsMarked,
     NothingUnderWay, CleanIsQuiet, CompletedIsKept, DroppedIsAccounted, AnsweredIsGone
<1> QED BY <1>2, <1>3, <1>4 DEF Converse

\* Rows that are blocked are retried together, or parked together.
Blocked == In({"blocked"})

Unblocked(st) ==
    /\ rows' \in [Docs -> Row \cup {None}]
    /\ \A d \in Docs \ Blocked : rows'[d] = rows[d]
    /\ \A d \in Blocked : rows'[d] # None /\ rows'[d].state = st
    /\ withdrawn' = IF st = "pending" THEN withdrawn \ Blocked ELSE withdrawn

LEMMA UnblockSteps ==
  ASSUME RetentionAssumption, MemoryInv, RetryBlocked \/ DismissBlocked
  PROVE  Unblocked("pending") \/ Unblocked("dismissed")
<1>1. Blocked \subseteq Docs /\ \A d \in Docs : d \in Blocked <=> rows[d] # None /\ rows[d].state = "blocked"
  BY DEF In, Blocked
<1>2. CASE RetryBlocked
  <2> DEFINE new(d) == [state |-> "pending", op |-> rows[d].op + 1]
  <2>1. /\ rows' = [d \in Docs |-> IF d \in Blocked THEN new(d) ELSE rows[d]]
        /\ withdrawn' = withdrawn \ Blocked /\ \A d \in Blocked : rows[d].op < MaxOps
    BY <1>2 DEF RetryBlocked, Blocked
  <2>2. \A d \in Blocked : new(d) \in Row /\ new(d) # None /\ new(d).state = "pending"
    <3> SUFFICES ASSUME NEW d \in Blocked PROVE new(d) \in Row /\ new(d) # None /\ new(d).state = "pending"
      OBVIOUS
    <3>1. rows[d].op \in 1 .. MaxOps /\ rows[d].op < MaxOps /\ MaxOps \in Nat
      BY <1>1, <2>1, RowFacts DEF MemoryInv, Ops, RetentionAssumption
    <3>2. rows[d].op + 1 \in Ops
      BY <3>1 DEF Ops
    <3> QED BY <3>2 DEF Row, RetentionAssumption
  <2> HIDE DEF new
  <2>3. rows \in [Docs -> Row \cup {None}]
    BY SaidFacts DEF MemoryInv
  <2> QED BY <1>1, <2>1, <2>2, <2>3 DEF Unblocked
<1>3. CASE DismissBlocked
  <2> DEFINE new(d) == [rows[d] EXCEPT !.state = "dismissed"]
  <2>1. /\ rows' = [d \in Docs |-> IF d \in Blocked THEN new(d) ELSE rows[d]]
        /\ withdrawn' = withdrawn
    BY <1>3 DEF DismissBlocked, Blocked
  <2>2. \A d \in Blocked : new(d) \in Row /\ new(d) # None /\ new(d).state = "dismissed"
    <3>1. \A d \in Blocked : d \in Docs /\ rows[d] # None
      BY DEF In, Blocked
    <3> QED BY <3>1, RowFacts DEF MemoryInv
  <2> HIDE DEF new
  <2>3. rows \in [Docs -> Row \cup {None}]
    BY SaidFacts DEF MemoryInv
  <2> QED BY <1>1, <2>1, <2>2, <2>3 DEF Unblocked
<1> QED BY <1>2, <1>3

\* They are in nobody's hands.
LEMMA UnblockKeeps ==
  ASSUME RetentionAssumption, MemoryInv, RetryBlocked \/ DismissBlocked
  PROVE  MemoryInv'
<1>1. UNCHANGED <<said, topic, suppressed, blocks, forgets, recall, answered, clean, ops, bank, late, asked, losses>>
  BY DEF RetryBlocked, DismissBlocked, memory, service
<1>2. Blocked \subseteq Docs /\ \A d \in Docs : d \in Blocked <=> rows[d] # None /\ rows[d].state = "blocked"
  BY DEF In, Blocked
<1>3. PICK st \in {"pending", "dismissed"} : Unblocked(st)
  BY UnblockSteps
<1> USE <1>3 DEF Unblocked
<1>4. asked # None => asked.doc \in Docs \ Blocked
  BY <1>2, RequestFacts DEF MemoryInv, RequestOwnsItsRow
<1>5. TypeOK'
  BY <1>1, <1>3 DEF MemoryInv, TypeOK
<1>6. RequestOwnsItsRow' /\ CancelIsWithdrawn'
  BY <1>1, <1>3, <1>4 DEF MemoryInv, RequestOwnsItsRow, Mine, CancelIsWithdrawn
<1>7. CancelledIsNotSent'
  BY <1>1, <1>3 DEF MemoryInv, CancelledIsNotSent, In
<1>8. \A d \in Docs : rows'[d] = None <=> rows[d] = None
  BY <1>2, <1>3
<1>9. ForgottenStaysOut' /\ AnsweredIsGone' /\ DrainedIsQuiet' /\ CleanIsQuiet'
  BY <1>1, <1>8 DEF MemoryInv, ForgottenStaysOut, AnsweredIsGone, DrainedIsQuiet, CleanIsQuiet,
     NothingUnderWay,
     TypeOK, Docs, RetentionAssumption
<1>10. \A d \in Docs : Traced(d)' = Traced(d) /\ NothingUnderWay(d)' = NothingUnderWay(d)
  BY <1>1 DEF Traced, NothingUnderWay
<1>11. UnsaidIsBlank' /\ DroppedIsAccounted'
  BY <1>1, <1>2, <1>3, <1>8, <1>10 DEF MemoryInv, UnsaidIsBlank, DroppedIsAccounted
<1>12. DeletingIsMarked'
  BY <1>1, <1>2, <1>3, <1>8, <1>10 DEF MemoryInv, DeletingIsMarked
<1>13. CompletedIsKept'
  BY <1>1, <1>2, <1>3 DEF MemoryInv, CompletedIsKept
<1> QED BY <1>5, <1>6, <1>7, <1>9, <1>11, <1>12, <1>13 DEF MemoryInv

-----------------------------------------------------------------------------
(* The worker. *)

LEMMA TakeKeeps == ASSUME RetentionAssumption, MemoryInv, Take PROVE MemoryInv'
<1>1. UNCHANGED <<said, topic, rows, withdrawn, suppressed, blocks, forgets, recall, answered, clean>>
  BY DEF Take, queue, memory
<1>2. UNCHANGED <<ops, bank, late, losses>> /\ asked = None /\ \A d \in Docs : forgets[d] = None
  BY DEF Take, service, Paused
<1>3. PICK d \in Docs :
        /\ rows[d] # None /\ rows[d].state \in {"pending", "submitted"}
        /\ asked' = [doc |-> d, op |-> rows[d].op, post |-> rows[d].state = "pending", cancel |-> FALSE]
  BY DEF Take, In
<1>4. /\ asked' \in Request /\ asked' # None /\ asked'.doc = d /\ asked'.op = rows[d].op
      /\ asked'.post = (rows[d].state = "pending") /\ ~asked'.cancel
  <2>1. rows[d].op \in Ops
    BY <1>3, RowFacts DEF MemoryInv
  <2>2. asked' \in Request
    BY <1>3, <2>1 DEF Request
  <2> QED BY <1>3, <2>2 DEF RetentionAssumption
<1>5. TypeOK'
  BY <1>1, <1>2, <1>4 DEF MemoryInv, TypeOK
<1>6. RequestOwnsItsRow' /\ CancelIsWithdrawn' /\ DrainedIsQuiet'
  BY <1>1, <1>2, <1>3, <1>4 DEF RequestOwnsItsRow, Mine, CancelIsWithdrawn, DrainedIsQuiet
<1>7. CancelledIsNotSent'
  BY <1>1, <1>2 DEF MemoryInv, CancelledIsNotSent, In
<1>8. ForgottenStaysOut' /\ UnsaidIsBlank' /\ DeletingIsMarked' /\ CleanIsQuiet' /\ CompletedIsKept'
      /\ DroppedIsAccounted' /\ AnsweredIsGone'
  BY <1>1, <1>2 DEF MemoryInv, ForgottenStaysOut, UnsaidIsBlank, Traced, DeletingIsMarked,
     NothingUnderWay,
     CleanIsQuiet, CompletedIsKept, DroppedIsAccounted, AnsweredIsGone
<1> QED BY <1>5, <1>6, <1>7, <1>8 DEF MemoryInv

\* What the end of a request may do to its own row and operation; a cancellation is lost
\* with the process, and the row then waits again.
RowEnds ==
    /\ rows' \in [Docs -> Row \cup {None}]
    /\ \A d \in Docs : d # asked.doc => rows'[d] = rows[d]
    /\ withdrawn' \in {withdrawn, withdrawn \ {asked.doc}}
    /\ \/ rows'[asked.doc] # None /\ rows'[asked.doc].state \in {"submitted", "completed", "blocked"}
       \/ rows'[asked.doc] = None /\ asked.cancel /\ withdrawn' = withdrawn
       \/ rows'[asked.doc] = rows[asked.doc] /\ (asked.cancel => asked.doc \notin withdrawn')

OperationEnds ==
    /\ ops' \in [Docs -> [Ops -> {"none", "processing", "completed", "failed"}]]
    /\ \A d \in Docs, k \in Ops :
          \/ ops'[d][k] = ops[d][k]
          \/ d = asked.doc /\ k = asked.op /\ ops[d][k] = "none" /\ ops'[d][k] = "processing"
    /\ late \subseteq late' /\ late' \subseteq late \cup {<<asked.doc, asked.op>>}

LEMMA RequestEnds ==
  ASSUME RetentionAssumption, MemoryInv, asked # None, asked' = None, RowEnds, OperationEnds,
         UNCHANGED <<said, topic, suppressed, blocks, answered, clean, bank>>,
         losses' \in 0 .. MaxLosses,
         \/ UNCHANGED <<forgets, recall>>
         \/ forgets' = [d \in Docs |-> None] /\ recall' = None
  PROVE  MemoryInv'
<1> DEFINE a == asked.doc
<1>1. /\ TypeOK /\ a \in Docs /\ asked.op \in Ops /\ rows[a] # None
      /\ rows[a].state \in {"pending", "submitted"} /\ a \in 1 .. said /\ a \notin clean /\ a \notin answered
      /\ clean \cup answered \cup withdrawn \subseteq Docs
  BY RequestFacts, SaidFacts
  DEF MemoryInv, RequestOwnsItsRow, Mine, UnsaidIsBlank, ForgottenStaysOut, AnsweredIsGone
<1>2. /\ \A d \in Docs : forgets'[d] # None => forgets[d] # None /\ forgets'[d] = forgets[d]
      /\ forgets' \in [Docs -> Forgetting \cup {None}]
      /\ recall' # None => recall' = recall
      /\ \A d \in Docs : forgets'[d] # None => forgets[d].phase = "draining"
  BY <1>1 DEF MemoryInv, TypeOK, DrainedIsQuiet
<1>3. /\ \A d \in Docs : d # a => (Traced(d)' <=> Traced(d)) /\ (NothingUnderWay(d)' <=> NothingUnderWay(d))
      /\ \A d \in Docs, k \in Ops : ops'[d][k] = "completed" => ops[d][k] = "completed"
  BY DEF OperationEnds, Traced, NothingUnderWay
<1> HIDE DEF a
<1>4. TypeOK'
  <2>1. late' \subseteq Docs \X Ops
    BY <1>1 DEF OperationEnds, TypeOK, a
  <2> QED BY <1>1, <1>2, <2>1 DEF TypeOK, RowEnds, OperationEnds
<1>5. RequestOwnsItsRow' /\ CancelIsWithdrawn' /\ DrainedIsQuiet'
  BY DEF RequestOwnsItsRow, CancelIsWithdrawn, DrainedIsQuiet
<1>6. CancelledIsNotSent'
  <2> SUFFICES ASSUME NEW d \in withdrawn', d \in Docs, rows'[d] # None, rows'[d].state = "pending"
               PROVE  FALSE
    BY DEF CancelledIsNotSent, In
  <2>1. rows'[d] = rows[d] /\ d \in withdrawn /\ (d = a => ~asked.cancel)
    BY DEF RowEnds, a
  <2> QED BY <2>1 DEF MemoryInv, CancelledIsNotSent, In, a
<1>7. ForgottenStaysOut' /\ AnsweredIsGone'
  BY <1>1 DEF MemoryInv, ForgottenStaysOut, AnsweredIsGone, RowEnds, a
<1>8. UnsaidIsBlank'
  BY <1>1, <1>2, <1>3 DEF MemoryInv, UnsaidIsBlank, RowEnds, a
<1>9. DeletingIsMarked'
  BY <1>2 DEF DeletingIsMarked
<1>10. CleanIsQuiet'
  BY <1>1, <1>2, <1>3 DEF MemoryInv, CleanIsQuiet
<1>11. CompletedIsKept'
  BY <1>1, <1>3 DEF MemoryInv, CompletedIsKept, RowEnds, a
<1>12. DroppedIsAccounted'
  BY <1>1, <1>3 DEF MemoryInv, DroppedIsAccounted, CancelIsWithdrawn, RowEnds, a
<1> QED BY <1>4, <1>5, <1>6, <1>7, <1>8, <1>9, <1>10, <1>11, <1>12 DEF MemoryInv

LEMMA RowEndings ==
  ASSUME RetentionAssumption, MemoryInv, asked # None, withdrawn' = withdrawn,
         \/ \E st \in {"submitted", "completed", "blocked"} : To(asked.doc, st)
         \/ asked.cancel /\ Drop
         \/ ~asked.cancel /\ UNCHANGED rows
  PROVE  RowEnds
<1>1. /\ TypeOK /\ asked.doc \in Docs /\ rows[asked.doc] # None
      /\ rows \in [Docs -> Row \cup {None}]
  BY RequestFacts, SaidFacts DEF MemoryInv, RequestOwnsItsRow, Mine
<1>2. CASE \E st \in {"submitted", "completed", "blocked"} : To(asked.doc, st)
  BY <1>1, <1>2, RowMoves DEF RowEnds
<1>3. CASE asked.cancel /\ Drop
  BY <1>1, <1>3 DEF Drop, RowEnds
<1>4. CASE ~asked.cancel /\ UNCHANGED rows
  BY <1>1, <1>4 DEF RowEnds
<1> QED BY <1>2, <1>3, <1>4

LEMMA Lost == ASSUME RetentionAssumption, MemoryInv, Loss \/ UNCHANGED losses PROVE losses' \in 0 .. MaxLosses
  BY DEF RetentionAssumption, MemoryInv, TypeOK, Loss

LEMMA PostKeeps == ASSUME RetentionAssumption, MemoryInv, PostReturns PROVE MemoryInv'
<1>1. /\ asked # None /\ asked' = None
      /\ UNCHANGED <<said, topic, withdrawn, suppressed, blocks, forgets, recall, answered, clean, bank>>
  BY DEF PostReturns, memory
<1>2. RowEnds
  BY <1>1, RowEndings DEF PostReturns, Retryable
<1>3. OperationEnds
  <2>1. TypeOK
    BY DEF MemoryInv
  <2>2. CASE Accepted /\ UNCHANGED late
    BY <1>1, <2>1, <2>2, Accepts DEF OperationEnds
  <2>3. CASE UNCHANGED ops /\ late' \in {late, late \cup {<<asked.doc, asked.op>>}}
    BY <2>1, <2>3 DEF OperationEnds, TypeOK
  <2> QED BY <2>2, <2>3 DEF PostReturns
<1>4. losses' \in 0 .. MaxLosses
  BY Lost DEF PostReturns
<1> QED BY <1>1, <1>2, <1>3, <1>4, RequestEnds

LEMMA PollKeeps == ASSUME RetentionAssumption, MemoryInv, PollReturns PROVE MemoryInv'
<1>1. /\ asked # None /\ ~asked.post /\ asked' = None
      /\ UNCHANGED <<said, topic, withdrawn, suppressed, blocks, forgets, recall, answered, clean>>
      /\ UNCHANGED <<ops, bank, late>>
  BY DEF PollReturns, memory, service
<1>2. ~asked.cancel
  BY <1>1 DEF MemoryInv, CancelIsWithdrawn
<1>3. RowEnds
  BY <1>1, <1>2, RowEndings DEF PollReturns
<1>4. OperationEnds
  BY <1>1 DEF OperationEnds, MemoryInv, TypeOK
<1>5. losses' \in 0 .. MaxLosses
  BY Lost DEF PollReturns
<1> QED BY <1>1, <1>3, <1>4, <1>5, RequestEnds

-----------------------------------------------------------------------------
(* /forget. *)

LEMMA PhaseMoves ==
  ASSUME TypeOK, NEW d \in Docs, NEW p \in Forgetting \cup {None}, Phase(d, p)
  PROVE  /\ forgets' \in [Docs -> Forgetting \cup {None}] /\ forgets'[d] = p
         /\ \A e \in Docs \ {d} : forgets'[e] = forgets[e]
  BY DEF TypeOK, Phase

\* A forget that only waits touches nothing but itself.
LEMMA WaitKeeps ==
  ASSUME RetentionAssumption, MemoryInv, NEW d \in Docs, NEW p \in Forgetting \cup {None},
         Phase(d, p),
         p # None => d \in 1 .. said /\ p.phase # "deleting" /\ (asked # None => p.phase = "draining"),
         UNCHANGED <<queue, suppressed, blocks, recall, answered, clean, service, asked, losses>>
  PROVE  MemoryInv'
<1>1. /\ UNCHANGED <<said, topic, rows, withdrawn, suppressed, blocks, recall, answered, clean>>
      /\ UNCHANGED <<ops, bank, late, asked, losses>>
  BY DEF queue, service
<1>2. TypeOK
  BY DEF MemoryInv
<1>3. /\ forgets' \in [Docs -> Forgetting \cup {None}] /\ forgets'[d] = p
      /\ \A e \in Docs \ {d} : forgets'[e] = forgets[e]
  BY <1>2, PhaseMoves
<1>4. TypeOK' /\ RequestOwnsItsRow' /\ CancelIsWithdrawn'
  BY <1>1, <1>2, <1>3 DEF MemoryInv, TypeOK, RequestOwnsItsRow, Mine, CancelIsWithdrawn
<1>5. CancelledIsNotSent' /\ ForgottenStaysOut' /\ CleanIsQuiet' /\ CompletedIsKept' /\ AnsweredIsGone'
  BY <1>1 DEF MemoryInv, CancelledIsNotSent, In, ForgottenStaysOut, CleanIsQuiet, NothingUnderWay,
     CompletedIsKept, AnsweredIsGone
<1>6. \A e \in Docs : Traced(e)' = Traced(e) /\ NothingUnderWay(e)' = NothingUnderWay(e)
  BY <1>1 DEF Traced, NothingUnderWay
<1>7. UnsaidIsBlank' /\ DroppedIsAccounted' /\ DrainedIsQuiet' /\ DeletingIsMarked'
  BY <1>1, <1>3, <1>6 DEF MemoryInv, UnsaidIsBlank, DroppedIsAccounted, DrainedIsQuiet,
     DeletingIsMarked
<1> QED BY <1>4, <1>5, <1>7 DEF MemoryInv

LEMMA AskedKeeps == ASSUME RetentionAssumption, MemoryInv, NEW d \in Docs, ForgetAsked(d) PROVE MemoryInv'
<1> DEFINE p == [phase |-> "draining", op |-> None, alone |-> FALSE]
<1>1. p \in Forgetting \cup {None} /\ p.phase = "draining"
  BY DEF Forgetting
<1>2. Phase(d, p) /\ d \in 1 .. said
  BY DEF ForgetAsked
<1>3. UNCHANGED <<queue, suppressed, blocks, recall, answered, clean, service, asked, losses>>
  BY DEF ForgetAsked
<1> HIDE DEF p
<1> QED BY <1>1, <1>2, <1>3, WaitKeeps

LEMMA DrainedKeeps == ASSUME RetentionAssumption, MemoryInv, NEW d \in Docs, Drained(d) PROVE MemoryInv'
<1> DEFINE p == [phase |-> "settling", alone |-> FALSE,
                 op |-> IF d \in In({"pending", "submitted"}) THEN rows[d].op ELSE None]
<1>1. p \in Forgetting /\ p.phase = "settling"
  <2>1. d \in In({"pending", "submitted"}) => rows[d].op \in Ops
    BY RowFacts DEF MemoryInv, In
  <2> QED BY <2>1 DEF Forgetting
<1>2. Phase(d, p) /\ asked = None /\ d \in 1 .. said
  BY DEF Drained, MemoryInv, UnsaidIsBlank
<1>3. UNCHANGED <<queue, suppressed, blocks, recall, answered, clean, service, asked, losses>>
  BY DEF Drained
<1> HIDE DEF p
<1> QED BY <1>1, <1>2, <1>3, WaitKeeps

LEMMA BusyKeeps == ASSUME RetentionAssumption, MemoryInv, NEW d \in Docs, Busy(d) PROVE MemoryInv'
  BY WaitKeeps DEF Busy

\* The row is marked and the document suppressed in one step; what is not elsewhere is settled.
LEMMA SuppressKeeps == ASSUME RetentionAssumption, MemoryInv, NEW d \in Docs, Suppress(d) PROVE MemoryInv'
<1> DEFINE p == [forgets[d] EXCEPT !.phase = "deleting", !.alone = ~Elsewhere(d)]
<1>1. /\ UNCHANGED <<said, topic, withdrawn, blocks, recall, answered, clean, ops, bank, late, asked, losses>>
      /\ forgets[d] # None /\ forgets[d].phase = "settling" /\ Settled(d) /\ Phase(d, p)
      /\ suppressed' = suppressed \cup {d}
  BY DEF Suppress, service
<1>2. TypeOK /\ d \in 1 .. said
  BY <1>1 DEF MemoryInv, UnsaidIsBlank
<1>3. asked = None
  BY <1>1 DEF MemoryInv, DrainedIsQuiet
<1>4. p \in Forgetting /\ p # None /\ p.phase = "deleting" /\ (p.alone <=> ~Elsewhere(d))
  <2>1. forgets[d] \in Forgetting
    BY <1>1, <1>2, ForgetFacts
  <2>2. p \in Forgetting /\ p.phase = "deleting" /\ (p.alone <=> ~Elsewhere(d))
    BY <2>1 DEF Forgetting, Elsewhere
  <2> QED BY <2>2 DEF RetentionAssumption
<1> HIDE DEF p
<1>5. /\ forgets' \in [Docs -> Forgetting \cup {None}] /\ forgets'[d] = p
      /\ \A e \in Docs \ {d} : forgets'[e] = forgets[e]
  BY <1>1, <1>2, <1>4, PhaseMoves
<1>6. /\ rows' \in [Docs -> Row \cup {None}] /\ \A e \in Docs \ {d} : rows'[e] = rows[e]
      /\ rows'[d] = None <=> rows[d] = None
      /\ rows'[d] # None => rows'[d].state = "deleting"
  <2>1. CASE rows[d] = None
    BY <1>2, <2>1 DEF Suppress, TypeOK
  <2>2. CASE rows[d] # None
    <3>1. To(d, "deleting")
      BY <2>2 DEF Suppress
    <3> QED BY <1>2, <2>2, <3>1, RowMoves
  <2> QED BY <2>1, <2>2
<1>7. ~Elsewhere(d) => NothingUnderWay(d)
  BY <1>1 DEF Elsewhere, NothingUnderWay, Settled
<1>8. \A e \in Docs : Traced(e)' = Traced(e) /\ NothingUnderWay(e)' = NothingUnderWay(e)
  BY <1>1 DEF Traced, NothingUnderWay
<1>9. TypeOK'
  <2>1. suppressed' \cup bank' \cup withdrawn' \cup answered' \cup clean' \subseteq 1 .. said'
    BY <1>1, <1>2 DEF TypeOK
  <2> QED BY <1>1, <1>2, <1>5, <1>6, <2>1 DEF TypeOK
<1>10. RequestOwnsItsRow' /\ CancelIsWithdrawn' /\ DrainedIsQuiet'
  BY <1>1, <1>3 DEF RequestOwnsItsRow, CancelIsWithdrawn, DrainedIsQuiet
<1>11. CancelledIsNotSent'
  BY <1>1, <1>3, <1>6 DEF MemoryInv, CancelledIsNotSent, In
<1>12. ForgottenStaysOut' /\ CleanIsQuiet' /\ AnsweredIsGone'
  <2>1. clean \cup answered \subseteq Docs
    BY <1>2, SaidFacts
  <2> QED BY <1>1, <1>6, <1>8, <2>1 DEF MemoryInv, ForgottenStaysOut, CleanIsQuiet, AnsweredIsGone
<1>13. UnsaidIsBlank' /\ DroppedIsAccounted'
  BY <1>1, <1>2, <1>5, <1>6, <1>8 DEF MemoryInv, UnsaidIsBlank, DroppedIsAccounted
<1>14. DeletingIsMarked'
  BY <1>4, <1>5, <1>6, <1>7, <1>8 DEF MemoryInv, DeletingIsMarked
<1>15. CompletedIsKept'
  BY <1>1, <1>6 DEF MemoryInv, CompletedIsKept
<1> QED BY <1>9, <1>10, <1>11, <1>12, <1>13, <1>14, <1>15 DEF MemoryInv

LEMMA DeletedKeeps == ASSUME RetentionAssumption, MemoryInv, NEW d \in Docs, Deleted(d) PROVE MemoryInv'
<1>1. /\ UNCHANGED <<said, topic, withdrawn, suppressed, recall, ops, late, asked, losses>>
      /\ forgets[d] # None /\ forgets[d].phase = "deleting" /\ Phase(d, None)
      /\ bank' = bank \ {d} /\ blocks' = {b \in blocks : d \notin b} /\ answered' = answered \cup {d}
      /\ rows' = [rows EXCEPT ![d] = None]
      /\ clean' \in {clean \ {d}, clean \cup {d}}
      /\ d \in clean' => forgets[d].alone /\ (recall # None => d \notin recall)
  BY DEF Deleted
<1>2. TypeOK /\ d \in 1 .. said /\ asked = None /\ forgets[d].alone \in BOOLEAN
  BY <1>1, ForgetFacts DEF MemoryInv, UnsaidIsBlank, DrainedIsQuiet
<1>3. /\ forgets' \in [Docs -> Forgetting \cup {None}] /\ forgets'[d] = None
      /\ \A e \in Docs \ {d} : forgets'[e] = forgets[e]
  BY <1>1, <1>2, PhaseMoves
<1>4. /\ rows' \in [Docs -> Row \cup {None}] /\ \A e \in Docs \ {d} : rows'[e] = rows[e]
      /\ rows'[d] = None
  BY <1>1, <1>2 DEF TypeOK
<1>5. \A e \in Docs : Traced(e)' = Traced(e) /\ NothingUnderWay(e)' = NothingUnderWay(e)
  BY <1>1 DEF Traced, NothingUnderWay
<1>6. clean \cup answered \cup withdrawn \subseteq Docs
  BY <1>2, SaidFacts
<1>7. d \in clean' => NothingUnderWay(d)
  BY <1>1 DEF MemoryInv, DeletingIsMarked
<1>8. TypeOK'
  <2>1. suppressed' \cup bank' \cup withdrawn' \cup answered' \cup clean' \subseteq 1 .. said'
    BY <1>1, <1>2 DEF TypeOK
  <2>2. blocks' \subseteq SUBSET Docs
    BY <1>1, <1>2 DEF TypeOK
  <2> QED BY <1>1, <1>2, <1>3, <1>4, <2>1, <2>2 DEF TypeOK
<1>9. RequestOwnsItsRow' /\ CancelIsWithdrawn' /\ DrainedIsQuiet'
  BY <1>1, <1>2 DEF RequestOwnsItsRow, CancelIsWithdrawn, DrainedIsQuiet
<1>10. CancelledIsNotSent'
  BY <1>1, <1>2, <1>4 DEF MemoryInv, CancelledIsNotSent, In
<1>11. ForgottenStaysOut'
  <2> SUFFICES ASSUME NEW e \in clean' PROVE rows'[e] = None /\ e \notin bank' /\ \A b \in blocks' : e \notin b
    BY DEF ForgottenStaysOut
  <2>1. CASE e = d
    BY <1>1, <1>4, <2>1
  <2>2. CASE e # d
    <3>1. e \in clean
      BY <1>1, <2>2
    <3> QED BY <1>1, <1>4, <1>6, <2>2, <3>1 DEF MemoryInv, ForgottenStaysOut
  <2> QED BY <2>1, <2>2
<1>12. CleanIsQuiet'
  <2> SUFFICES ASSUME NEW e \in clean' PROVE NothingUnderWay(e)' /\ (recall' # None => e \notin recall')
    BY DEF CleanIsQuiet
  <2>1. CASE e = d
    BY <1>1, <1>5, <1>7, <2>1
  <2>2. CASE e # d
    <3>1. e \in clean
      BY <1>1, <2>2
    <3> QED BY <1>1, <1>5, <1>6, <3>1 DEF MemoryInv, CleanIsQuiet
  <2> QED BY <2>1, <2>2
<1>13. UnsaidIsBlank' /\ DroppedIsAccounted' /\ AnsweredIsGone'
  BY <1>1, <1>2, <1>3, <1>4, <1>5, <1>6 DEF MemoryInv, UnsaidIsBlank, DroppedIsAccounted,
     AnsweredIsGone
<1>14. DeletingIsMarked'
  BY <1>3, <1>4, <1>5 DEF MemoryInv, DeletingIsMarked
<1>15. CompletedIsKept'
  BY <1>1, <1>4 DEF MemoryInv, CompletedIsKept
<1> QED BY <1>8, <1>9, <1>10, <1>11, <1>12, <1>13, <1>14, <1>15 DEF MemoryInv

LEMMA FailsKeeps == ASSUME RetentionAssumption, MemoryInv, NEW d \in Docs, DeleteFails(d) PROVE MemoryInv'
<1>1. /\ UNCHANGED <<said, topic, rows, withdrawn, suppressed, blocks, recall, answered, clean, ops, late, asked>>
      /\ forgets[d] # None /\ forgets[d].phase = "deleting" /\ Phase(d, None)
      /\ bank' \in {bank, bank \ {d}} /\ Loss
  BY DEF DeleteFails, queue
<1>2. TypeOK /\ losses' \in 0 .. MaxLosses /\ bank' \subseteq bank
  BY <1>1, Lost DEF MemoryInv
<1>3. /\ forgets' \in [Docs -> Forgetting \cup {None}] /\ forgets'[d] = None
      /\ \A e \in Docs \ {d} : forgets'[e] = forgets[e]
  BY <1>1, <1>2, PhaseMoves
<1>4. TypeOK'
  <2>1. suppressed' \cup bank' \cup withdrawn' \cup answered' \cup clean' \subseteq 1 .. said'
    BY <1>1, <1>2 DEF TypeOK
  <2> QED BY <1>1, <1>2, <1>3, <2>1 DEF TypeOK
<1>5. RequestOwnsItsRow' /\ CancelIsWithdrawn' /\ CancelledIsNotSent' /\ ForgottenStaysOut' /\ CleanIsQuiet'
      /\ AnsweredIsGone'
  BY <1>1 DEF MemoryInv, RequestOwnsItsRow, Mine, CancelIsWithdrawn, CancelledIsNotSent, In,
     ForgottenStaysOut,
     CleanIsQuiet, NothingUnderWay, AnsweredIsGone
<1>6. \A e \in Docs : Traced(e)' = Traced(e) /\ NothingUnderWay(e)' = NothingUnderWay(e)
  BY <1>1 DEF Traced, NothingUnderWay
<1>7. UnsaidIsBlank' /\ DroppedIsAccounted' /\ DrainedIsQuiet' /\ DeletingIsMarked'
  BY <1>1, <1>3, <1>6 DEF MemoryInv, UnsaidIsBlank, DroppedIsAccounted, DrainedIsQuiet,
     DeletingIsMarked
<1>8. CompletedIsKept'
  BY <1>1 DEF MemoryInv, CompletedIsKept, DeletingIsMarked
<1> QED BY <1>4, <1>5, <1>7, <1>8 DEF MemoryInv

LEMMA ForgetKeeps == ASSUME RetentionAssumption, MemoryInv, NEW d \in Docs, Forget(d) PROVE MemoryInv'
  BY AskedKeeps, DrainedKeeps, SuppressKeeps, BusyKeeps, DeletedKeeps, FailsKeeps DEF Forget

-----------------------------------------------------------------------------
(* Recall, the bank and the process. *)

LEMMA RecallKeeps == ASSUME RetentionAssumption, MemoryInv, Recall \/ RecallReturns PROVE MemoryInv'
<1>1. /\ UNCHANGED <<said, topic, rows, withdrawn, suppressed, forgets, answered, clean>>
      /\ UNCHANGED <<ops, bank, late, asked, losses>>
  BY DEF Recall, RecallReturns, queue, service
<1>2. TypeOK /\ bank \subseteq Docs /\ clean \subseteq Docs
  BY SaidFacts DEF MemoryInv
<1>3. /\ blocks' \in {blocks, blocks \cup {recall}} /\ (blocks' # blocks => recall # None)
      /\ recall' # None => recall' \subseteq bank
  BY DEF Recall, RecallReturns
<1>4. TypeOK'
  BY <1>1, <1>2, <1>3 DEF TypeOK
<1>5. RequestOwnsItsRow' /\ CancelledIsNotSent' /\ UnsaidIsBlank' /\ DrainedIsQuiet' /\ CancelIsWithdrawn'
      /\ DeletingIsMarked' /\ CompletedIsKept' /\ DroppedIsAccounted' /\ AnsweredIsGone'
  BY <1>1 DEF MemoryInv, RequestOwnsItsRow, Mine, CancelledIsNotSent, In, UnsaidIsBlank, Traced,
     DrainedIsQuiet,
     CancelIsWithdrawn, DeletingIsMarked, NothingUnderWay, CompletedIsKept, DroppedIsAccounted, AnsweredIsGone
<1>6. ForgottenStaysOut'
  BY <1>1, <1>3 DEF MemoryInv, ForgottenStaysOut, CleanIsQuiet
<1>7. CleanIsQuiet'
  BY <1>1, <1>3 DEF MemoryInv, CleanIsQuiet, NothingUnderWay, ForgottenStaysOut
<1> QED BY <1>4, <1>5, <1>6, <1>7 DEF MemoryInv

\* An operation moves on at the bank, or reaches it late: only what was traced already.
LEMMA BankKeeps ==
  ASSUME RetentionAssumption, MemoryInv, NEW d \in Docs, NEW k \in Ops,
         Process(d, k) \/ LateArrives(d, k)
  PROVE  MemoryInv'
<1>1. /\ UNCHANGED <<said, topic, rows, withdrawn, suppressed, blocks, forgets, recall, answered, clean, asked>>
      /\ losses' \in 0 .. MaxLosses
  <2>1. losses' \in 0 .. MaxLosses
    BY Lost DEF Process, LateArrives
  <2> QED BY <2>1 DEF Process, LateArrives, queue, memory
<1>2. TypeOK /\ clean \subseteq Docs
  BY SaidFacts DEF MemoryInv
<1>3. /\ ops' \in [Docs -> [Ops -> {"none", "processing", "completed", "failed"}]]
      /\ \A e \in Docs, j \in Ops : e # d \/ j # k => ops'[e][j] = ops[e][j]
      /\ late' \subseteq late
      /\ ~NothingUnderWay(d) /\ Traced(d)
      /\ bank' \in {bank, bank \cup {d}}
      /\ ops'[d][k] = "completed" => ops[d][k] = "completed" \/ d \in bank'
      /\ <<d, k>> \in late => <<d, k>> \in late' \/ ops'[d][k] # "none"
  <2>1. CASE Process(d, k)
    BY <1>2, <2>1 DEF Process, TypeOK, NothingUnderWay, Traced
  <2>2. CASE LateArrives(d, k)
    <3>1. /\ <<d, k>> \in late /\ late' = late \ {<<d, k>>} /\ UNCHANGED bank
          /\ ops' = [ops EXCEPT ![d][k] = IF @ = "none" THEN "processing" ELSE @]
      BY <2>2 DEF LateArrives
    <3>2. /\ ops' \in [Docs -> [Ops -> {"none", "processing", "completed", "failed"}]]
          /\ \A e \in Docs, j \in Ops : e # d \/ j # k => ops'[e][j] = ops[e][j]
          /\ ops'[d][k] # "none" /\ (ops'[d][k] = "completed" => ops[d][k] = "completed")
      BY <1>2, <3>1 DEF TypeOK
    <3>3. ~NothingUnderWay(d) /\ Traced(d)
      BY <3>1 DEF NothingUnderWay, Traced
    <3> QED BY <3>1, <3>2, <3>3
  <2> QED BY <2>1, <2>2
<1>4. /\ \A e \in Docs : Traced(e)' => Traced(e)
      /\ \A e \in Docs \ {d} : NothingUnderWay(e) => NothingUnderWay(e)'
  BY <1>3 DEF Traced, NothingUnderWay
<1>5. d \notin clean /\ d \in 1 .. said
  BY <1>3 DEF MemoryInv, CleanIsQuiet, UnsaidIsBlank
<1>6. TypeOK'
  <2>1. suppressed' \cup bank' \cup withdrawn' \cup answered' \cup clean' \subseteq 1 .. said'
    BY <1>1, <1>2, <1>3, <1>5 DEF TypeOK
  <2> QED BY <1>1, <1>2, <1>3, <2>1 DEF TypeOK
<1>7. RequestOwnsItsRow' /\ CancelledIsNotSent' /\ DrainedIsQuiet' /\ CancelIsWithdrawn' /\ AnsweredIsGone'
  BY <1>1 DEF MemoryInv, RequestOwnsItsRow, Mine, CancelledIsNotSent, In, DrainedIsQuiet,
     CancelIsWithdrawn,
     AnsweredIsGone
<1>8. ForgottenStaysOut' /\ CleanIsQuiet'
  BY <1>1, <1>2, <1>3, <1>4, <1>5 DEF MemoryInv, ForgottenStaysOut, CleanIsQuiet
<1>9. UnsaidIsBlank' /\ DroppedIsAccounted'
  BY <1>1, <1>4 DEF MemoryInv, UnsaidIsBlank, DroppedIsAccounted
<1>10. DeletingIsMarked'
  BY <1>1, <1>3, <1>4 DEF MemoryInv, DeletingIsMarked
<1>11. CompletedIsKept'
  BY <1>1, <1>3 DEF MemoryInv, CompletedIsKept
<1> QED BY <1>6, <1>7, <1>8, <1>9, <1>10, <1>11 DEF MemoryInv

\* A crash without a request only forgets the pauses and the recall.
LEMMA QuietCrashKeeps ==
  ASSUME RetentionAssumption, MemoryInv, asked = None, Crash
  PROVE  MemoryInv'
<1>1. /\ UNCHANGED <<said, topic, rows, suppressed, blocks, answered, clean, ops, bank, late>>
      /\ asked' = None /\ recall' = None /\ forgets' = [d \in Docs |-> None] /\ Loss /\ withdrawn' = withdrawn
  BY DEF Crash, Gone
<1>2. TypeOK' 
  <2>1. losses' \in 0 .. MaxLosses
    BY <1>1, Lost
  <2> QED BY <1>1, <2>1 DEF MemoryInv, TypeOK
<1>3. RequestOwnsItsRow' /\ CancelledIsNotSent' /\ DrainedIsQuiet' /\ CancelIsWithdrawn' /\ AnsweredIsGone'
      /\ ForgottenStaysOut' /\ DeletingIsMarked'
  BY <1>1 DEF MemoryInv, RequestOwnsItsRow, CancelledIsNotSent, In, DrainedIsQuiet,
     CancelIsWithdrawn,
     AnsweredIsGone, ForgottenStaysOut, DeletingIsMarked
<1>4. CleanIsQuiet' /\ UnsaidIsBlank' /\ CompletedIsKept' /\ DroppedIsAccounted'
  BY <1>1 DEF MemoryInv, CleanIsQuiet, NothingUnderWay, UnsaidIsBlank, Traced, CompletedIsKept,
     DroppedIsAccounted
<1> QED BY <1>2, <1>3, <1>4 DEF MemoryInv

\* With a request, the row it was made for waits for the next one.
LEMMA BusyCrashKeeps ==
  ASSUME RetentionAssumption, MemoryInv, asked # None, Crash
  PROVE  MemoryInv'
<1>1. /\ UNCHANGED <<said, topic, rows, suppressed, blocks, answered, clean, bank, late>>
      /\ asked' = None /\ recall' = None /\ forgets' = [d \in Docs |-> None]
      /\ Accepted \/ UNCHANGED ops
      /\ losses' \in 0 .. MaxLosses
  BY Lost DEF Crash, Gone
<1>2. TypeOK /\ asked.doc \in Docs
  BY RequestFacts DEF MemoryInv
<1>3. RowEnds
  BY <1>1, <1>2 DEF Crash, RowEnds, TypeOK
<1>4. OperationEnds
  <2>1. CASE Accepted
    BY <1>1, <1>2, <2>1, Accepts DEF OperationEnds
  <2>2. CASE UNCHANGED ops
    BY <1>1, <1>2, <2>2 DEF OperationEnds, TypeOK
  <2> QED BY <1>1, <2>1, <2>2
<1> QED BY <1>1, <1>3, <1>4, RequestEnds

LEMMA DrainStopKeeps == ASSUME RetentionAssumption, MemoryInv, Stop PROVE MemoryInv'
<1>1. /\ UNCHANGED <<said, topic, withdrawn, suppressed, blocks, answered, clean, bank, late>>
      /\ asked # None /\ asked.cancel /\ Drop
      /\ asked' = None /\ recall' = None /\ forgets' = [d \in Docs |-> None]
      /\ Accepted \/ UNCHANGED ops
      /\ losses' \in 0 .. MaxLosses
  BY Lost DEF Stop, Gone
<1>2. RowEnds
  BY <1>1, RowEndings
<1>3. OperationEnds
  <2>1. CASE Accepted
    BY <1>1, <2>1, Accepts DEF OperationEnds, MemoryInv
  <2>2. CASE UNCHANGED ops
    BY <1>1, <2>2 DEF OperationEnds, MemoryInv, TypeOK
  <2> QED BY <1>1, <2>1, <2>2
<1> QED BY <1>1, <1>2, <1>3, RequestEnds

-----------------------------------------------------------------------------
(* The theorems. *)

LEMMA MemoryStarts == ASSUME RetentionAssumption, Init PROVE MemoryInv
<1>1. TypeOK
  <2>1. 0 \in 0 .. MaxDocs /\ 0 \in 0 .. MaxLosses
    BY DEF RetentionAssumption
  <2> QED BY <2>1 DEF Init, TypeOK
<1>2. \A d \in Docs : rows[d] = None /\ forgets[d] = None /\ ~Traced(d)
  BY DEF Init, Traced
<1>3. asked = None /\ clean = {} /\ answered = {} /\ withdrawn = {}
  BY DEF Init
<1> QED BY <1>1, <1>2, <1>3
    DEF MemoryInv, RequestOwnsItsRow, CancelledIsNotSent, ForgottenStaysOut, UnsaidIsBlank, DrainedIsQuiet,
    CancelIsWithdrawn, DeletingIsMarked, CleanIsQuiet, CompletedIsKept, DroppedIsAccounted, AnsweredIsGone

LEMMA MemoryKeeps == ASSUME RetentionAssumption, MemoryInv, [Next]_vars PROVE MemoryInv'
<1>1. CASE UNCHANGED vars
  <2>1. /\ UNCHANGED <<said, topic, rows, withdrawn, suppressed, blocks, forgets, recall, answered, clean>>
        /\ UNCHANGED <<ops, bank, late, asked, losses>>
    BY <1>1 DEF vars, queue, memory, service
  <2> QED BY <2>1 DEF MemoryInv, TypeOK, RequestOwnsItsRow, Mine, CancelledIsNotSent, In,
             ForgottenStaysOut,
     UnsaidIsBlank, Traced, DrainedIsQuiet, CancelIsWithdrawn, DeletingIsMarked, NothingUnderWay,
     CleanIsQuiet, CompletedIsKept, DroppedIsAccounted, AnsweredIsGone
<1>2. CASE Next
  BY <1>2, LandKeeps, ConverseKeeps, UnblockKeeps, TakeKeeps, PostKeeps, PollKeeps, ForgetKeeps,
     RecallKeeps, BankKeeps, QuietCrashKeeps, BusyCrashKeeps, DrainStopKeeps DEF Next
<1> QED BY <1>1, <1>2

\* The inductive invariant holds in every reachable state.
THEOREM RetentionInvariant == RetentionAssumption => (Spec => []MemoryInv)
<1> SUFFICES ASSUME RetentionAssumption PROVE Spec => []MemoryInv
  OBVIOUS
<1>1. Init => MemoryInv
  BY MemoryStarts
<1>2. MemoryInv /\ [Next]_vars => MemoryInv'
  BY MemoryKeeps
<1> QED BY <1>1, <1>2, PTL DEF Spec

\* Beside a delegation and the subagent runs memory takes its own steps or none.
LEMMA MemorySteps == BackgroundSpec => Spec
<1>1. BackgroundInit => Init
  BY DEF BackgroundInit
<1>2. [BackgroundNext]_all => [Next]_vars
  BY DEF BackgroundNext, all
<1> QED BY <1>1, <1>2, PTL DEF BackgroundSpec, Spec

\* What the outbox, the worker and /forget keep (memory/queue.ts, memory/forget.ts): the row
\* of a request is never changed under it, a cancelled exchange waits for no later POST, and
\* a document forgotten while nothing of it was under way elsewhere stays out of the outbox,
\* the recall blocks and the bank.
THEOREM RetentionHolds ==
  /\ RetentionAssumption => (Spec => []RetentionInv)
  /\ BackgroundSpec => []RetentionInv
<1>1. MemoryInv => RetentionInv
  BY DEF MemoryInv, RetentionInv
<1>2. RetentionAssumption => (Spec => []RetentionInv)
  BY <1>1, RetentionInvariant, PTL
<1>3. BackgroundSpec => []RetentionInv
  BY <1>1, <1>2, MemoryAssumption, MemorySteps, PTL
<1> QED BY <1>2, <1>3

-----------------------------------------------------------------------------
(* The promise.  Every step of the outbox, the worker and /forget is a step of *)
(* RetentionPromise, or changes no exchange's fate, no topic and no document.   *)

Fate == [d \in Docs |-> FateOf(d)]
Promised == P!Next \/ UNCHANGED <<topic, Fate, bank>>

LEMMA FateAndRow ==
  ASSUME NEW d \in Docs
  PROVE  /\ rows[d] # None /\ ~(d > said) => FateOf(d) = RowFate[rows[d].state]
         /\ rows'[d] # None /\ ~(d > said') => FateOf(d)' = RowFate[rows'[d].state]
  BY DEF FateOf

LEMMA RowFates ==
  /\ RowFate["pending"] = "owed" /\ RowFate["submitted"] = "sent" /\ RowFate["completed"] = "kept"
  /\ RowFate["blocked"] = "parked" /\ RowFate["dismissed"] = "dismissed" /\ RowFate["deleting"] = "leaving"
  BY DEF RowFate

\* What was said is not unsaid; a row belongs to what was said.
LEMMA SaidAlready ==
  ASSUME RetentionAssumption, MemoryInv, NEW d \in Docs,
         rows[d] # None \/ forgets[d] # None \/ Traced(d)
  PROVE  ~(d > said) /\ d \in 1 .. said
<1>1. d \in 1 .. said /\ said \in Nat
  BY DEF MemoryInv, UnsaidIsBlank, TypeOK
<1> QED BY <1>1

LEMMA FateOfRow ==
  ASSUME RetentionAssumption, MemoryInv, NEW d \in Docs, rows[d] # None
  PROVE  /\ FateOf(d) = RowFate[rows[d].state] /\ ~(d > said)
         /\ rows[d].state \in {"pending", "submitted", "completed", "blocked", "dismissed", "deleting"}
  BY SaidAlready, FateAndRow, RowFacts DEF MemoryInv

LEMMA SameFate ==
  ASSUME NEW d \in Docs, said' = said, rows'[d] = rows[d],
         rows[d] # None \/ ((d \in answered' <=> d \in answered) /\ (d \in withdrawn' <=> d \in withdrawn))
  PROVE  FateOf(d)' = FateOf(d)
  BY DEF FateOf

LEMMA Becomes ==
  ASSUME NEW D \in SUBSET Docs, NEW f, \A d \in D : FateOf(d)' = f,
         \A d \in Docs \ D : FateOf(d)' = FateOf(d)
  PROVE  P!Become(D, f)
  BY DEF P!Become

LEMMA Stutters ==
  ASSUME \A d \in Docs : FateOf(d)' = FateOf(d), UNCHANGED <<topic, bank>>
  PROVE  Promised
  BY DEF Promised, Fate

\* What leaves every row and the histories alone changes no fate.
LEMMA NoFateMoves ==
  ASSUME UNCHANGED <<said, rows, answered, withdrawn>>
  PROVE  \A d \in Docs : FateOf(d)' = FateOf(d)
  BY SameFate

LEMMA MoveStep ==
  ASSUME NEW d \in Docs, UNCHANGED <<topic, bank>>, \A e \in Docs \ {d} : FateOf(e)' = FateOf(e),
         \/ FateOf(d) = "unsaid" /\ topic = "on" /\ FateOf(d)' = "owed"
         \/ FateOf(d) = "unsaid" /\ topic = "off" /\ FateOf(d)' = "refused"
         \/ FateOf(d) = "owed" /\ FateOf(d)' = "sent"
         \/ FateOf(d) = "sent" /\ d \in bank /\ FateOf(d)' = "kept"
         \/ FateOf(d) \in {"owed", "sent"} /\ FateOf(d)' = "parked"
         \/ FateOf(d) \in {"owed", "sent", "kept", "parked", "dismissed"} /\ FateOf(d)' = "leaving"
  PROVE  Promised
<1>1. P!Become({d}, FateOf(d)')
  BY Becomes
<1>2. \A S : FateOf(d) \in S => d \in P!Of(S)
  BY DEF P!Of
<1>3. P!Move(d)
  BY <1>1, <1>2 DEF P!Move
<1> QED BY <1>3 DEF Promised, P!Next

\* Exchanges that wait are dropped.
LEMMA DropStep ==
  ASSUME NEW D \in SUBSET Docs, UNCHANGED bank, \A e \in Docs \ D : FateOf(e)' = FateOf(e),
         \A d \in D : FateOf(d) = "owed" /\ FateOf(d)' = "dropped",
         \/ UNCHANGED topic
         \/ /\ topic # "deleted" /\ topic' \in {"off", "deleted"} /\ topic' # topic
            /\ \A d, e \in Docs \ D : FateOf(d) = "owed" /\ FateOf(e) = "owed" => d = e
  PROVE  Promised
<1>1. P!Become(D, "dropped")
  BY Becomes
<1>2. D \in SUBSET P!Of({"owed"})
  BY DEF P!Of
<1>3. CASE UNCHANGED topic
  BY <1>1, <1>2, <1>3 DEF P!Operator, P!Next, Promised
<1>4. CASE topic' # topic
  <2>1. \A d, e \in P!Of({"owed"}) \ D : d = e
    BY <1>4 DEF P!Of
  <2> QED BY <1>1, <1>2, <1>4, <2>1 DEF P!Shut, P!Next, Promised
<1> QED BY <1>3, <1>4

LEMMA LandPromised == ASSUME RetentionAssumption, MemoryInv, Land PROVE Promised
<1>1. said < MaxDocs /\ said' = said + 1 /\ UNCHANGED <<topic, withdrawn, answered, bank>>
  BY DEF Land, memory, service
<1>2. said \in Nat /\ said' \in Docs /\ MaxDocs \in Nat /\ TypeOK
  BY <1>1 DEF MemoryInv, TypeOK, Docs, RetentionAssumption
<1>3. \A d \in Docs \ {said'} : (d > said' <=> d > said) /\ rows'[d] = rows[d]
  BY <1>1, <1>2 DEF Land, MemoryInv, TypeOK, Docs
<1>4. \A d \in Docs \ {said'} : FateOf(d)' = FateOf(d)
  BY <1>1, <1>3 DEF FateOf
<1>5. said' > said /\ ~(said' > said') /\ rows[said'] = None /\ said' \notin answered /\ said' \notin withdrawn
      /\ said' \notin suppressed
  BY <1>1, <1>2 DEF MemoryInv, UnsaidIsBlank, TypeOK
<1>6. FateOf(said') = "unsaid"
  BY <1>5 DEF FateOf
<1>7. \/ topic = "on" /\ rows'[said'] # None /\ rows'[said'].state = "pending"
      \/ topic = "off" /\ rows'[said'] = None
  <2>1. CASE topic = "on"
    <3>1. rows'[said'] = [state |-> "pending", op |-> 1] /\ 1 \in Ops
      BY <1>2, <1>5, <2>1 DEF Land, TypeOK, RetentionAssumption, Ops
    <3>2. rows'[said'] \in Row
      BY <3>1 DEF Row
    <3> QED BY <2>1, <3>1, <3>2 DEF RetentionAssumption
  <2>2. CASE topic = "off"
    BY <1>5, <2>2 DEF Land
  <2> QED BY <1>2, <2>1, <2>2 DEF Land, TypeOK
<1>8. PICK d \in Docs : d = said'
  BY <1>2
<1>9. \/ topic = "on" /\ FateOf(d)' = "owed"
      \/ topic = "off" /\ FateOf(d)' = "refused"
  <2>1. CASE rows'[d] = None
    BY <1>1, <1>5, <1>7, <1>8, <2>1 DEF FateOf
  <2>2. CASE rows'[d] # None
    BY <1>5, <1>7, <1>8, <2>2, FateAndRow, RowFates
  <2> QED BY <2>1, <2>2
<1>10. FateOf(d) = "unsaid"
  BY <1>6, <1>8
<1>11. \A e \in Docs \ {d} : FateOf(e)' = FateOf(e)
  BY <1>4, <1>8
<1> QED BY <1>1, <1>9, <1>10, <1>11, MoveStep

LEMMA PurgePromised ==
  ASSUME RetentionAssumption, MemoryInv, NEW D \in SUBSET Docs, Purge(D), UNCHANGED <<said, memory,
         service>>,
         \/ UNCHANGED topic
         \/ D = Docs /\ topic # "deleted" /\ topic' \in {"off", "deleted"} /\ topic' # topic
  PROVE  Promised
<1>1. TypeOK /\ RequestOwnsItsRow /\ UNCHANGED <<said, answered, bank>>
  BY DEF MemoryInv, memory, service
<1>2. PICK gone \in SUBSET D : \E held \in SUBSET gone : Purged(D, gone, held)
  BY <1>1, PurgeSteps
<1>3. PICK held \in SUBSET gone : Purged(D, gone, held)
  BY <1>2
<1> USE DEF Purged
<1> DEFINE out == gone \ held
<1>4. out \in SUBSET Docs
  OBVIOUS
<1>5. \A d \in out : FateOf(d) = "owed" /\ FateOf(d)' = "dropped"
  <2> SUFFICES ASSUME NEW d \in out PROVE FateOf(d) = "owed" /\ FateOf(d)' = "dropped"
    OBVIOUS
  <2>1. rows[d] # None /\ rows[d].state = "pending" /\ rows'[d] = None /\ d \in withdrawn' /\ d \in Docs
    BY <1>3
  <2>2. FateOf(d) = "owed" /\ ~(d > said)
    BY <2>1, FateOfRow, RowFates
  <2>3. d \notin answered'
    BY <1>1, <2>1 DEF MemoryInv, AnsweredIsGone
  <2> QED BY <1>1, <2>1, <2>2, <2>3 DEF FateOf
<1>6. \A d \in Docs \ out : FateOf(d)' = FateOf(d)
  <2>1. \A d \in Docs \ out : rows'[d] = rows[d] /\ (rows[d] = None => d \notin gone)
    BY <1>3
  <2> HIDE DEF out
  <2> QED BY <1>1, <1>3, <2>1, SameFate
<1>7. ASSUME D = Docs PROVE \A d, e \in Docs \ out : FateOf(d) = "owed" /\ FateOf(e) = "owed" => d = e
  <2>1. \A d \in Docs : FateOf(d) = "owed" => rows[d] # None /\ rows[d].state = "pending"
    <3> SUFFICES ASSUME NEW d \in Docs, FateOf(d) = "owed" PROVE rows[d] # None /\ rows[d].state = "pending"
      OBVIOUS
    <3>1. rows[d] # None
      BY DEF FateOf
    <3> QED BY <3>1, FateOfRow, RowFates
  <2>2. \A d \in Docs \ out : FateOf(d) = "owed" => d \in held
    BY <1>3, <1>7, <2>1
  <2>3. \A d, e \in held : d = e
    BY <1>3
  <2> QED BY <2>2, <2>3
<1> HIDE DEF out
<1> QED BY <1>1, <1>4, <1>5, <1>6, <1>7, DropStep

LEMMA ConversePromised == ASSUME RetentionAssumption, MemoryInv, Converse PROVE Promised
<1>1. UNCHANGED <<memory, service>>
  BY DEF Converse
<1>2. CASE Exclude \/ Delete
  BY <1>1, <1>2, PurgePromised DEF Exclude, Delete
<1>3. CASE Edit
  <2>1. PICK cut \in 1 .. said : Purge(cut .. MaxDocs) /\ UNCHANGED <<said, topic>>
    BY <1>3 DEF Edit
  <2>2. cut .. MaxDocs \in SUBSET Docs
    <3>1. \A d \in cut .. MaxDocs : d \in 1 .. MaxDocs
      BY DEF MemoryInv, TypeOK, RetentionAssumption
    <3> QED BY <3>1 DEF Docs
  <2> QED BY <1>1, <2>1, <2>2, PurgePromised
<1>4. CASE Include
  <2>1. UNCHANGED <<said, rows, answered, withdrawn, bank>> /\ topic = "off" /\ topic' = "on"
    BY <1>1, <1>4 DEF Include, memory, service
  <2>2. UNCHANGED Fate
    BY <2>1, NoFateMoves DEF Fate
  <2> QED BY <2>1, <2>2 DEF P!Reopen, P!Next, Promised, Fate
<1> QED BY <1>2, <1>3, <1>4 DEF Converse

\* /memory retry and dismiss act on every parked exchange at once.
LEMMA UnblockPromised == ASSUME RetentionAssumption, MemoryInv, RetryBlocked \/ DismissBlocked PROVE Promised
<1>1. UNCHANGED <<said, topic, answered, bank>>
  BY DEF RetryBlocked, DismissBlocked, memory, service
<1>2. Blocked \subseteq Docs /\ \A d \in Docs : d \in Blocked <=> rows[d] # None /\ rows[d].state = "blocked"
  BY DEF In, Blocked
<1>3. P!Of({"parked"}) = Blocked
  <2>1. \A d \in Docs : FateOf(d) = "parked" <=> d \in Blocked
    <3> SUFFICES ASSUME NEW d \in Docs PROVE FateOf(d) = "parked" <=> d \in Blocked
      OBVIOUS
    <3>1. CASE rows[d] = None
      BY <1>2, <3>1 DEF FateOf
    <3>2. CASE rows[d] # None
      BY <1>2, <3>2, FateOfRow, RowFates
    <3> QED BY <3>1, <3>2
  <2> QED BY <1>2, <2>1 DEF P!Of
<1>4. PICK st \in {"pending", "dismissed"} : Unblocked(st)
  BY UnblockSteps
<1> USE DEF Unblocked
<1>5. \A d \in Docs \ Blocked : FateOf(d)' = FateOf(d)
  BY <1>1, <1>4, SameFate
<1>6. \A d \in Blocked : FateOf(d)' = RowFate[st]
  <2> SUFFICES ASSUME NEW d \in Blocked PROVE FateOf(d)' = RowFate[st]
    OBVIOUS
  <2>1. ~(d > said') /\ d \in Docs
    BY <1>1, <1>2, FateOfRow
  <2> QED BY <1>4, <2>1, FateAndRow
<1>7. P!Become(Blocked, RowFate[st])
  BY <1>2, <1>5, <1>6, Becomes
<1>8. RowFate[st] \in {"owed", "dismissed"}
  BY RowFates
<1> QED BY <1>1, <1>3, <1>7, <1>8 DEF P!Operator, P!Retry, P!Next, Promised

\* The row of the request is followed, parked, dropped or left.
LEMMA RequestPromised ==
  ASSUME RetentionAssumption, MemoryInv, asked # None, UNCHANGED <<said, topic, answered, bank>>, RowEnds,
         rows'[asked.doc] # None /\ rows'[asked.doc] # rows[asked.doc] =>
             \/ rows'[asked.doc].state = "submitted" /\ asked.post
             \/ rows'[asked.doc].state = "completed" /\ ~asked.post /\ asked.doc \in bank
             \/ rows'[asked.doc].state = "blocked"
  PROVE  Promised
<1>1. /\ asked.doc \in Docs /\ rows[asked.doc] # None
      /\ rows[asked.doc].state = IF asked.post THEN "pending" ELSE "submitted"
      /\ TypeOK
  BY RequestFacts DEF MemoryInv, RequestOwnsItsRow, Mine
<1>2. PICK d \in Docs : d = asked.doc
  BY <1>1
<1>3. FateOf(d) = (IF asked.post THEN "owed" ELSE "sent") /\ ~(d > said')
  BY <1>1, <1>2, FateOfRow, RowFates
<1>4. \A e \in Docs \ {d} : FateOf(e)' = FateOf(e)
  <2>1. \A e \in Docs \ {d} : rows'[e] = rows[e] /\ (e \in withdrawn' <=> e \in withdrawn)
    BY <1>2 DEF RowEnds
  <2> QED BY <2>1, SameFate
<1>5. CASE rows'[d] = rows[d]
  <2>1. FateOf(d)' = FateOf(d)
    BY <1>1, <1>2, <1>5, SameFate
  <2> QED BY <1>4, <2>1, Stutters
<1>6. CASE rows'[d] = None
  <2>1. asked.post /\ d \in withdrawn' /\ d \notin answered'
    BY <1>1, <1>2, <1>6 DEF RowEnds, MemoryInv, CancelIsWithdrawn, AnsweredIsGone
  <2>2. FateOf(d)' = "dropped"
    BY <1>3, <1>6, <2>1 DEF FateOf
  <2> QED BY <1>3, <1>4, <2>1, <2>2, DropStep
<1>7. CASE rows'[d] # None /\ rows'[d] # rows[d]
  <2>1. FateOf(d)' = RowFate[rows'[d].state]
    BY <1>3, <1>7, FateAndRow
  <2> QED BY <1>2, <1>3, <1>4, <1>7, <2>1, RowFates, MoveStep
<1> QED BY <1>5, <1>6, <1>7

LEMMA PostPromised == ASSUME RetentionAssumption, MemoryInv, PostReturns PROVE Promised
<1>1. /\ asked # None /\ asked.post /\ UNCHANGED <<said, topic, answered, bank, withdrawn>>
      /\ \/ To(asked.doc, "submitted") \/ To(asked.doc, "blocked")
         \/ (asked.cancel /\ Drop) \/ (~asked.cancel /\ UNCHANGED rows)
  BY DEF PostReturns, Retryable, memory
<1>2. RowEnds
  BY <1>1, RowEndings
<1>3. rows[asked.doc] # None /\ asked.doc \in Docs /\ TypeOK /\ rows \in [Docs -> Row \cup {None}]
  BY <1>1, RequestFacts, SaidFacts DEF MemoryInv, RequestOwnsItsRow, Mine
<1>4. rows'[asked.doc] # None /\ rows'[asked.doc] # rows[asked.doc] => rows'[asked.doc].state \in {"submitted", "blocked"}
  <2>1. CASE To(asked.doc, "submitted") \/ To(asked.doc, "blocked")
    BY <1>3, <2>1, RowMoves
  <2>2. CASE Drop
    BY <1>3, <2>2 DEF Drop
  <2> QED BY <1>1, <2>1, <2>2
<1> QED BY <1>1, <1>2, <1>4, RequestPromised

LEMMA PollPromised == ASSUME RetentionAssumption, MemoryInv, PollReturns PROVE Promised
<1>1. /\ asked # None /\ ~asked.post /\ UNCHANGED <<said, topic, answered, bank, withdrawn>>
      /\ \/ ops[asked.doc][asked.op] = "completed" /\ To(asked.doc, "completed")
         \/ To(asked.doc, "blocked") \/ UNCHANGED rows
  BY DEF PollReturns, memory, service
<1>2. ~asked.cancel
  BY <1>1 DEF MemoryInv, CancelIsWithdrawn
<1>3. RowEnds
  BY <1>1, <1>2, RowEndings
<1>4. /\ rows[asked.doc] # None /\ rows[asked.doc].state = "submitted"
      /\ asked.doc \in Docs /\ asked.op \in Ops /\ TypeOK
  BY <1>1, RequestFacts DEF MemoryInv, RequestOwnsItsRow, Mine
<1>5. CASE ops[asked.doc][asked.op] = "completed" /\ To(asked.doc, "completed")
  <2>1. asked.doc \in bank
    BY <1>4, <1>5 DEF MemoryInv, CompletedIsKept
  <2>2. rows'[asked.doc].state = "completed"
    BY <1>4, <1>5, RowMoves
  <2> QED BY <1>1, <1>3, <2>1, <2>2, RequestPromised
<1>6. CASE To(asked.doc, "blocked")
  <2>1. rows'[asked.doc].state = "blocked"
    BY <1>4, <1>6, RowMoves
  <2> QED BY <1>1, <1>3, <2>1, RequestPromised
<1>7. CASE UNCHANGED rows
  BY <1>1, <1>3, <1>7, RequestPromised
<1> QED BY <1>1, <1>5, <1>6, <1>7

LEMMA SuppressPromised == ASSUME RetentionAssumption, MemoryInv, NEW d \in Docs, Suppress(d) PROVE Promised
<1>1. UNCHANGED <<said, topic, answered, withdrawn, bank>> /\ TypeOK
  BY DEF Suppress, service, MemoryInv
<1>2. CASE rows[d] = None
  BY <1>1, <1>2, NoFateMoves, Stutters DEF Suppress
<1>3. CASE rows[d] # None
  <2>1. To(d, "deleting")
    BY <1>3 DEF Suppress
  <2>2. rows'[d] # None /\ rows'[d].state = "deleting" /\ \A e \in Docs \ {d} : rows'[e] = rows[e]
    BY <1>1, <1>3, <2>1, RowMoves
  <2>3. \A e \in Docs \ {d} : FateOf(e)' = FateOf(e)
    BY <1>1, <2>2, SameFate
  <2>4. FateOf(d) = RowFate[rows[d].state] /\ ~(d > said')
    BY <1>1, <1>3, FateOfRow
  <2>5. FateOf(d)' = "leaving"
    BY <2>2, <2>4, FateAndRow, RowFates
  <2>6. FateOf(d) \in {"owed", "sent", "kept", "parked", "dismissed", "leaving"}
    BY <1>3, <2>4, FateOfRow, RowFates
  <2>7. CASE FateOf(d) = "leaving"
    BY <1>1, <2>3, <2>5, <2>7, Stutters
  <2>8. CASE FateOf(d) # "leaving"
    BY <1>1, <2>3, <2>5, <2>6, <2>8, MoveStep
  <2> QED BY <2>7, <2>8
<1> QED BY <1>2, <1>3

LEMMA DeletedPromised == ASSUME RetentionAssumption, MemoryInv, NEW d \in Docs, Deleted(d) PROVE Promised
<1>1. /\ UNCHANGED <<said, topic, withdrawn>> /\ bank' = bank \ {d} /\ answered' = answered \cup {d}
      /\ forgets[d] # None /\ forgets[d].phase = "deleting" /\ rows' = [rows EXCEPT ![d] = None]
  BY DEF Deleted
<1>2. ~(d > said) /\ rows \in [Docs -> Row \cup {None}]
  BY <1>1, SaidAlready, SaidFacts DEF MemoryInv
<1>3. FateOf(d) \in {"refused", "dropped", "leaving", "forgotten"}
  <2>1. CASE rows[d] = None
    BY <1>2, <2>1 DEF FateOf
  <2>2. CASE rows[d] # None
    <3>1. rows[d].state = "deleting"
      BY <1>1, <2>2 DEF MemoryInv, DeletingIsMarked
    <3> QED BY <2>2, <3>1, FateOfRow, RowFates
  <2> QED BY <2>1, <2>2
<1>4. FateOf(d)' = "forgotten"
  BY <1>1, <1>2 DEF FateOf
<1>5. \A e \in Docs \ {d} : FateOf(e)' = FateOf(e)
  <2>1. \A e \in Docs \ {d} : rows'[e] = rows[e]
    BY <1>1, <1>2
  <2> QED BY <1>1, <2>1, SameFate
<1>6. P!Become({d}, "forgotten")
  BY <1>4, <1>5, Becomes
<1>7. P!Forget(d)
  BY <1>1, <1>3, <1>6 DEF P!Forget, P!Of
<1> QED BY <1>1, <1>7 DEF P!Next, Promised

LEMMA ForgetPromised == ASSUME RetentionAssumption, MemoryInv, NEW d \in Docs, Forget(d) PROVE Promised
<1>1. CASE ForgetAsked(d) \/ Drained(d) \/ Busy(d)
  <2>1. UNCHANGED <<said, topic, rows, answered, withdrawn, bank>>
    BY <1>1 DEF ForgetAsked, Drained, Busy, queue, service
  <2> QED BY <2>1, NoFateMoves, Stutters
<1>2. CASE DeleteFails(d)
  <2>1. UNCHANGED <<said, topic, rows, answered, withdrawn>> /\ bank' \in {bank, bank \ {d}}
    BY <1>2 DEF DeleteFails, queue
  <2>2. UNCHANGED Fate
    BY <2>1, NoFateMoves DEF Fate
  <2> QED BY <2>1, <2>2 DEF P!Next, Promised, Fate
<1> QED BY <1>1, <1>2, SuppressPromised, DeletedPromised DEF Forget

\* The bank takes a document in only when it was sent.
LEMMA BankPromised ==
  ASSUME RetentionAssumption, MemoryInv, NEW d \in Docs, NEW k \in Ops,
         Process(d, k) \/ LateArrives(d, k)
  PROVE  Promised
<1>1. UNCHANGED <<said, topic, rows, answered, withdrawn>> /\ bank' \in {bank, bank \cup {d}}
  BY DEF Process, LateArrives, queue, memory
<1>2. UNCHANGED Fate
  BY <1>1, NoFateMoves DEF Fate
<1>3. CASE bank' = bank
  BY <1>1, <1>2, <1>3 DEF Promised
<1>4. CASE bank' # bank
  <2>1. Traced(d)
    BY <1>4 DEF Process, LateArrives, Traced
  <2>2. ~(d > said)
    BY <2>1, SaidAlready
  <2>3. FateOf(d) \notin {"unsaid", "refused"}
    <3>1. CASE rows[d] = None
      BY <2>1, <2>2, <3>1 DEF MemoryInv, DroppedIsAccounted, FateOf
    <3>2. CASE rows[d] # None
      BY <3>2, FateOfRow, RowFates
    <3> QED BY <3>1, <3>2
  <2>4. P!Arrive(d)
    BY <1>1, <1>2, <1>4, <2>3 DEF P!Arrive, P!Of, Fate
  <2> QED BY <1>1, <2>4 DEF P!Next, Promised
<1> QED BY <1>3, <1>4

LEMMA CrashPromised == ASSUME RetentionAssumption, MemoryInv, Crash PROVE Promised
<1>1. /\ UNCHANGED <<said, topic, rows, answered, bank>>
      /\ \A d \in Docs : (d \in withdrawn' <=> d \in withdrawn) \/ (asked # None /\ d = asked.doc)
  BY DEF Crash, Gone
<1>2. asked # None => rows[asked.doc] # None
  BY DEF MemoryInv, RequestOwnsItsRow, Mine
<1>3. \A d \in Docs : FateOf(d)' = FateOf(d)
  BY <1>1, <1>2, SameFate
<1> QED BY <1>1, <1>3, Stutters

LEMMA StopPromised == ASSUME RetentionAssumption, MemoryInv, Stop PROVE Promised
<1>1. /\ asked # None /\ asked.cancel /\ Drop /\ UNCHANGED <<said, topic, answered, bank, withdrawn>>
  BY DEF Stop, Gone
<1>2. RowEnds
  BY <1>1, RowEndings
<1>3. rows'[asked.doc] = None
  BY <1>1, RequestFacts, SaidFacts DEF Drop, MemoryInv
<1> QED BY <1>1, <1>2, <1>3, RequestPromised

LEMMA NextPromised == ASSUME RetentionAssumption, MemoryInv, [Next]_vars PROVE Promised
<1>1. CASE UNCHANGED vars \/ Take \/ Recall \/ RecallReturns
  <2>1. UNCHANGED <<said, topic, rows, answered, withdrawn, bank>>
    BY <1>1 DEF vars, Take, Recall, RecallReturns, queue, memory, service
  <2> QED BY <2>1, NoFateMoves, Stutters
<1>2. CASE Next
  BY <1>1, <1>2, LandPromised, ConversePromised, UnblockPromised, PostPromised, PollPromised,
     ForgetPromised, BankPromised, CrashPromised, StopPromised DEF Next
<1> QED BY <1>1, <1>2

\* The outbox, its worker and /forget implement the promise of RetentionPromise: whatever
\* the interleaving of requests, crashes and cancellations, an exchange that was accepted is
\* followed until it is kept or parked in sight, what is owed when its topic is turned off is
\* dropped but for one request under way, nothing but the operator's retry owes anything while it
\* is off, and what is forgotten owes nothing again (memory/queue.ts, memory/forget.ts).
THEOREM RetentionKeepsThePromise ==
  /\ RetentionAssumption => (Spec => KeepsThePromise)
  /\ BackgroundSpec => KeepsThePromise
<1>1. Init => P!Init
  <2> SUFFICES ASSUME Init PROVE P!Init
    OBVIOUS
  <2>1. \A d \in Docs : d > said
    BY DEF Init, Docs
  <2> QED BY <2>1 DEF Init, P!Init, FateOf
<1>2. RetentionAssumption /\ MemoryInv /\ [Next]_vars => [P!Next]_<<topic, Fate, bank>>
  BY NextPromised DEF Promised
<1>3. RetentionAssumption /\ MemoryInv /\ [Next]_vars => [P!Next]_<<topic, [d \in Docs |-> FateOf(d)], bank>>
  BY <1>2 DEF Fate
<1>4. RetentionAssumption => (Spec => KeepsThePromise)
  <2> SUFFICES ASSUME RetentionAssumption PROVE Spec => KeepsThePromise
    OBVIOUS
  <2> QED BY <1>1, <1>3, RetentionInvariant, PTL DEF Spec, KeepsThePromise, P!Spec
<1>5. BackgroundSpec => KeepsThePromise
  BY <1>4, MemoryAssumption, MemorySteps, PTL
<1> QED BY <1>4, <1>5

-----------------------------------------------------------------------------
(* A delegation: the inductive invariant. *)

\* A completion past the baseline is of the prompt, or of a later one.
Sound(shown, finished, base, at) ==
    base # None /\ shown # None => (shown.comp # None => (shown.comp > base => at <= finished))

\* The agent completes nothing it has not shown.
SeqCovers == Agent!Alive => (agent.comp # None => agent.comp <= agent.seq)

\* A launch is under way, not only the close it ends with.
LaunchOn == launch \in Agent!Launches \ {"closing"}

\* Before the row there is nothing; before the workspace no agent.
NothingYet ==
    /\ row = None => ~Agent!Alive /\ ~space /\ <<launch, send, stop, scan>> = <<None, None, None, None>>
    /\ row # None /\ ~row.bound => ~Agent!Alive

\* A launch has the row to itself: only a stop comes between.
LaunchOwns ==
    LaunchOn => /\ row # None /\ row.status \in {"starting", "stopped"} /\ booted
                /\ send = None /\ scan = None /\ (launch = "workspace" <=> ~row.bound)
                /\ launch = "baseline" => prompts <= took

\* While the task of the launch is owed no follow-up is sent.
OwedIsAlone == row # None /\ row.owed => send = None

\* A prompt recorded was taken, and its baseline is sound.
RowSound == row # None => row.at <= took /\ Sound(agent, fin, row.base, row.at)

SendSound ==
    send # None => /\ send.kept <= fin /\ send.at <= prompts
                   /\ send.phase = "prompt" => took <= send.at
                   /\ send.phase = "baseline" => send.at <= took

ScanSound ==
    scan # None =>
        /\ scan.snap.at <= took
        /\ scan.phase \in {"look", "tell", "deliver"} =>
              /\ Sound(agent, fin, scan.snap.base, scan.snap.at) /\ Sound(agent, fin, scan.tell.base, scan.snap.at)
              /\ scan.snap.status \in {"running", "needs_input"}
              /\ scan.snap.owed => row.owed
        /\ scan.phase = "tell" =>
              /\ scan.tell.to # None
              /\ scan.tell.to = "done" => scan.snap.at <= fin \/ scan.snap.at \in guessed
              /\ scan.tell.to = "failed" => ~Agent!Alive
        /\ scan.phase = "deliver" => scan.snap.owed
        /\ scan.phase \in {"recover", "recovered"} => scan.snap.status = "starting"
        /\ scan.phase = "recover" => (~scan.snap.bound => ~row.bound)
        /\ scan.phase = "recovered" => ~Agent!Alive \/ leaked

\* What is over leaves an agent only to a close that is under way or failed.
OverIsQuiet ==
    row # None /\ row.status \in {"stopped", "failed"} =>
        \/ leaked
        \/ ~Agent!Alive /\ (row.status = "stopped" /\ launch = "start" => ~space)
        \/ row.status = "failed" /\ launch = "closing"

\* A stop that looks whether its failed close left something.
CheckLeaked == stop = "check" => leaked

IInv ==
    /\ Agent!TypeOK /\ SeqCovers /\ NothingYet /\ LaunchOwns /\ OwedIsAlone /\ RowSound /\ SendSound /\ ScanSound
    /\ OverIsQuiet /\ CheckLeaked /\ Agent!DoneWasDone /\ Agent!VerdictWasTold

-----------------------------------------------------------------------------
(* What the variables hold, and what an action makes of a row. *)

LEMMA Facts ==
  ASSUME Agent!DelegationAssumption, Agent!TypeOK
  PROVE  /\ row # None => row \in Agent!Row
         /\ agent # None => agent \in Agent!Shown
         /\ send # None => send \in Agent!Sending
         /\ scan # None => scan \in Agent!Scan
         /\ launch # None => launch \in Agent!Launches
         /\ {aged, took, fin, report, prompts} \subseteq Nat /\ report <= fin /\ fin <= took /\ took <= prompts
  BY DEF Agent!DelegationAssumption, Agent!TypeOK

LEMMA Marked ==
  ASSUME Agent!DelegationAssumption, Agent!TypeOK, row # None, NEW base \in Nat \cup {None},
         NEW at \in Nat,
         Agent!MarkRunning(base, at)
  PROVE  /\ row' \in Agent!Row /\ row' # None /\ row'.bound = row.bound
         /\ \/ row.status = "stopped" /\ row' = row
            \/ /\ row.status # "stopped" /\ row'.status = "running" /\ row'.base = base /\ row'.at = at
               /\ ~row'.owed
<1> DEFINE new == [row EXCEPT !.status = "running", !.base = base, !.at = at, !.owed = FALSE]
<1>1. row \in Agent!Row
  BY Facts
<1>2. /\ new \in Agent!Row /\ new.bound = row.bound /\ new.status = "running" /\ new.base = base /\ new.at = at
      /\ ~new.owed
  BY <1>1 DEF Agent!Row, Agent!Statuses
<1>3. row' = IF row.status = "stopped" THEN row ELSE new
  BY DEF Agent!MarkRunning, Agent!Stopped
<1> HIDE DEF new
<1> QED BY <1>1, <1>2, <1>3 DEF Agent!DelegationAssumption

LEMMA Rewritten ==
  ASSUME Agent!DelegationAssumption, Agent!TypeOK, row # None, NEW st \in Agent!Statuses,
         NEW base \in Nat \cup {None}
  PROVE  /\ LET new == [row EXCEPT !.status = st]
            IN  /\ new \in Agent!Row /\ new # None /\ new.status = st /\ new.bound = row.bound /\ new.base = row.base
                /\ new.at = row.at /\ new.owed = row.owed
         /\ LET new == [row EXCEPT !.base = base]
            IN  /\ new \in Agent!Row /\ new # None /\ new.status = row.status /\ new.bound = row.bound
                /\ new.base = base /\ new.at = row.at /\ new.owed = row.owed
         /\ LET new == [row EXCEPT !.status = st, !.base = base]
            IN  /\ new \in Agent!Row /\ new # None /\ new.status = st /\ new.bound = row.bound
                /\ new.base = base /\ new.at = row.at /\ new.owed = row.owed
<1>1. row \in Agent!Row
  BY Facts
<1>2. /\ [row EXCEPT !.status = st] \in Agent!Row /\ [row EXCEPT !.base = base] \in Agent!Row
      /\ [row EXCEPT !.status = st, !.base = base] \in Agent!Row
  BY <1>1 DEF Agent!Row
<1> QED BY <1>1, <1>2 DEF Agent!Row, Agent!DelegationAssumption

\* A write of the watcher lands over the row it read, or not at all.
LEMMA Transitions ==
  ASSUME Agent!DelegationAssumption, Agent!TypeOK, row # None, NEW snap, NEW to \in Agent!Statuses,
         NEW base \in Nat \cup {None},
         Agent!Transition(snap, to, base)
  PROVE  /\ row' \in Agent!Row /\ row' # None /\ row'.bound = row.bound /\ row'.at = row.at /\ row'.owed = row.owed
         /\ \/ row' = row
            \/ /\ row.status = snap.status /\ row.at = snap.at /\ row'.status = to
               /\ row'.base = IF base = None THEN row.base ELSE base
<1> DEFINE b == IF base = None THEN row.base ELSE base
<1>1. row \in Agent!Row /\ row.base \in Nat \cup {None}
  BY Facts DEF Agent!Row
<1>2. b \in Nat \cup {None}
  BY <1>1
<1>3. row' = IF Agent!Same(snap) THEN [row EXCEPT !.status = to, !.base = b] ELSE row
  BY DEF Agent!Transition
<1> HIDE DEF b
<1>4. CASE Agent!Same(snap)
  <2> DEFINE new == [row EXCEPT !.status = to, !.base = b]
  <2>1. /\ new \in Agent!Row /\ new # None /\ new.status = to /\ new.bound = row.bound
        /\ new.base = b /\ new.at = row.at /\ new.owed = row.owed
    BY <1>1, <1>2 DEF Agent!Row, Agent!DelegationAssumption
  <2>2. row' = new
    BY <1>3, <1>4
  <2> HIDE DEF new
  <2> QED BY <1>4, <2>1, <2>2 DEF Agent!Same, b
<1>5. CASE ~Agent!Same(snap)
  BY <1>1, <1>3, <1>5
<1> QED BY <1>4, <1>5

-----------------------------------------------------------------------------
(* The agent. *)

\* Whatever the agent does, a sound baseline stays sound.
HostMoves ==
    /\ agent' \in Agent!Shown \cup {None} /\ SeqCovers'
    /\ fin' \in Nat /\ took' \in Nat /\ fin <= fin' /\ fin' <= took'
    /\ \A base \in Nat \cup {None}, at \in Nat :
          at <= took /\ Sound(agent, fin, base, at) => Sound(agent', fin', base, at)

\* A dialog or a new prompt moves the seq and completes nothing.
LEMMA Shows ==
  ASSUME Agent!DelegationAssumption, Agent!TypeOK, SeqCovers, Agent!Alive,
         NEW status \in {"idle", "working", "blocked", "done"},
         NEW seq \in Nat, seq >= agent.seq, agent' = [agent EXCEPT !.status = status, !.seq = seq],
         UNCHANGED fin, took' \in Nat, took' >= fin
  PROVE  HostMoves /\ Agent!Alive'
<1>1. agent \in Agent!Shown
  BY Facts DEF Agent!Alive
<1> DEFINE new == [agent EXCEPT !.status = status, !.seq = seq]
<1>2. new \in Agent!Shown /\ new.comp = agent.comp /\ new.seq = seq
  BY <1>1 DEF Agent!Shown
<1>3. agent' = new
  OBVIOUS
<1> HIDE DEF new
<1>4. SeqCovers'
  <2>1. agent.seq \in Nat /\ agent.comp \in Nat \cup {None}
    BY <1>1 DEF Agent!Shown
  <2> QED BY <1>2, <1>3, <2>1 DEF SeqCovers, Agent!Alive, Agent!DelegationAssumption
<1>5. agent' \in Agent!Shown /\ agent' # None
  BY <1>2, <1>3 DEF Agent!DelegationAssumption
<1>6. \A base \in Nat \cup {None}, at \in Nat : Sound(agent, fin, base, at) => Sound(agent', fin', base, at)
  BY <1>2, <1>3 DEF Sound, Agent!Alive
<1> QED BY <1>4, <1>5, <1>6, Facts DEF HostMoves, Agent!Alive

LEMMA AgentGone ==
  ASSUME Agent!DelegationAssumption, Agent!TypeOK, agent' = None, UNCHANGED <<took, fin>>
  PROVE  HostMoves
  BY Facts DEF HostMoves, SeqCovers, Agent!Alive, Sound

LEMMA Still ==
  ASSUME Agent!DelegationAssumption, Agent!TypeOK, SeqCovers, UNCHANGED <<agent, took, fin>>
  PROVE  HostMoves
<1>1. agent \in Agent!Shown \cup {None} /\ SeqCovers'
  BY DEF Agent!TypeOK, SeqCovers, Agent!Alive
<1> QED BY <1>1, Facts DEF HostMoves

LEMMA StartsUp ==
  ASSUME Agent!DelegationAssumption, Agent!TypeOK, NEW status \in {"idle", "blocked"},
         Agent!Started(status), UNCHANGED <<took, fin>>
  PROVE  HostMoves /\ agent' # None /\ agent'.seq = 1 /\ agent'.comp = None
<1>1. agent' \in Agent!Shown /\ agent'.seq = 1 /\ agent'.comp = None
  BY DEF Agent!Started, Agent!Shown
<1>2. SeqCovers' /\ agent' # None
  BY <1>1 DEF SeqCovers, Agent!DelegationAssumption
<1> QED BY <1>1, <1>2, Facts DEF HostMoves, Sound

LEMMA PromptMoves ==
  ASSUME Agent!DelegationAssumption, Agent!TypeOK, SeqCovers, NEW at \in Nat, took <= at,
         Agent!Prompted(at), UNCHANGED fin
  PROVE  HostMoves /\ took' = at /\ Agent!Alive /\ Agent!Alive'
<1>1. Agent!Alive /\ agent \in Agent!Shown /\ agent.seq \in Nat
  BY Facts DEF Agent!Prompted, Agent!CanTake, Agent!Alive, Agent!Shown
<1> DEFINE seq == IF agent.status = "working" THEN agent.seq ELSE agent.seq + 1
<1>2. agent' = [agent EXCEPT !.status = "working", !.seq = seq] /\ took' = at
  BY DEF Agent!Prompted, Agent!Takes
<1>3. seq \in Nat /\ seq >= agent.seq
  BY <1>1
<1> HIDE DEF seq
<1>4. took' \in Nat /\ took' >= fin
  BY <1>2, Facts
<1> QED BY <1>1, <1>2, <1>3, <1>4, Shows

-----------------------------------------------------------------------------
(* What is not written is carried over. *)

LEMMA RowCarried ==
  ASSUME Agent!DelegationAssumption, Agent!TypeOK, RowSound, HostMoves, took <= took', row' = row
  PROVE  RowSound'
<1> SUFFICES ASSUME row # None PROVE row.at <= took' /\ Sound(agent', fin', row.base, row.at)
  BY DEF RowSound
<1>1. row.base \in Nat \cup {None} /\ row.at \in Nat /\ took \in Nat /\ took' \in Nat
  BY Facts DEF Agent!Row, HostMoves
<1>2. row.at <= took /\ Sound(agent, fin, row.base, row.at)
  BY DEF RowSound
<1>3. Sound(agent', fin', row.base, row.at)
  BY <1>1, <1>2 DEF HostMoves
<1> QED BY <1>1, <1>2, <1>3

LEMMA SendCarried ==
  ASSUME Agent!DelegationAssumption, Agent!TypeOK, SendSound, HostMoves, send' = send, took' = took,
         prompts <= prompts', prompts' \in Nat
  PROVE  SendSound'
<1>1. send # None => send.kept \in Nat /\ send.at \in Nat
  BY Facts DEF Agent!Sending
<1> QED BY <1>1, Facts DEF SendSound, HostMoves

LEMMA ScanCarried ==
  ASSUME Agent!DelegationAssumption, Agent!TypeOK, ScanSound, HostMoves, took <= took',
         scan' = scan, guessed' = guessed, leaked => leaked',
         scan # None => /\ Agent!Alive' => Agent!Alive
                        /\ scan.snap.owed /\ row.owed => row'.owed
                        /\ ~row.bound => ~row'.bound
  PROVE  ScanSound'
<1>1. scan # None => /\ scan.snap.base \in Nat \cup {None} /\ scan.tell.base \in Nat \cup {None}
                     /\ scan.snap.at \in Nat
  BY Facts DEF Agent!Scan, Agent!Row, Agent!Telling
<1>2. scan # None => scan.snap.at <= took /\ took \in Nat /\ took' \in Nat /\ fin \in Nat /\ fin' \in Nat /\ fin <= fin'
  BY Facts DEF ScanSound, HostMoves
<1>3. scan # None => scan.snap.at <= took'
  BY <1>1, <1>2
<1>4. scan # None /\ scan.phase \in {"look", "tell", "deliver"} =>
        /\ Sound(agent', fin', scan.snap.base, scan.snap.at) /\ Sound(agent', fin', scan.tell.base, scan.snap.at)
        /\ scan.snap.status \in {"running", "needs_input"}
        /\ scan.snap.owed => row'.owed
  BY <1>1, <1>2 DEF ScanSound, HostMoves
<1>5. scan # None /\ scan.phase = "tell" =>
        /\ scan.tell.to # None
        /\ scan.tell.to = "done" => scan.snap.at <= fin' \/ scan.snap.at \in guessed'
        /\ scan.tell.to = "failed" => ~Agent!Alive'
  BY <1>1, <1>2 DEF ScanSound
<1>6. scan # None /\ scan.phase = "recovered" => ~Agent!Alive' \/ leaked'
  BY DEF ScanSound
<1>7. scan # None => /\ scan.phase = "deliver" => scan.snap.owed
                     /\ scan.phase \in {"recover", "recovered"} => scan.snap.status = "starting"
                     /\ scan.phase = "recover" => (~scan.snap.bound => ~row'.bound)
  BY DEF ScanSound
<1> QED BY <1>3, <1>4, <1>5, <1>6, <1>7 DEF ScanSound

-----------------------------------------------------------------------------
(* The agent on its own, and the process. *)

LEMMA OnlyHost ==
  ASSUME Agent!DelegationAssumption, IInv, HostMoves, took' = took, report' \in Nat,
         report' <= fin',
         aged' \in Nat, space' \in BOOLEAN, Agent!Alive' => Agent!Alive /\ space', space' => space,
         UNCHANGED <<row, Agent!tools, Agent!watcher, faults, leaked>>
  PROVE  IInv'
<1>1. UNCHANGED <<row, prompts, launch, send, stop, scan, booted, told, guessed, faults, leaked>>
  BY DEF Agent!tools, Agent!watcher, Agent!known
<1>2. Agent!TypeOK /\ RowSound /\ SendSound /\ ScanSound /\ took <= took' /\ prompts <= prompts' /\ prompts' \in Nat
  BY <1>1, Facts DEF IInv
<1>3. Agent!TypeOK'
  BY <1>1, <1>2, Facts DEF Agent!TypeOK, HostMoves
<1>4. RowSound' /\ SendSound' /\ ScanSound' /\ SeqCovers'
  BY <1>1, <1>2, RowCarried, SendCarried, ScanCarried DEF HostMoves
<1>5. NothingYet' /\ OwedIsAlone' /\ CheckLeaked' /\ LaunchOwns' /\ OverIsQuiet'
  BY <1>1 DEF IInv, NothingYet, OwedIsAlone, CheckLeaked, LaunchOwns, LaunchOn, OverIsQuiet
<1>6. Agent!DoneWasDone' /\ Agent!VerdictWasTold'
  <2>1. row # None => row.at \in Nat
    BY <1>2, Facts DEF Agent!Row
  <2> QED BY <1>1, <1>2, <2>1, Facts DEF IInv, Agent!DoneWasDone, Agent!VerdictWasTold, HostMoves
<1> QED BY <1>3, <1>4, <1>5, <1>6 DEF IInv

LEMMA FinishKeeps == ASSUME Agent!DelegationAssumption, IInv, Agent!Finish PROVE IInv'
<1>1. /\ Agent!Alive /\ fin' = took /\ report' \in {report, took}
      /\ UNCHANGED <<row, aged, space, took, Agent!tools, Agent!watcher, faults, leaked>>
  BY DEF Agent!Finish
<1>2. PICK status \in {"idle", "done"}, comp \in {agent.seq + 1, None} :
        agent' = [status |-> status, seq |-> agent.seq + 1, comp |-> comp]
  BY DEF Agent!Finish
<1>3. Agent!TypeOK /\ SeqCovers /\ space /\ agent.seq \in Nat
  BY <1>1, Facts DEF IInv, Agent!TypeOK, Agent!Alive, Agent!Shown
<1>4. agent' \in Agent!Shown /\ agent' # None /\ agent'.comp \in {agent'.seq, None}
  BY <1>2, <1>3 DEF Agent!Shown, Agent!DelegationAssumption
<1>5. HostMoves
  <2>1. SeqCovers'
    BY <1>4 DEF SeqCovers, Agent!Shown
  <2> QED BY <1>1, <1>3, <1>4, <2>1, Facts DEF HostMoves, Sound
<1>6. Agent!Alive' => Agent!Alive /\ space'
  BY <1>1, <1>3
<1> QED BY <1>1, <1>3, <1>5, <1>6, Facts, OnlyHost DEF Agent!TypeOK

LEMMA WanderKeeps == ASSUME Agent!DelegationAssumption, IInv, Agent!Wander PROVE IInv'
<1>1. /\ Agent!Alive /\ UNCHANGED <<row, aged, space, took, fin, report, Agent!tools, Agent!watcher, faults, leaked>>
      /\ (\E status \in {"blocked", "idle", "working"} : Agent!Becomes(status)) \/ agent' = None
  BY DEF Agent!Wander
<1>2. Agent!TypeOK /\ SeqCovers /\ space /\ agent.seq \in Nat
  BY <1>1, Facts DEF IInv, Agent!TypeOK, Agent!Alive, Agent!Shown
<1>3. HostMoves
  <2>1. CASE agent' = None
    BY <1>1, <1>2, <2>1, AgentGone
  <2>2. CASE \E status \in {"blocked", "idle", "working"} : Agent!Becomes(status)
    <3>1. PICK status \in {"blocked", "idle", "working"} : Agent!Becomes(status)
      BY <2>2
    <3>2. PICK seq \in Nat : seq = agent.seq + 1
      BY <1>2
    <3>3. seq >= agent.seq /\ agent' = [agent EXCEPT !.status = status, !.seq = seq]
      BY <1>2, <3>1, <3>2 DEF Agent!Becomes
    <3>4. took' \in Nat /\ took' >= fin /\ status \in {"idle", "working", "blocked", "done"}
      BY <1>1, <1>2, Facts
    <3> QED BY <1>1, <1>2, <3>3, <3>4, Shows
  <2> QED BY <1>1, <2>1, <2>2
<1>4. Agent!Alive' => Agent!Alive /\ space'
  BY <1>1, <1>2
<1> QED BY <1>1, <1>2, <1>3, <1>4, Facts, OnlyHost DEF Agent!TypeOK

LEMMA AgeKeeps == ASSUME Agent!DelegationAssumption, IInv, Agent!Age PROVE IInv'
<1>1. row # None /\ aged' = row.at /\ UNCHANGED <<row, Agent!host, Agent!tools, Agent!watcher, faults, leaked>>
  BY DEF Agent!Age
<1>2. Agent!TypeOK /\ SeqCovers /\ aged' \in Nat
  BY <1>1, Facts DEF IInv, Agent!Row
<1>3. UNCHANGED <<space, agent, took, fin, report>>
  BY <1>1 DEF Agent!host
<1>4. HostMoves
  BY <1>2, <1>3, Still
<1> QED BY <1>1, <1>2, <1>3, <1>4, Facts, OnlyHost DEF Agent!TypeOK, Agent!Alive

LEMMA CrashKeeps == ASSUME Agent!DelegationAssumption, IInv, Agent!Crash PROVE IInv'
<1>1. /\ UNCHANGED <<row, aged, space, agent, took, fin, report, prompts, told, guessed>>
      /\ launch' = None /\ send' = None /\ stop' = None /\ scan' = None /\ booted' = FALSE /\ Agent!Fault
      /\ leaked' = (leaked \/ launch = "closing")
  BY DEF Agent!Crash, Agent!host
<1>2. Agent!TypeOK'
  <2>1. leaked' \in BOOLEAN /\ faults' \in Nat
    BY <1>1 DEF IInv, Agent!TypeOK, Agent!Fault, Agent!DelegationAssumption
  <2> QED BY <1>1, <2>1 DEF IInv, Agent!TypeOK, Agent!Alive
<1>3. SeqCovers' /\ NothingYet' /\ RowSound' /\ Agent!DoneWasDone' /\ Agent!VerdictWasTold' /\ OwedIsAlone'
  BY <1>1 DEF IInv, SeqCovers, NothingYet, RowSound, Agent!DoneWasDone, Agent!VerdictWasTold,
     Agent!Alive, OwedIsAlone
<1>4. LaunchOwns' /\ SendSound' /\ ScanSound' /\ CheckLeaked'
  BY <1>1 DEF LaunchOwns, LaunchOn, Agent!Launches, SendSound, ScanSound, CheckLeaked,
     Agent!DelegationAssumption
<1>5. OverIsQuiet'
  BY <1>1 DEF IInv, OverIsQuiet, Agent!Alive, Agent!DelegationAssumption, Agent!Launches
<1> QED BY <1>2, <1>3, <1>4, <1>5 DEF IInv

-----------------------------------------------------------------------------
(* Launch. *)

LEMMA LaunchKeeps == ASSUME Agent!DelegationAssumption, IInv, Agent!Launch PROVE IInv'
<1> DEFINE new == [status |-> "starting", bound |-> FALSE, base |-> 0, at |-> 0, owed |-> FALSE]
<1>1. new \in Agent!Row /\ new # None /\ new.status = "starting" /\ ~new.bound /\ new.base = 0 /\ new.at = 0 /\ ~new.owed
  <2>1. new \in Agent!Row
    BY DEF Agent!Row, Agent!Statuses
  <2>2. new.bound = FALSE /\ new.owed = FALSE /\ new.status = "starting" /\ new.base = 0 /\ new.at = 0
    OBVIOUS
  <2> QED BY <2>1, <2>2 DEF Agent!DelegationAssumption
<1>2. row = None /\ booted /\ row' = new /\ launch' = "workspace"
  BY DEF Agent!Launch
<1> HIDE DEF new
<1>3. UNCHANGED <<aged, space, agent, took, fin, report, prompts, send, stop, scan, booted, told, guessed, faults, leaked>>
  BY DEF Agent!Launch, Agent!host, Agent!watcher, Agent!known
<1>4. Agent!TypeOK /\ ~Agent!Alive /\ send = None /\ stop = None /\ scan = None
  BY <1>2 DEF IInv, NothingYet
<1>5. Agent!TypeOK'
  BY <1>1, <1>2, <1>3, <1>4 DEF Agent!TypeOK, Agent!Launches, Agent!Alive
<1>6. LaunchOwns' /\ NothingYet' /\ OwedIsAlone'
  BY <1>1, <1>2, <1>3, <1>4 DEF LaunchOwns, LaunchOn, Agent!Launches, NothingYet, OwedIsAlone,
     Agent!Alive
<1>7. RowSound' /\ SeqCovers' /\ SendSound' /\ ScanSound'
  BY <1>1, <1>2, <1>3, <1>4, Facts DEF RowSound, SeqCovers, SendSound, ScanSound, Sound, Agent!Alive
<1>8. OverIsQuiet' /\ CheckLeaked' /\ Agent!DoneWasDone' /\ Agent!VerdictWasTold'
  BY <1>1, <1>2, <1>3 DEF IInv, OverIsQuiet, CheckLeaked, Agent!DoneWasDone, Agent!VerdictWasTold
<1> QED BY <1>5, <1>6, <1>7, <1>8 DEF IInv

\* A step of a launch that is on, with the row as it leaves it.
LEMMA OnLaunch ==
  ASSUME Agent!DelegationAssumption, IInv, LaunchOn, HostMoves,
         launch' \in Agent!Launches \cup {None},
         UNCHANGED <<aged, fin, report, send, stop, scan, booted, told, guessed>>,
         took' <= prompts', prompts' \in Nat, faults' \in Nat, leaked' \in BOOLEAN, leaked => leaked',
         space' \in BOOLEAN, Agent!Alive' => space',
         row' \in Agent!Row, row' # None, row'.status # "done", row'.at <= took', Sound(agent', fin', row'.base, row'.at),
         ~row'.bound => ~Agent!Alive', OverIsQuiet', LaunchOwns'
  PROVE  IInv'
<1>1. Agent!TypeOK /\ send = None /\ scan = None
  BY DEF IInv, LaunchOwns
<1>2. Agent!TypeOK'
  BY <1>1, Facts DEF Agent!TypeOK, HostMoves
<1>3. NothingYet' /\ OwedIsAlone' /\ SendSound' /\ ScanSound' /\ SeqCovers' /\ RowSound'
  BY <1>1 DEF NothingYet, OwedIsAlone, SendSound, ScanSound, HostMoves, RowSound
<1>4. CheckLeaked' /\ Agent!DoneWasDone' /\ Agent!VerdictWasTold'
  BY DEF IInv, CheckLeaked, Agent!DoneWasDone, Agent!VerdictWasTold
<1> QED BY <1>2, <1>3, <1>4 DEF IInv

LEMMA LaunchFacts ==
  ASSUME Agent!DelegationAssumption, IInv, LaunchOn
  PROVE  /\ Agent!TypeOK /\ SeqCovers /\ row # None /\ row \in Agent!Row /\ row.status \in {"starting", "stopped"} /\ booted
         /\ send = None /\ scan = None /\ (launch = "workspace" <=> ~row.bound)
         /\ row.at <= took /\ Sound(agent, fin, row.base, row.at) /\ row.at \in Nat /\ row.base \in Nat \cup {None}
         /\ fin \in Nat /\ took \in Nat /\ prompts \in Nat /\ fin <= took /\ took <= prompts
<1>1. Agent!TypeOK /\ SeqCovers /\ row # None
  BY DEF IInv, LaunchOwns
<1> QED BY <1>1, Facts DEF IInv, LaunchOwns, RowSound, Agent!Row

\* A start that fails leaves a stop its verdict, and the close of what is bound to the launch.
LEMMA Fails ==
  ASSUME Agent!DelegationAssumption, IInv, LaunchOn, Agent!FailStart, UNCHANGED <<aged, fin, report,
         send, stop, scan, booted, told, guessed>>,
         HostMoves, took' <= prompts', prompts' \in Nat, took <= took', faults' \in Nat,
         UNCHANGED <<space, leaked>>, Agent!Alive' => Agent!Alive
  PROVE  IInv'
<1>1. row \in Agent!Row /\ row # None /\ row.status \in {"starting", "stopped"}
  BY LaunchFacts
<1>2. /\ row' \in Agent!Row /\ row' # None /\ row'.at = row.at /\ row'.base = row.base /\ row'.bound = row.bound
      /\ \/ row.status = "stopped" /\ row' = row /\ launch' = None
         \/ row.status = "starting" /\ row'.status = "failed" /\ launch' = IF row.bound THEN "closing" ELSE None
  <2>1. CASE Agent!Stopped
    BY <1>1, <2>1 DEF Agent!FailStart, Agent!Stopped
  <2>2. CASE ~Agent!Stopped
    <3> DEFINE new == [row EXCEPT !.status = "failed"]
    <3>1. new \in Agent!Row /\ new # None /\ new.status = "failed" /\ new.at = row.at /\ new.base = row.base /\ new.bound = row.bound
      BY <1>1 DEF Agent!Row, Agent!Statuses, Agent!DelegationAssumption
    <3>2. row' = new /\ launch' = IF row.bound THEN "closing" ELSE None
      BY <2>2 DEF Agent!FailStart
    <3> HIDE DEF new
    <3> QED BY <1>1, <2>2, <3>1, <3>2 DEF Agent!Stopped
  <2> QED BY <2>1, <2>2
<1>3. row'.at <= took' /\ Sound(agent', fin', row'.base, row'.at)
  <2>1. /\ took' \in Nat /\ took \in Nat /\ row.at <= took /\ Sound(agent, fin, row.base, row.at)
        /\ row.at \in Nat /\ row.base \in Nat \cup {None}
    BY LaunchFacts DEF HostMoves
  <2>2. Sound(agent', fin', row.base, row.at)
    BY <2>1 DEF HostMoves
  <2> QED BY <1>2, <2>1, <2>2
<1>4. ~row'.bound => ~Agent!Alive'
  BY <1>2 DEF IInv, NothingYet
<1>5. launch' \in {None, "closing"} /\ LaunchOwns'
  BY <1>2 DEF LaunchOwns, LaunchOn, Agent!Launches, Agent!DelegationAssumption
<1>6. OverIsQuiet'
  BY <1>1, <1>2, <1>4, <1>5 DEF IInv, OverIsQuiet, NothingYet, Agent!DelegationAssumption,
     Agent!Launches
<1>7. space' \in BOOLEAN /\ leaked' \in BOOLEAN /\ (Agent!Alive' => space') /\ row'.status # "done"
  BY <1>1, <1>2, LaunchFacts DEF Agent!TypeOK
<1> QED BY <1>2, <1>3, <1>4, <1>5, <1>6, <1>7, OnLaunch DEF Agent!Launches

LEMMA WorkspaceKeeps ==
  ASSUME Agent!DelegationAssumption, IInv, Agent!Workspace, UNCHANGED <<aged, send, stop, scan,
         booted, told, guessed, faults>>
  PROVE  IInv'
<1>1. LaunchOn /\ launch = "workspace" /\ UNCHANGED <<agent, took, fin, report, prompts, leaked>>
  BY DEF Agent!Workspace, LaunchOn, Agent!Launches
<1>2. /\ Agent!TypeOK /\ SeqCovers /\ row # None /\ row \in Agent!Row /\ row.status \in {"starting", "stopped"} /\ booted
      /\ send = None /\ scan = None /\ ~row.bound /\ ~Agent!Alive
  BY <1>1, LaunchFacts DEF IInv, NothingYet
<1>3. HostMoves
  BY <1>1, <1>2, Still
<1>4. CASE Agent!FailStart /\ UNCHANGED space
  <2>1. took' <= prompts' /\ prompts' \in Nat /\ took <= took' /\ faults' \in Nat /\ (Agent!Alive' => Agent!Alive)
    BY <1>1, <1>2, Facts DEF Agent!TypeOK, Agent!Alive
  <2> QED BY <1>1, <1>3, <1>4, <2>1, Fails
<1>5. CASE /\ space' = TRUE /\ row' = [row EXCEPT !.bound = TRUE]
           /\ launch' = IF Agent!Stopped THEN "closing" ELSE "start"
  <2> DEFINE new == [row EXCEPT !.bound = TRUE]
  <2>1. /\ new \in Agent!Row /\ new # None /\ new.bound /\ new.status = row.status /\ new.at = row.at /\ new.base = row.base
    BY <1>2 DEF Agent!Row, Agent!DelegationAssumption
  <2>2. row' = new
    BY <1>5
  <2> HIDE DEF new
  <2>3. row'.at <= took' /\ Sound(agent', fin', row'.base, row'.at)
    BY <1>1, <2>1, <2>2, LaunchFacts
  <2>4. LaunchOwns'
    BY <1>1, <1>2, <1>5, <2>1, <2>2 DEF LaunchOwns, LaunchOn, Agent!Launches, Agent!Stopped
  <2>5. OverIsQuiet' /\ ~Agent!Alive'
    BY <1>1, <1>2, <1>5, <2>1, <2>2 DEF OverIsQuiet, Agent!Alive, Agent!Stopped
  <2>6. /\ took' <= prompts' /\ prompts' \in Nat /\ faults' \in Nat /\ leaked' \in BOOLEAN
        /\ launch' \in Agent!Launches \cup {None} /\ space' \in BOOLEAN /\ row'.status # "done"
    BY <1>1, <1>2, <1>5, <2>1, <2>2, Facts DEF Agent!TypeOK, Agent!Launches
  <2> QED BY <1>1, <1>3, <2>1, <2>2, <2>3, <2>4, <2>5, <2>6, OnLaunch
<1> QED BY <1>4, <1>5 DEF Agent!Workspace

\* A stopped launch whose workspace is open starts an agent only when its close has failed.
LEMMA OpenStopLeaks ==
  ASSUME Agent!DelegationAssumption, IInv, launch = "start", space,
         row.status = "stopped" PROVE leaked
  BY DEF IInv, OverIsQuiet, LaunchOwns, LaunchOn, Agent!Launches

LEMMA StartKeeps ==
  ASSUME Agent!DelegationAssumption, IInv, Agent!Start, UNCHANGED <<aged, send, stop, scan, booted,
         told, guessed, faults>>
  PROVE  IInv'
<1>1. LaunchOn /\ launch = "start" /\ UNCHANGED <<space, took, fin, report, prompts, leaked>>
  BY DEF Agent!Start, LaunchOn, Agent!Launches
<1>2. /\ Agent!TypeOK /\ SeqCovers /\ row # None /\ row \in Agent!Row /\ row.status \in {"starting", "stopped"} /\ booted
      /\ send = None /\ scan = None /\ row.bound
      /\ row.at <= took /\ Sound(agent, fin, row.base, row.at) /\ row.at \in Nat /\ row.base \in Nat \cup {None}
  BY <1>1, LaunchFacts
<1>3. took' <= prompts' /\ prompts' \in Nat /\ took <= took' /\ faults' \in Nat /\ leaked' \in BOOLEAN
  BY <1>1, <1>2, Facts DEF Agent!TypeOK
<1>4. CASE Agent!FailStart /\ UNCHANGED agent
  <2>1. HostMoves /\ (Agent!Alive' => Agent!Alive)
    BY <1>1, <1>2, <1>4, Still DEF Agent!Alive
  <2> QED BY <1>1, <1>3, <1>4, <2>1, Fails
<1>5. CASE Agent!Started("idle") /\ launch' = (IF Agent!Stopped THEN None ELSE "prompt") /\ UNCHANGED row
  <2>1. HostMoves /\ agent' # None /\ space
    BY <1>1, <1>2, <1>5, StartsUp DEF Agent!Started
  <2>2. row'.at <= took' /\ Sound(agent', fin', row'.base, row'.at)
    BY <1>1, <1>2, <1>5, <2>1, Facts DEF HostMoves
  <2>3. LaunchOwns'
    BY <1>1, <1>2, <1>5 DEF LaunchOwns, LaunchOn, Agent!Launches, Agent!Stopped,
       Agent!DelegationAssumption
  <2>4. OverIsQuiet'
    BY <1>1, <1>2, <1>5, <2>1, OpenStopLeaks DEF OverIsQuiet
  <2>5. launch' \in Agent!Launches \cup {None} /\ row'.status # "done" /\ space' \in BOOLEAN /\ space'
    BY <1>1, <1>2, <1>5, <2>1 DEF Agent!Launches, Agent!TypeOK
  <2> QED BY <1>1, <1>2, <1>3, <1>5, <2>1, <2>2, <2>3, <2>4, <2>5, OnLaunch
<1> QED BY <1>4, <1>5 DEF Agent!Start

LEMMA ParkKeeps ==
  ASSUME Agent!DelegationAssumption, IInv, Agent!Park, UNCHANGED <<aged, send, stop, scan, booted,
         told, guessed, faults>>
  PROVE  IInv'
<1>1. LaunchOn /\ launch = "start" /\ UNCHANGED <<space, took, fin, report, prompts, leaked>> /\ Agent!Started("blocked")
  BY DEF Agent!Park, LaunchOn, Agent!Launches
<1>2. /\ Agent!TypeOK /\ SeqCovers /\ row # None /\ row \in Agent!Row /\ row.status \in {"starting", "stopped"} /\ booted
      /\ send = None /\ scan = None /\ row.bound
      /\ row.at <= took /\ Sound(agent, fin, row.base, row.at) /\ row.at \in Nat /\ row.base \in Nat \cup {None}
  BY <1>1, LaunchFacts
<1>3. /\ took' <= prompts' /\ prompts' \in Nat /\ took <= took' /\ faults' \in Nat /\ leaked' \in BOOLEAN
      /\ space' \in BOOLEAN /\ took \in Nat /\ took' \in Nat
  BY <1>1, <1>2, Facts DEF Agent!TypeOK
<1>4. HostMoves /\ agent' # None /\ space /\ space' /\ agent'.comp = None
  BY <1>1, <1>2, StartsUp DEF Agent!Started
<1>5. CASE Agent!Stopped /\ launch' = "closing" /\ UNCHANGED row
  <2>1. row'.at <= took' /\ Sound(agent', fin', row'.base, row'.at)
    BY <1>1, <1>2, <1>3, <1>4, <1>5 DEF HostMoves
  <2>2. LaunchOwns'
    BY <1>5 DEF LaunchOwns, LaunchOn, Agent!Launches
  <2>3. OverIsQuiet'
    BY <1>1, <1>2, <1>4, <1>5, OpenStopLeaks DEF OverIsQuiet, Agent!Stopped
  <2>4. launch' \in Agent!Launches \cup {None} /\ row'.status # "done"
    BY <1>2, <1>5 DEF Agent!Launches
  <2> QED BY <1>1, <1>2, <1>3, <1>4, <1>5, <2>1, <2>2, <2>3, <2>4, OnLaunch
<1>6. CASE ~Agent!Stopped /\ launch' = None /\ \E base \in {None, 1} :
                row' = [row EXCEPT !.status = "needs_input", !.owed = TRUE, !.base = base]
  <2>1. PICK base \in {None, 1} : row' = [row EXCEPT !.status = "needs_input", !.owed = TRUE, !.base = base]
    BY <1>6
  <2> DEFINE new == [row EXCEPT !.status = "needs_input", !.owed = TRUE, !.base = base]
  <2>2. /\ new \in Agent!Row /\ new # None /\ new.bound = row.bound /\ new.status = "needs_input" /\ new.at = row.at
        /\ new.base = base
    <3>1. [row EXCEPT !.status = "needs_input"] \in Agent!Row /\ base \in Nat \cup {None}
      BY <1>2 DEF Agent!Row, Agent!Statuses
    <3>2. [row EXCEPT !.status = "needs_input", !.owed = TRUE] \in Agent!Row
      BY <3>1 DEF Agent!Row
    <3>3. new \in Agent!Row
      BY <3>1, <3>2 DEF Agent!Row
    <3> QED BY <1>2, <3>3 DEF Agent!Row, Agent!DelegationAssumption
  <2>3. row' = new
    BY <2>1
  <2> HIDE DEF new
  <2>4. row'.at <= took' /\ Sound(agent', fin', row'.base, row'.at)
    BY <1>1, <1>2, <1>4, <2>2, <2>3 DEF Sound
  <2>5. LaunchOwns' /\ OverIsQuiet'
    BY <1>6, <2>2, <2>3 DEF LaunchOwns, LaunchOn, Agent!Launches, Agent!DelegationAssumption,
       OverIsQuiet
  <2>6. launch' \in Agent!Launches \cup {None} /\ row'.status # "done" /\ row'.bound
    BY <1>2, <1>6, <2>2, <2>3
  <2> QED BY <1>1, <1>3, <1>4, <2>2, <2>3, <2>4, <2>5, <2>6, OnLaunch
<1> QED BY <1>5, <1>6 DEF Agent!Park

\* A prompt that is rejected, or taken with its answer lost.
LEMMA NotPromptMoves ==
  ASSUME Agent!DelegationAssumption, Agent!TypeOK, SeqCovers, NEW at \in Nat, took <= at,
         Agent!NotPrompted(at), UNCHANGED fin
  PROVE  /\ HostMoves /\ took' \in {took, at} /\ (Agent!Alive' => Agent!Alive) /\ faults' \in Nat
         /\ took' = took => UNCHANGED agent \/ at = took
<1>1. CASE UNCHANGED <<agent, took, faults>>
  BY <1>1, Still DEF Agent!Alive, Agent!TypeOK
<1>2. CASE Agent!Fault /\ Agent!Prompted(at)
  <2>1. faults' \in Nat
    BY <1>2 DEF Agent!Fault, Agent!TypeOK, Agent!DelegationAssumption
  <2> QED BY <1>2, <2>1, PromptMoves
<1> QED BY <1>1, <1>2 DEF Agent!NotPrompted

LEMMA PromptTaskKeeps ==
  ASSUME Agent!DelegationAssumption, IInv, Agent!PromptTask, UNCHANGED <<aged, send, stop, scan,
         booted, told, guessed>>
  PROVE  IInv'
<1>1. LaunchOn /\ launch = "prompt" /\ prompts' = prompts + 1 /\ UNCHANGED <<space, fin, report, leaked>>
  BY DEF Agent!PromptTask, LaunchOn, Agent!Launches
<1>2. /\ Agent!TypeOK /\ SeqCovers /\ row # None /\ row \in Agent!Row /\ row.status \in {"starting", "stopped"} /\ booted
      /\ send = None /\ scan = None /\ row.bound /\ took \in Nat /\ prompts \in Nat /\ took <= prompts
      /\ row.at <= took /\ Sound(agent, fin, row.base, row.at) /\ row.at \in Nat /\ row.base \in Nat \cup {None}
  BY <1>1, LaunchFacts
<1>3. prompts' \in Nat /\ took <= prompts' /\ leaked' \in BOOLEAN /\ space' \in BOOLEAN
  BY <1>1, <1>2 DEF Agent!TypeOK
<1>4. CASE Agent!NotPrompted(prompts') /\ Agent!FailStart
  <2>1. HostMoves /\ took' \in {took, prompts'} /\ (Agent!Alive' => Agent!Alive) /\ faults' \in Nat
    BY <1>1, <1>2, <1>3, <1>4, NotPromptMoves
  <2>2. took' <= prompts' /\ took <= took'
    BY <1>2, <1>3, <2>1
  <2> QED BY <1>1, <1>3, <1>4, <2>1, <2>2, Fails
<1>5. CASE Agent!Prompted(prompts') /\ launch' = "baseline" /\ UNCHANGED <<row, faults>>
  <2>1. HostMoves /\ took' = prompts' /\ Agent!Alive
    BY <1>1, <1>2, <1>3, <1>5, PromptMoves
  <2>2. row'.at <= took' /\ Sound(agent', fin', row'.base, row'.at)
    <3>1. Sound(agent', fin', row.base, row.at)
      BY <1>2, <2>1 DEF HostMoves
    <3> QED BY <1>2, <1>3, <1>5, <2>1, <3>1
  <2>3. took' <= prompts' /\ prompts' <= took'
    BY <1>3, <2>1
  <2>4. LaunchOwns'
    BY <1>2, <1>5, <2>3 DEF LaunchOwns, LaunchOn, Agent!Launches
  <2>5. OverIsQuiet'
    <3>1. row.status = "stopped" => leaked
      BY <1>1, <1>2, <2>1 DEF IInv, OverIsQuiet
    <3> QED BY <1>1, <1>2, <1>5, <3>1 DEF OverIsQuiet
  <2>6. /\ launch' \in Agent!Launches \cup {None} /\ row'.status # "done" /\ faults' \in Nat
        /\ (Agent!Alive' => space')
    BY <1>1, <1>2, <1>5, <2>1 DEF Agent!Launches, Agent!TypeOK
  <2> QED BY <1>1, <1>2, <1>3, <1>5, <2>1, <2>2, <2>3, <2>4, <2>5, <2>6, OnLaunch
<1> QED BY <1>4, <1>5 DEF Agent!PromptTask

\* A baseline is read from the agent as it is, after the prompt.
LEMMA FreshBaseline ==
  ASSUME Agent!DelegationAssumption, Agent!TypeOK, SeqCovers, NEW base \in Agent!Baselines
  PROVE  base \in Nat \cup {None} /\ \A at : Sound(agent, fin, base, at)
<1>1. CASE base = None
  BY <1>1 DEF Sound
<1>2. CASE Agent!Alive /\ base = agent.seq
  <2>1. agent.seq \in Nat /\ agent.comp \in Nat \cup {None}
    BY <1>2, Facts DEF Agent!Alive, Agent!Shown
  <2>2. agent.comp # None => ~(agent.comp > base)
    BY <1>2, <2>1 DEF SeqCovers
  <2> QED BY <1>2, <2>1, <2>2 DEF Sound
<1> QED BY <1>1, <1>2 DEF Agent!Baselines

LEMMA BaselineKeeps ==
  ASSUME Agent!DelegationAssumption, IInv, Agent!Baseline, UNCHANGED <<aged, send, stop, scan,
         booted, told, guessed, faults>>
  PROVE  IInv'
<1>1. /\ LaunchOn /\ launch = "baseline" /\ launch' = (IF Agent!Stopped THEN "closing" ELSE None)
      /\ UNCHANGED <<space, agent, took, fin, report, prompts, leaked>>
  BY DEF Agent!Baseline, LaunchOn, Agent!Launches, Agent!host
<1>2. /\ Agent!TypeOK /\ SeqCovers /\ row # None /\ row \in Agent!Row /\ row.status \in {"starting", "stopped"} /\ booted
      /\ send = None /\ scan = None /\ row.bound /\ took \in Nat /\ prompts \in Nat /\ took <= prompts
      /\ row.at <= took /\ Sound(agent, fin, row.base, row.at) /\ row.at \in Nat /\ row.base \in Nat \cup {None}
      /\ prompts <= took
  BY <1>1, LaunchFacts DEF IInv, LaunchOwns
<1>3. PICK base \in Agent!Baselines : Agent!MarkRunning(base, prompts)
  BY DEF Agent!Baseline
<1>4. base \in Nat \cup {None} /\ Sound(agent, fin, base, prompts)
  BY <1>2, FreshBaseline
<1>5. /\ row' \in Agent!Row /\ row' # None /\ row'.bound = row.bound
      /\ \/ row.status = "stopped" /\ row' = row
         \/ /\ row.status # "stopped" /\ row'.status = "running" /\ row'.base = base /\ row'.at = prompts
            /\ ~row'.owed
  BY <1>2, <1>3, <1>4, Marked
<1>6. HostMoves
  BY <1>1, <1>2, Still
<1>7. row'.at <= took' /\ Sound(agent', fin', row'.base, row'.at)
  BY <1>1, <1>2, <1>4, <1>5
<1>8. LaunchOwns' /\ OverIsQuiet'
  <2>1. launch' \in {None, "closing"} /\ launch' # "start"
    BY <1>1 DEF Agent!DelegationAssumption, Agent!Launches
  <2>2. LaunchOwns'
    BY <2>1 DEF LaunchOwns, LaunchOn, Agent!Launches, Agent!DelegationAssumption
  <2>3. OverIsQuiet'
    BY <1>1, <1>2, <1>5, <2>1 DEF IInv, OverIsQuiet, Agent!Alive
  <2> QED BY <2>2, <2>3
<1>9. /\ launch' \in Agent!Launches \cup {None} /\ row'.status # "done" /\ faults' \in Nat
      /\ (Agent!Alive' => space') /\ took' <= prompts' /\ prompts' \in Nat /\ leaked' \in BOOLEAN /\ space' \in BOOLEAN
  BY <1>1, <1>2, <1>5 DEF Agent!Launches, Agent!TypeOK, Agent!Alive
<1> QED BY <1>1, <1>2, <1>5, <1>6, <1>7, <1>8, <1>9, OnLaunch

LEMMA ClosingKeeps ==
  ASSUME Agent!DelegationAssumption, IInv, Agent!Closing, UNCHANGED <<aged, send, stop, scan,
         booted, told, guessed, faults>>
  PROVE  IInv'
<1>1. /\ launch = "closing" /\ launch' = None /\ UNCHANGED <<row, took, fin, report, prompts>>
      /\ \/ space' = FALSE /\ agent' = None /\ UNCHANGED leaked
         \/ leaked' = TRUE /\ UNCHANGED <<space, agent>>
  BY DEF Agent!Closing, Agent!Closes, Agent!CloseFails
<1>2. Agent!TypeOK /\ SeqCovers /\ RowSound /\ SendSound /\ ScanSound
  BY DEF IInv
<1>3. HostMoves
  BY <1>1, <1>2, Still, AgentGone
<1>4. (Agent!Alive' => Agent!Alive) /\ (leaked => leaked') /\ took <= took' /\ prompts <= prompts' /\ prompts' \in Nat
  BY <1>1, <1>2, Facts DEF Agent!Alive
<1>5. Agent!TypeOK'
  BY <1>1, <1>2, <1>3 DEF Agent!TypeOK, HostMoves, Agent!Alive
<1>6. RowSound' /\ SendSound' /\ ScanSound' /\ SeqCovers'
  BY <1>1, <1>2, <1>3, <1>4, RowCarried, SendCarried, ScanCarried DEF HostMoves
<1>7. row # None /\ LaunchOwns' /\ OwedIsAlone' /\ CheckLeaked' /\ Agent!DoneWasDone' /\ Agent!VerdictWasTold'
  BY <1>1, <1>4 DEF IInv, NothingYet, LaunchOwns, LaunchOn, Agent!Launches, OwedIsAlone,
     CheckLeaked,
     Agent!DoneWasDone,
     Agent!VerdictWasTold, Agent!DelegationAssumption
<1>8. NothingYet' /\ OverIsQuiet'
  BY <1>1, <1>4, <1>7 DEF IInv, NothingYet, OverIsQuiet, Agent!Alive, Agent!DelegationAssumption,
     Agent!Launches
<1> QED BY <1>5, <1>6, <1>7, <1>8 DEF IInv

LEMMA LaunchingKeeps == ASSUME Agent!DelegationAssumption, IInv, Agent!Launching PROVE IInv'
<1>1. UNCHANGED <<aged, send, stop, scan, booted, told, guessed>>
  BY DEF Agent!Launching, Agent!watcher, Agent!known
<1>2. CASE Agent!PromptTask
  BY <1>1, <1>2, PromptTaskKeeps
<1>3. CASE (Agent!Workspace \/ Agent!Start \/ Agent!Park \/ Agent!Baseline \/ Agent!Closing) /\ UNCHANGED faults
  BY <1>1, <1>3, WorkspaceKeeps, StartKeeps, ParkKeeps, BaselineKeeps, ClosingKeeps
<1> QED BY <1>2, <1>3 DEF Agent!Launching

-----------------------------------------------------------------------------
(* A follow-up prompt and a stop. *)

LEMMA SendKeeps == ASSUME Agent!DelegationAssumption, IInv, Agent!Send PROVE IInv'
<1> DEFINE new == [at |-> prompts + 1, phase |-> "prompt", kept |-> report]
<1>1. /\ row # None /\ ~row.owed /\ row.status \notin {"stopped", "starting"}
      /\ prompts' = prompts + 1 /\ send' = new /\ report' = 0
      /\ UNCHANGED <<row, aged, space, agent, took, fin, launch, stop, scan, booted, told, guessed, faults, leaked>>
  BY DEF Agent!Send, Agent!watcher, Agent!known
<1>2. /\ Agent!TypeOK /\ SeqCovers /\ RowSound /\ ScanSound
      /\ prompts \in Nat /\ took \in Nat /\ report \in Nat /\ fin \in Nat /\ report <= fin /\ took <= prompts
  BY Facts DEF IInv
<1>3. new \in Agent!Sending /\ new # None /\ new.at = prompts + 1 /\ new.phase = "prompt" /\ new.kept = report
  BY <1>2 DEF Agent!Sending, Agent!DelegationAssumption
<1> HIDE DEF new
<1>4. HostMoves
  BY <1>1, <1>2, Still
<1>5. Agent!TypeOK'
  BY <1>1, <1>2, <1>3 DEF Agent!TypeOK, Agent!Alive
<1>6. RowSound' /\ ScanSound' /\ SeqCovers'
  BY <1>1, <1>2, <1>4, RowCarried, ScanCarried DEF HostMoves, Agent!Alive
<1>7. SendSound'
  BY <1>1, <1>2, <1>3 DEF SendSound
<1>8. LaunchOwns' /\ OwedIsAlone' /\ NothingYet'
  BY <1>1 DEF IInv, LaunchOwns, LaunchOn, OwedIsAlone, NothingYet, Agent!Alive
<1>9. CheckLeaked' /\ Agent!DoneWasDone' /\ Agent!VerdictWasTold' /\ OverIsQuiet'
  BY <1>1 DEF IInv, CheckLeaked, Agent!DoneWasDone, Agent!VerdictWasTold, OverIsQuiet, Agent!Alive
<1> QED BY <1>5, <1>6, <1>7, <1>8, <1>9 DEF IInv

LEMMA SendReturnsKeeps == ASSUME Agent!DelegationAssumption, IInv, Agent!SendReturns PROVE IInv'
<1>1. /\ send # None /\ send.phase = "prompt"
      /\ UNCHANGED <<row, aged, space, fin, prompts, launch, stop, scan, booted, told, guessed, leaked>>
  BY DEF Agent!SendReturns, Agent!watcher, Agent!known
<1>2. /\ Agent!TypeOK /\ SeqCovers /\ RowSound /\ ScanSound /\ send \in Agent!Sending /\ send.at \in Nat /\ send.kept \in Nat
      /\ prompts \in Nat /\ took \in Nat /\ report \in Nat /\ fin \in Nat /\ report <= fin
      /\ took <= send.at /\ send.at <= prompts /\ send.kept <= fin
  BY <1>1, Facts DEF IInv, Agent!Sending, SendSound
<1>3. /\ HostMoves /\ took' \in {took, send.at} /\ (Agent!Alive' => Agent!Alive) /\ faults' \in Nat
      /\ report' \in Nat /\ report' <= fin
      /\ \/ send' = None
         \/ took' = send.at /\ send' = [send EXCEPT !.phase = "baseline"]
  <2>1. CASE Agent!Prompted(send.at) /\ send' = [send EXCEPT !.phase = "baseline"] /\ UNCHANGED <<report, faults>>
    BY <1>1, <1>2, <2>1, PromptMoves DEF Agent!TypeOK
  <2>2. CASE Agent!NotPrompted(send.at) /\ send' = None /\ report' = IF report = 0 THEN send.kept ELSE report
    BY <1>1, <1>2, <2>2, NotPromptMoves
  <2> QED BY <2>1, <2>2 DEF Agent!SendReturns
<1>4. \/ send' = None
      \/ /\ send' \in Agent!Sending /\ send' # None /\ send'.at = send.at /\ send'.kept = send.kept /\ send'.phase = "baseline"
         /\ took' = send.at
  BY <1>2, <1>3 DEF Agent!Sending, Agent!DelegationAssumption
<1>5. took <= took' /\ took' <= prompts' /\ prompts' \in Nat
  BY <1>1, <1>2, <1>3
<1>6. Agent!TypeOK'
  BY <1>1, <1>2, <1>3, <1>4, <1>5 DEF Agent!TypeOK, HostMoves
<1>7. RowSound' /\ ScanSound' /\ SeqCovers'
  BY <1>1, <1>2, <1>3, <1>5, RowCarried, ScanCarried DEF HostMoves
<1>8. SendSound'
  BY <1>1, <1>2, <1>3, <1>4 DEF SendSound
<1>9. row # None /\ ~LaunchOn
  BY <1>1 DEF IInv, LaunchOwns, NothingYet
<1>10. LaunchOwns' /\ OwedIsAlone' /\ NothingYet'
  BY <1>1, <1>3, <1>9 DEF IInv, LaunchOwns, LaunchOn, OwedIsAlone, NothingYet
<1>11. CheckLeaked' /\ Agent!DoneWasDone' /\ Agent!VerdictWasTold' /\ OverIsQuiet'
  BY <1>1, <1>3 DEF IInv, CheckLeaked, Agent!DoneWasDone, Agent!VerdictWasTold, OverIsQuiet
<1> QED BY <1>6, <1>7, <1>8, <1>10, <1>11 DEF IInv

\* The row is rewritten while a scan may carry the one it read.
LEMMA ScanOverRow ==
  ASSUME Agent!DelegationAssumption, Agent!TypeOK, SeqCovers, ScanSound, scan' = scan,
         UNCHANGED <<agent, guessed, took, fin>>, leaked => leaked',
         scan # None => (row.owed => row'.owed) /\ row'.bound = row.bound
  PROVE  ScanSound' /\ SeqCovers'
<1>1. HostMoves /\ took <= took' /\ (Agent!Alive' => Agent!Alive)
  BY Still, Facts DEF Agent!Alive
<1> QED BY <1>1, ScanCarried DEF HostMoves

LEMMA SendBaselineKeeps == ASSUME Agent!DelegationAssumption, IInv, Agent!SendBaseline PROVE IInv'
<1>1. /\ send # None /\ send.phase = "baseline" /\ send' = None
      /\ UNCHANGED <<aged, space, agent, took, fin, report, prompts, launch, stop, scan, booted, told, guessed, faults, leaked>>
  BY DEF Agent!SendBaseline, Agent!watcher, Agent!known, Agent!host
<1>2. /\ Agent!TypeOK /\ SeqCovers /\ ScanSound /\ send.at \in Nat /\ send.at <= took /\ row # None /\ ~row.owed /\ ~LaunchOn
  BY <1>1, Facts DEF IInv, Agent!Sending, SendSound, NothingYet, OwedIsAlone, LaunchOwns
<1>3. PICK base \in Agent!Baselines : Agent!MarkRunning(base, send.at)
  BY DEF Agent!SendBaseline
<1>4. base \in Nat \cup {None} /\ Sound(agent, fin, base, send.at)
  BY <1>2, FreshBaseline
<1>5. /\ row' \in Agent!Row /\ row' # None /\ row'.bound = row.bound
      /\ \/ row.status = "stopped" /\ row' = row
         \/ /\ row.status # "stopped" /\ row'.status = "running" /\ row'.base = base /\ row'.at = send.at
            /\ ~row'.owed
  BY <1>2, <1>3, <1>4, Marked
<1>6. Agent!TypeOK' /\ SendSound'
  BY <1>1, <1>2, <1>5 DEF Agent!TypeOK, SendSound, Agent!Alive
<1>7. RowSound'
  BY <1>1, <1>2, <1>4, <1>5 DEF IInv, RowSound
<1>8. ScanSound' /\ SeqCovers'
  BY <1>1, <1>2, <1>5, ScanOverRow
<1>9. LaunchOwns' /\ OwedIsAlone' /\ NothingYet' /\ CheckLeaked'
  BY <1>1, <1>2, <1>5 DEF IInv, LaunchOwns, LaunchOn, OwedIsAlone, NothingYet, CheckLeaked,
     Agent!Alive
<1>10. Agent!DoneWasDone' /\ Agent!VerdictWasTold' /\ OverIsQuiet'
  BY <1>1, <1>2, <1>5 DEF IInv, Agent!DoneWasDone, Agent!VerdictWasTold, OverIsQuiet, Agent!Alive
<1> QED BY <1>6, <1>7, <1>8, <1>9, <1>10 DEF IInv

\* A row is stopped only when nothing of it runs, or a close of it failed.
LEMMA StoppedKeeps ==
  ASSUME Agent!DelegationAssumption, IInv, row # None, Agent!MarkStopped,
         UNCHANGED <<aged, took, fin, report, prompts, launch, send, scan, booted, told, guessed, faults, leaked>>,
         \/ UNCHANGED <<space, agent>> /\ (leaked \/ ~row.bound)
         \/ space' = FALSE /\ agent' = None
  PROVE  IInv'
<1> DEFINE new == [row EXCEPT !.status = "stopped"]
<1>1. /\ Agent!TypeOK /\ SeqCovers /\ RowSound /\ SendSound /\ ScanSound
      /\ row.at <= took /\ Sound(agent, fin, row.base, row.at) /\ row.at \in Nat /\ row.base \in Nat \cup {None}
  BY Facts DEF IInv, RowSound, Agent!Row
<1>2. /\ new \in Agent!Row /\ new # None /\ new.status = "stopped" /\ new.bound = row.bound /\ new.base = row.base
      /\ new.at = row.at /\ new.owed = row.owed
  BY <1>1, Rewritten DEF Agent!Statuses
<1>3. row' = new /\ stop' = None
  BY DEF Agent!MarkStopped
<1> HIDE DEF new
<1>4. HostMoves
  BY <1>1, Still, AgentGone
<1>5. (Agent!Alive' => Agent!Alive) /\ took <= took' /\ prompts <= prompts' /\ prompts' \in Nat
  BY <1>1, Facts DEF Agent!Alive
<1>6. Agent!TypeOK'
  BY <1>1, <1>2, <1>3, <1>4 DEF Agent!TypeOK, HostMoves, Agent!Alive
<1>7. SendSound' /\ ScanSound' /\ SeqCovers'
  BY <1>1, <1>2, <1>3, <1>4, <1>5, SendCarried, ScanCarried DEF HostMoves
<1>8. RowSound'
  <2>1. Sound(agent', fin', row.base, row.at)
    BY <1>1, <1>4 DEF HostMoves
  <2> QED BY <1>1, <1>2, <1>3, <1>5, <2>1 DEF RowSound
<1>9. LaunchOwns' /\ OwedIsAlone' /\ NothingYet' /\ CheckLeaked'
  BY <1>2, <1>3, <1>5 DEF IInv, LaunchOwns, LaunchOn, OwedIsAlone, NothingYet, CheckLeaked,
     Agent!DelegationAssumption
<1>10. Agent!DoneWasDone' /\ Agent!VerdictWasTold'
  BY <1>2, <1>3 DEF Agent!DoneWasDone, Agent!VerdictWasTold
<1>11. OverIsQuiet'
  <2>1. ~row.bound => ~Agent!Alive /\ launch # "start"
    BY DEF IInv, NothingYet, LaunchOwns, LaunchOn, Agent!Launches
  <2> QED BY <1>2, <1>3, <1>5, <2>1 DEF OverIsQuiet, Agent!Alive
<1> QED BY <1>6, <1>7, <1>8, <1>9, <1>10, <1>11 DEF IInv

LEMMA StopKeeps == ASSUME Agent!DelegationAssumption, IInv, Agent!Stop PROVE IInv'
<1>1. /\ row # None
      /\ UNCHANGED <<aged, space, agent, took, fin, report, prompts, launch, send, scan, booted, told, guessed, faults, leaked>>
      /\ IF row.bound THEN stop' = "close" /\ row' = row ELSE Agent!MarkStopped
  BY DEF Agent!Stop, Agent!watcher, Agent!known, Agent!host
<1>2. CASE ~row.bound
  BY <1>1, <1>2, StoppedKeeps
<1>3. CASE row.bound
  <2>1. stop' = "close" /\ row' = row
    BY <1>1, <1>3
  <2>2. Agent!TypeOK'
    BY <1>1, <2>1 DEF IInv, Agent!TypeOK, Agent!Alive
  <2>3. SeqCovers' /\ NothingYet' /\ LaunchOwns' /\ OwedIsAlone' /\ RowSound' /\ SendSound'
    BY <1>1, <2>1 DEF IInv, SeqCovers, NothingYet, LaunchOwns, LaunchOn, OwedIsAlone, RowSound,
       SendSound, Agent!Alive
  <2>4. ScanSound'
    BY <1>1, <2>1, ScanOverRow DEF IInv
  <2>5. OverIsQuiet' /\ CheckLeaked' /\ Agent!DoneWasDone' /\ Agent!VerdictWasTold'
    BY <1>1, <2>1 DEF IInv, OverIsQuiet, CheckLeaked, Agent!DoneWasDone, Agent!VerdictWasTold,
       Agent!Alive
  <2> QED BY <2>2, <2>3, <2>4, <2>5 DEF IInv
<1> QED BY <1>2, <1>3

LEMMA StopReturnsKeeps == ASSUME Agent!DelegationAssumption, IInv, Agent!StopReturns PROVE IInv'
<1>1. UNCHANGED <<aged, took, fin, report, prompts, launch, send, scan, booted, told, guessed, faults>>
  BY DEF Agent!StopReturns, Agent!watcher, Agent!known
<1>2. stop # None /\ row # None
  BY DEF Agent!StopReturns, Agent!DelegationAssumption, IInv, NothingYet
<1>3. CASE stop = "close" /\ Agent!Closes /\ Agent!MarkStopped
  BY <1>1, <1>2, <1>3, StoppedKeeps DEF Agent!Closes
<1>4. CASE stop = "check" /\ ~Agent!Alive /\ Agent!MarkStopped /\ UNCHANGED <<space, agent, leaked>>
  BY <1>1, <1>2, <1>4, StoppedKeeps DEF IInv, CheckLeaked
<1>5. CASE \/ stop = "close" /\ Agent!CloseFails /\ stop' = "check" /\ UNCHANGED row
           \/ stop = "check" /\ stop' = None /\ UNCHANGED <<row, space, agent, leaked>>
  <2>1. /\ UNCHANGED <<row, space, agent>> /\ leaked' \in BOOLEAN /\ (leaked => leaked')
        /\ stop' \in {"check", None} /\ (stop' = "check" => leaked')
    <3>1. None # "check" /\ leaked \in BOOLEAN
      BY DEF Agent!DelegationAssumption, IInv, Agent!TypeOK
    <3> QED BY <1>5, <3>1 DEF Agent!CloseFails
  <2>2. Agent!TypeOK' /\ CheckLeaked'
    BY <1>1, <2>1 DEF IInv, Agent!TypeOK, CheckLeaked, Agent!Alive
  <2>3. SeqCovers' /\ NothingYet' /\ LaunchOwns' /\ OwedIsAlone' /\ RowSound' /\ SendSound'
    BY <1>1, <1>2, <2>1 DEF IInv, SeqCovers, NothingYet, LaunchOwns, LaunchOn, OwedIsAlone,
       RowSound,
       SendSound, Agent!Alive
  <2>4. ScanSound'
    BY <1>1, <2>1, ScanOverRow DEF IInv
  <2>5. OverIsQuiet' /\ Agent!DoneWasDone' /\ Agent!VerdictWasTold'
    BY <1>1, <2>1 DEF IInv, OverIsQuiet, Agent!DoneWasDone, Agent!VerdictWasTold, Agent!Alive
  <2> QED BY <2>2, <2>3, <2>4, <2>5 DEF IInv
<1> QED BY <1>3, <1>4, <1>5 DEF Agent!StopReturns

-----------------------------------------------------------------------------
(* The watcher. *)

LEMMA NothingTold == ASSUME Agent!DelegationAssumption PROVE Agent!Nothing \in Agent!Telling /\ Agent!Nothing.base = None /\ Agent!Nothing.to = None
  BY DEF Agent!Nothing, Agent!Telling

LEMMA StartScanKeeps == ASSUME Agent!DelegationAssumption, IInv, Agent!StartScan PROVE IInv'
<1>1. /\ row # None /\ scan = None /\ booted' = TRUE
      /\ UNCHANGED <<row, aged, space, agent, took, fin, report, prompts, launch, send, stop, told, guessed, faults, leaked>>
  BY DEF Agent!StartScan, Agent!host, Agent!tools
<1>2. \/ row.status = "starting" /\ ~booted /\ scan' = [phase |-> "recover", snap |-> row, tell |-> Agent!Nothing]
      \/ row.status \in {"running", "needs_input"} /\ scan' = [phase |-> "look", snap |-> row, tell |-> Agent!Nothing]
      \/ ~booted /\ scan' = None
  BY DEF Agent!StartScan, Agent!At, Agent!Ends
<1>3. Agent!TypeOK /\ row \in Agent!Row /\ RowSound
  BY <1>1, Facts DEF IInv
<1>4. ~LaunchOn
  <2>1. ~booted \/ row.status \in {"running", "needs_input"}
    BY <1>2
  <2> QED BY <2>1 DEF IInv, LaunchOwns
<1>5. \/ scan' = None
      \/ /\ scan' \in Agent!Scan /\ scan' # None /\ scan'.phase \in {"recover", "look"} /\ scan'.snap = row /\ scan'.tell.base = None
         /\ scan'.phase = "recover" => row.status = "starting"
         /\ scan'.phase = "look" => row.status \in {"running", "needs_input"}
  <2> DEFINE scanned(phase) == [phase |-> phase, snap |-> row, tell |-> Agent!Nothing]
  <2>1. \A phase \in {"recover", "look"} :
           /\ scanned(phase) \in Agent!Scan /\ scanned(phase) # None /\ scanned(phase).phase = phase
           /\ scanned(phase).snap = row /\ scanned(phase).tell = Agent!Nothing
    BY <1>3, NothingTold DEF Agent!Scan, Agent!DelegationAssumption
  <2>2. scan' = None \/ \E phase \in {"recover", "look"} :
            /\ scan' = scanned(phase)
            /\ phase = "recover" => row.status = "starting"
            /\ phase = "look" => row.status \in {"running", "needs_input"}
    BY <1>2
  <2> HIDE DEF scanned
  <2> QED BY <2>1, <2>2, NothingTold
<1>6. Agent!TypeOK'
  BY <1>1, <1>3, <1>5 DEF Agent!TypeOK, Agent!Alive
<1>7. ScanSound'
  BY <1>1, <1>3, <1>5 DEF ScanSound, RowSound, Sound
<1>8. SeqCovers' /\ NothingYet' /\ LaunchOwns' /\ OwedIsAlone' /\ RowSound' /\ SendSound'
  BY <1>1, <1>4 DEF IInv, SeqCovers, NothingYet, LaunchOwns, LaunchOn, OwedIsAlone, RowSound,
     SendSound,
     Agent!Alive
<1>9. OverIsQuiet' /\ CheckLeaked' /\ Agent!DoneWasDone' /\ Agent!VerdictWasTold'
  BY <1>1 DEF IInv, OverIsQuiet, CheckLeaked, Agent!DoneWasDone, Agent!VerdictWasTold, Agent!Alive
<1> QED BY <1>6, <1>7, <1>8, <1>9 DEF IInv

LEMMA ScanFacts ==
  ASSUME Agent!DelegationAssumption, IInv, scan # None
  PROVE  /\ Agent!TypeOK /\ SeqCovers /\ row # None /\ row \in Agent!Row /\ ~LaunchOn
         /\ row.at <= took /\ Sound(agent, fin, row.base, row.at)
         /\ row.at \in Nat /\ row.base \in Nat \cup {None} /\ took \in Nat /\ fin \in Nat
         /\ scan \in Agent!Scan /\ scan.snap \in Agent!Row /\ scan.tell \in Agent!Telling
         /\ scan.snap.at \in Nat /\ scan.snap.base \in Nat \cup {None} /\ scan.tell.base \in Nat \cup {None}
         /\ scan.snap.at <= took
<1>1. Agent!TypeOK /\ SeqCovers /\ row # None /\ ~LaunchOn
  BY DEF IInv, LaunchOwns, NothingYet
<1>2. row \in Agent!Row /\ scan \in Agent!Scan /\ took \in Nat /\ fin \in Nat
  BY <1>1, Facts
<1> QED BY <1>1, <1>2 DEF IInv, RowSound, ScanSound, Agent!Scan, Agent!Row, Agent!Telling

\* A step of a scan, with the row and the scan as it leaves them.
LEMMA WatchStep ==
  ASSUME Agent!DelegationAssumption, IInv, scan # None,
         UNCHANGED <<aged, space, agent, took, fin, report, prompts, launch, send, stop, booted, leaked>>,
         faults' \in Nat, told \subseteq told', told' \cup guessed' \subseteq Nat,
         row' \in Agent!Row, row' # None, row'.bound = row.bound, row'.owed => row.owed,
         row'.at <= took, Sound(agent, fin, row'.base, row'.at),
         row'.status = "done" => (row'.at <= fin \/ row'.at \in guessed') /\ row'.at \in told',
         row'.status = "stopped" => row.status = "stopped",
         row'.status = "failed" => row.status = "failed" \/ leaked \/ ~Agent!Alive,
         scan' \in Agent!Scan \cup {None}, ScanSound'
  PROVE  IInv'
<1>1. Agent!TypeOK /\ ~LaunchOn /\ row # None
  BY ScanFacts
<1>2. Agent!TypeOK'
  BY <1>1 DEF Agent!TypeOK, Agent!Alive
<1>3. SeqCovers' /\ LaunchOwns' /\ RowSound' /\ SendSound' /\ CheckLeaked'
  BY <1>1 DEF IInv, SeqCovers, LaunchOwns, LaunchOn, RowSound, SendSound, CheckLeaked, Agent!Alive
<1>4. NothingYet' /\ OwedIsAlone'
  BY <1>1 DEF IInv, NothingYet, OwedIsAlone, Agent!Alive
<1>5. Agent!DoneWasDone' /\ Agent!VerdictWasTold'
  BY DEF Agent!DoneWasDone, Agent!VerdictWasTold
<1>6. OverIsQuiet'
  <2>1. launch # "start"
    BY <1>1 DEF LaunchOn, Agent!Launches
  <2> QED BY <1>1, <2>1 DEF IInv, OverIsQuiet, Agent!Alive
<1> QED BY <1>2, <1>3, <1>4, <1>5, <1>6 DEF IInv

\* A judgement takes back only a guess that came true.
GuessKept == guessed' \subseteq Nat /\ \A at \in guessed \ guessed' : at <= fin

LEMMA NoGuess == ASSUME Agent!TypeOK, UNCHANGED guessed PROVE GuessKept
  BY DEF Agent!TypeOK, GuessKept

\* What a scan holds on to while its notice is on its way.
LEMMA Tells ==
  ASSUME Agent!DelegationAssumption, NEW snap \in Agent!Row,
         NEW to \in {"done", "needs_input", "failed"},
         NEW base \in Nat \cup {None}, NEW capture \in BOOLEAN, Agent!TellLater(snap, to, base, capture),
         UNCHANGED <<agent, took, fin>>, snap.at <= took, snap.status \in {"running", "needs_input"},
         Sound(agent, fin, snap.base, snap.at), Sound(agent, fin, base, snap.at),
         snap.owed => row'.owed, to = "done" => snap.at <= fin \/ snap.at \in guessed', to = "failed" => ~Agent!Alive
  PROVE  scan' \in Agent!Scan /\ ScanSound'
<1> DEFINE tell == [to |-> to, base |-> base, capture |-> capture]
           new == [phase |-> "tell", snap |-> snap, tell |-> tell]
<1>1. tell \in Agent!Telling /\ tell.to = to /\ tell.base = base
  BY DEF Agent!Telling
<1> HIDE DEF tell
<1>2. new \in Agent!Scan /\ new.phase = "tell" /\ new.snap = snap /\ new.tell = tell
  BY <1>1 DEF Agent!Scan
<1>3. scan' = new
  BY DEF Agent!TellLater, Agent!At, tell
<1> HIDE DEF new
<1>4. to # None
  BY DEF Agent!DelegationAssumption
<1> QED BY <1>1, <1>2, <1>3, <1>4 DEF ScanSound, Agent!Alive

LEMMA JudgeHolds ==
  ASSUME Agent!DelegationAssumption, Agent!TypeOK, SeqCovers, Agent!Alive, NEW snap \in Agent!Row,
         Agent!Judge(snap), snap.base # None,
         UNCHANGED <<agent, took, fin>>, snap.at <= took, snap.status \in {"running", "needs_input"},
         Sound(agent, fin, snap.base, snap.at), snap.owed => row'.owed
  PROVE  scan' \in Agent!Scan \cup {None} /\ ScanSound' /\ GuessKept
<1>1. agent.seq \in Nat /\ agent.seq \in Agent!Baselines
  BY Facts DEF Agent!Alive, Agent!Shown, Agent!Baselines
<1>2. Sound(agent, fin, agent.seq, snap.at) /\ Sound(agent, fin, None, snap.at)
  BY <1>1, FreshBaseline DEF Sound
<1>3a. ASSUME Agent!Completed(snap), ~Agent!Guess(snap) PROVE snap.at <= fin
  <2>1. CASE Agent!Fresh(snap)
    <3>1. snap.at \in Nat /\ report \in Nat /\ fin \in Nat /\ report <= fin
      BY Facts DEF Agent!Row
    <3> QED BY <2>1, <3>1 DEF Agent!Fresh
  <2>2. CASE agent.comp # None /\ agent.comp > snap.base
    BY <2>2 DEF Sound, Agent!Alive
  <2> QED BY <1>3a, <2>1, <2>2 DEF Agent!Completed, Agent!Guess, Agent!DoneSeq
<1>3b. GuessKept
  <2>1. snap.at \in Nat /\ guessed \subseteq Nat
    BY DEF Agent!Row, Agent!TypeOK
  <2>2. \/ guessed' = guessed \/ guessed' = guessed \cup {snap.at}
        \/ Agent!Completed(snap) /\ ~Agent!Guess(snap) /\ guessed' = guessed \ {snap.at}
    BY DEF Agent!Judge
  <2> QED BY <1>3a, <2>1, <2>2 DEF GuessKept
<1>3. CASE Agent!TellLater(snap, "needs_input", agent.seq, FALSE)
  BY <1>1, <1>2, <1>3, <1>3b, Tells
<1>4. CASE /\ Agent!TellLater(snap, "done", None, FALSE) /\ Agent!Completed(snap)
           /\ Agent!Guess(snap) => snap.at \in guessed'
  <2>1. snap.at <= fin \/ snap.at \in guessed'
    BY <1>3a, <1>4
  <2> QED BY <1>2, <1>4, <2>1, <1>3b, Tells
<1>5. CASE Agent!Ends
  BY <1>5, <1>3b DEF Agent!Ends, ScanSound
<1>6. \/ Agent!TellLater(snap, "needs_input", agent.seq, FALSE)
      \/ /\ Agent!TellLater(snap, "done", None, FALSE) /\ Agent!Completed(snap)
         /\ Agent!Guess(snap) => snap.at \in guessed'
      \/ Agent!Ends
  BY DEF Agent!Judge
<1> QED BY <1>3, <1>4, <1>5, <1>6

\* The owed task is delivered over a baseline the scan itself has captured, or had.
LEMMA Delivers ==
  ASSUME Agent!DelegationAssumption, NEW snap \in Agent!Row, NEW base \in Nat \cup {None},
         Agent!At("deliver", snap, [Agent!Nothing EXCEPT !.base = base]),
         UNCHANGED <<agent, took, fin>>, snap.at <= took, snap.status \in {"running", "needs_input"},
         Sound(agent, fin, snap.base, snap.at), Sound(agent, fin, base, snap.at),
         snap.owed, row'.owed
  PROVE  scan' \in Agent!Scan /\ ScanSound'
<1> DEFINE tell == [Agent!Nothing EXCEPT !.base = base]
           new == [phase |-> "deliver", snap |-> snap, tell |-> tell]
<1>1. tell \in Agent!Telling /\ tell.base = base
  BY NothingTold DEF Agent!Telling
<1> HIDE DEF tell
<1>2. new \in Agent!Scan /\ new.phase = "deliver" /\ new.snap = snap /\ new.tell = tell
  BY <1>1 DEF Agent!Scan
<1>3. scan' = new
  BY DEF Agent!At, tell
<1> HIDE DEF new
<1> QED BY <1>1, <1>2, <1>3 DEF ScanSound

\* What a look leaves of the row: itself, with a baseline captured or the dialog resumed.
Looked ==
    /\ row' \in Agent!Row /\ row' # None /\ row'.bound = row.bound /\ (row'.owed <=> row.owed) /\ row'.at = row.at
    /\ row'.base = row.base \/ (Agent!Alive /\ row'.base = agent.seq)
    /\ row'.status = row.status \/ (row.status = "needs_input" /\ row'.status = "running")

LEMMA PendingHolds ==
  ASSUME Agent!DelegationAssumption, IInv, Agent!Alive, scan # None, scan.phase = "look",
         scan.snap.base = None,
         Agent!LookPending(scan.snap), UNCHANGED <<agent, took, fin, report>>
  PROVE  Looked /\ scan' \in Agent!Scan \cup {None} /\ ScanSound'
<1> DEFINE snap == scan.snap
<1>1. /\ Agent!TypeOK /\ SeqCovers /\ row # None /\ row \in Agent!Row /\ snap \in Agent!Row /\ snap.at \in Nat /\ snap.at <= took
      /\ snap.base = None /\ snap.status \in {"running", "needs_input"} /\ (snap.owed => row.owed)
      /\ fin \in Nat /\ report \in Nat /\ report <= fin
  BY ScanFacts, Facts DEF IInv, ScanSound
<1>2. agent.seq \in Nat /\ agent.seq \in Agent!Baselines
  BY <1>1, Facts DEF Agent!Alive, Agent!Shown, Agent!Baselines
<1>3. /\ Sound(agent, fin, agent.seq, snap.at) /\ Sound(agent, fin, None, snap.at)
      /\ agent.seq \in Nat \cup {None}
  BY <1>1, <1>2, FreshBaseline DEF Sound
<1>4. ASSUME row' = row \/ row' = [row EXCEPT !.base = agent.seq]
      PROVE  Looked
  <2>1. row.status \in Agent!Statuses
    BY <1>1 DEF Agent!Row
  <2>2. CASE row' = row
    BY <1>1, <2>2 DEF Looked
  <2>3. CASE row' = [row EXCEPT !.base = agent.seq]
    <3> DEFINE new == [row EXCEPT !.base = agent.seq]
    <3>1. /\ new \in Agent!Row /\ new # None /\ new.status = row.status /\ new.bound = row.bound
          /\ new.base = agent.seq /\ new.at = row.at /\ new.owed = row.owed
      BY <1>1, <1>3, <2>1, Rewritten
    <3>2. row' = new
      BY <2>3
    <3> HIDE DEF new
    <3> QED BY <3>1, <3>2 DEF Looked
  <2> QED BY <1>4, <2>2, <2>3
<1>5. CASE /\ snap.owed /\ row' = [row EXCEPT !.base = agent.seq]
           /\ Agent!At("deliver", [snap EXCEPT !.base = agent.seq], [Agent!Nothing EXCEPT !.base = agent.seq])
  <2> DEFINE taken == [snap EXCEPT !.base = agent.seq]
  <2>1. /\ taken \in Agent!Row /\ taken.base = agent.seq /\ taken.at = snap.at /\ taken.status = snap.status
        /\ taken.owed = snap.owed
    BY <1>1, <1>2 DEF Agent!Row
  <2>2. Agent!At("deliver", taken, [Agent!Nothing EXCEPT !.base = agent.seq])
    BY <1>5
  <2> HIDE DEF taken, snap
  <2>3. Looked
    BY <1>4, <1>5
  <2>4. row'.owed
    BY <1>1, <1>5, <2>3 DEF Looked
  <2>5. scan' \in Agent!Scan /\ ScanSound'
    BY <1>1, <1>3, <1>5, <2>1, <2>2, <2>4, Delivers
  <2> QED BY <2>3, <2>5
<1>6. CASE /\ Agent!TellLater(snap, IF Agent!Fresh(snap) THEN "done" ELSE "needs_input", agent.seq, TRUE)
           /\ UNCHANGED row
  <2>1. Agent!Fresh(snap) => snap.at <= fin
    BY <1>1 DEF Agent!Fresh
  <2> DEFINE to == IF Agent!Fresh(snap) THEN "done" ELSE "needs_input"
  <2>2. to \in {"done", "needs_input", "failed"} /\ (to = "done" => snap.at <= fin) /\ to # "failed"
    BY <2>1
  <2>3. Agent!TellLater(snap, to, agent.seq, TRUE)
    BY <1>6
  <2> HIDE DEF to, snap
  <2>4. scan' \in Agent!Scan /\ ScanSound'
    BY <1>1, <1>3, <1>6, <2>2, <2>3, Tells
  <2> QED BY <1>4, <1>6, <2>4
<1>7. CASE Agent!Ends /\ (row' = row \/ row' = [row EXCEPT !.base = agent.seq])
  <2>1. scan' = None /\ ScanSound'
    BY <1>7 DEF Agent!Ends, ScanSound
  <2> QED BY <1>4, <1>7, <2>1
<1> QED BY <1>5, <1>6, <1>7 DEF Agent!LookPending

LEMMA ParkedHolds ==
  ASSUME Agent!DelegationAssumption, IInv, Agent!Alive, scan # None, scan.phase = "look",
         scan.snap.base # None,
         scan.snap.status = "needs_input", Agent!LookParked(scan.snap), UNCHANGED <<agent, took, fin, report>>
  PROVE  Looked /\ scan' \in Agent!Scan \cup {None} /\ ScanSound' /\ GuessKept
<1> DEFINE snap == scan.snap
<1>1. /\ Agent!TypeOK /\ SeqCovers /\ row # None /\ row \in Agent!Row /\ snap \in Agent!Row /\ snap.at \in Nat /\ snap.at <= took
      /\ snap.base # None /\ snap.status = "needs_input" /\ (snap.owed => row.owed)
      /\ Sound(agent, fin, snap.base, snap.at)
  BY ScanFacts DEF IInv, ScanSound
<1>2. agent.seq \in Nat /\ agent.seq \in Agent!Baselines
  BY <1>1, Facts DEF Agent!Alive, Agent!Shown, Agent!Baselines
<1>3. Sound(agent, fin, agent.seq, snap.at) /\ agent.seq \in Nat \cup {None}
  BY <1>1, <1>2, FreshBaseline
<1>4. CASE Agent!Ends /\ UNCHANGED <<row, guessed>>
  BY <1>1, <1>4, NoGuess DEF Agent!Ends, ScanSound, Looked
<1>5. CASE /\ snap.owed /\ Agent!At("deliver", snap, [Agent!Nothing EXCEPT !.base = agent.seq])
           /\ UNCHANGED <<row, guessed>>
  <2> HIDE DEF snap
  <2>1. scan' \in Agent!Scan /\ ScanSound'
    BY <1>1, <1>3, <1>5, Delivers
  <2> QED BY <1>1, <1>5, <2>1, NoGuess DEF Looked
<1>6. CASE /\ Agent!Same(snap) /\ row' = [row EXCEPT !.status = "running"]
           /\ Agent!Judge([snap EXCEPT !.status = "running"])
  <2> DEFINE resumed == [snap EXCEPT !.status = "running"]
             new == [row EXCEPT !.status = "running"]
  <2>1. /\ resumed \in Agent!Row /\ resumed.base = snap.base /\ resumed.at = snap.at /\ resumed.status = "running"
        /\ resumed.owed = snap.owed
    BY <1>1 DEF Agent!Row, Agent!Statuses
  <2>2. /\ new \in Agent!Row /\ new # None /\ new.status = "running" /\ new.bound = row.bound
        /\ new.base = row.base /\ new.at = row.at /\ new.owed = row.owed
    BY <1>1, Rewritten DEF Agent!Statuses
  <2>3. row' = new /\ Agent!Judge(resumed) /\ row.status = "needs_input"
    BY <1>1, <1>6 DEF Agent!Same
  <2> HIDE DEF new, resumed, snap
  <2>4. Looked
    BY <2>2, <2>3 DEF Looked
  <2>5. snap.owed => row'.owed
    BY <1>1, <2>2, <2>3
  <2>6. scan' \in Agent!Scan \cup {None} /\ ScanSound' /\ GuessKept
    BY <1>1, <2>1, <2>3, <2>5, JudgeHolds
  <2> QED BY <2>4, <2>6
<1> QED BY <1>4, <1>5, <1>6 DEF Agent!LookParked

\* What a look leaves of the row is a step of the scan.
LEMMA LookedKeeps ==
  ASSUME Agent!DelegationAssumption, IInv, scan # None, Looked,
         UNCHANGED <<aged, space, agent, took, fin, report, prompts, launch, send, stop, booted, told, faults, leaked>>,
         GuessKept, scan' \in Agent!Scan \cup {None}, ScanSound'
  PROVE  IInv'
<1>1. /\ Agent!TypeOK /\ SeqCovers /\ row # None /\ row.at <= took /\ Sound(agent, fin, row.base, row.at)
  BY ScanFacts
<1>2. row' \in Agent!Row /\ row' # None /\ row'.bound = row.bound /\ (row'.owed => row.owed) /\ row'.at <= took
  BY <1>1 DEF Looked
<1>3. Sound(agent, fin, row'.base, row'.at)
  <2>1. CASE row'.base = row.base
    BY <1>1, <2>1 DEF Looked
  <2>2. CASE Agent!Alive /\ row'.base = agent.seq
    <3>1. row'.base \in Agent!Baselines
      BY <2>2 DEF Agent!Baselines
    <3> QED BY <1>1, <3>1, FreshBaseline
  <2> QED BY <2>1, <2>2 DEF Looked
<1>4. /\ row'.status = "done" => (row'.at <= fin \/ row'.at \in guessed') /\ row'.at \in told'
      /\ row'.status = "stopped" => row.status = "stopped"
      /\ row'.status = "failed" => row.status = "failed" \/ leaked \/ ~Agent!Alive
  BY <1>1 DEF Looked, GuessKept, IInv, Agent!DoneWasDone, Agent!VerdictWasTold
<1>5. faults' \in Nat /\ told \subseteq told' /\ told' \cup guessed' \subseteq Nat
  BY <1>1 DEF Agent!TypeOK, GuessKept
<1> QED BY <1>2, <1>3, <1>4, <1>5, WatchStep

LEMMA LookKeeps == ASSUME Agent!DelegationAssumption, IInv, Agent!Look PROVE IInv'
<1> DEFINE snap == scan.snap
<1>1. /\ scan # None /\ scan.phase = "look"
      /\ UNCHANGED <<aged, space, agent, took, fin, report, prompts, launch, send, stop, booted, told, faults, leaked>>
  BY DEF Agent!Look, Agent!host, Agent!tools
<1>2. /\ Agent!TypeOK /\ SeqCovers /\ row # None /\ row \in Agent!Row /\ snap \in Agent!Row /\ snap.at <= took
      /\ snap.status \in {"running", "needs_input"} /\ (snap.owed => row.owed)
      /\ Sound(agent, fin, snap.base, snap.at)
  BY <1>1, ScanFacts DEF IInv, ScanSound
<1>3. CASE ~Agent!Alive /\ Agent!TellLater(snap, "failed", None, FALSE) /\ UNCHANGED <<row, guessed>>
  <2>1. Sound(agent, fin, None, snap.at)
    BY DEF Sound
  <2> HIDE DEF snap
  <2>2. scan' \in Agent!Scan /\ ScanSound'
    BY <1>1, <1>2, <1>3, <2>1, Tells
  <2> QED BY <1>1, <1>2, <1>3, <2>2, NoGuess, LookedKeeps DEF Looked
<1>4. CASE Agent!Alive /\ snap.base = None /\ Agent!LookPending(snap) /\ UNCHANGED guessed
  BY <1>1, <1>2, <1>4, NoGuess, PendingHolds, LookedKeeps
<1>5. CASE Agent!Alive /\ snap.base # None /\ snap.status = "needs_input" /\ Agent!LookParked(snap)
  BY <1>1, <1>5, ParkedHolds, LookedKeeps
<1>6. CASE Agent!Alive /\ snap.base # None /\ Agent!Judge(snap) /\ UNCHANGED row
  <2> HIDE DEF snap
  <2>1. snap.owed => row'.owed
    BY <1>2, <1>6
  <2>2. scan' \in Agent!Scan \cup {None} /\ ScanSound' /\ GuessKept
    BY <1>1, <1>2, <1>6, <2>1, JudgeHolds
  <2> QED BY <1>1, <1>2, <1>6, <2>2, LookedKeeps DEF Looked
<1> QED BY <1>3, <1>4, <1>5, <1>6 DEF Agent!Look

\* A scan that ends without a word leaves the row to the next.
LEMMA Misses ==
  ASSUME Agent!DelegationAssumption, IInv, scan # None, Agent!Fault, Agent!Ends,
         UNCHANGED <<row, aged, Agent!host, Agent!tools, booted, told, guessed, leaked>>
  PROVE  IInv'
<1>1. UNCHANGED <<row, aged, space, agent, took, fin, report, prompts, launch, send, stop, booted, told, guessed, leaked>>
  BY DEF Agent!host, Agent!tools
<1>2. /\ Agent!TypeOK /\ SeqCovers /\ row # None /\ row \in Agent!Row /\ row.at <= took /\ Sound(agent, fin, row.base, row.at)
  BY ScanFacts
<1>3. faults' \in Nat /\ told \subseteq told' /\ told' \cup guessed' \subseteq Nat
  BY <1>1, <1>2 DEF Agent!Fault, Agent!TypeOK, Agent!DelegationAssumption
<1>4. scan' = None /\ ScanSound'
  BY DEF Agent!Ends, ScanSound
<1>5. row'.status = "done" => (row'.at <= fin \/ row'.at \in guessed') /\ row'.at \in told'
  BY <1>1, <1>2 DEF IInv, Agent!DoneWasDone, Agent!VerdictWasTold
<1> QED BY <1>1, <1>2, <1>3, <1>4, <1>5, WatchStep

LEMMA LandsKeeps == ASSUME Agent!DelegationAssumption, IInv, Agent!Lands PROVE IInv'
<1> DEFINE snap == scan.snap
           tell == scan.tell
<1>1. /\ scan # None /\ scan.phase = "tell" /\ scan' = None
      /\ told' = (IF tell.to = "done" THEN told \cup {snap.at} ELSE told)
      /\ UNCHANGED <<aged, space, agent, took, fin, report, prompts, launch, send, stop, booted, guessed, faults, leaked>>
  BY DEF Agent!Lands, Agent!Ends, Agent!host, Agent!tools
<1>2. /\ Agent!TypeOK /\ row # None /\ row \in Agent!Row /\ row.at <= took /\ Sound(agent, fin, row.base, row.at)
      /\ snap.at \in Nat /\ tell \in Agent!Telling /\ tell.base \in Nat \cup {None}
      /\ Sound(agent, fin, tell.base, snap.at) /\ snap.status \in {"running", "needs_input"}
      /\ tell.to # None /\ (tell.to = "done" => snap.at <= fin \/ snap.at \in guessed)
      /\ (tell.to = "failed" => ~Agent!Alive)
  BY <1>1, ScanFacts DEF IInv, ScanSound
<1>3. tell.to \in {"done", "needs_input", "failed"} /\ tell.to \in Agent!Statuses
  BY <1>2 DEF Agent!Telling, Agent!Statuses
<1>4. row' = row \/ Agent!Transition(snap, tell.to, tell.base)
  BY DEF Agent!Lands
<1> HIDE DEF snap, tell
<1>5. /\ row' \in Agent!Row /\ row' # None /\ row'.bound = row.bound /\ row'.at = row.at /\ row'.owed = row.owed
      /\ \/ row' = row
         \/ /\ row.status = snap.status /\ row.at = snap.at /\ row'.status = tell.to
            /\ row'.base = IF tell.base = None THEN row.base ELSE tell.base
  BY <1>2, <1>3, <1>4, Transitions
<1>6. row'.at <= took /\ Sound(agent, fin, row'.base, row'.at)
  BY <1>2, <1>5
<1>7. told \subseteq told' /\ told' \cup guessed' \subseteq Nat /\ faults' \in Nat
  BY <1>1, <1>2 DEF Agent!TypeOK
<1>8. row'.status = "done" => (row'.at <= fin \/ row'.at \in guessed') /\ row'.at \in told'
  BY <1>1, <1>2, <1>5, <1>7 DEF IInv, Agent!DoneWasDone, Agent!VerdictWasTold
<1>9. /\ row'.status = "stopped" => row.status = "stopped"
      /\ row'.status = "failed" => row.status = "failed" \/ leaked \/ ~Agent!Alive
  BY <1>2, <1>3, <1>5
<1>10. ScanSound'
  BY <1>1 DEF ScanSound
<1> QED BY <1>1, <1>5, <1>6, <1>7, <1>8, <1>9, <1>10, WatchStep

\* The owed task is prompted on its own: the row it is owed in has no follow-up.
LEMMA DeliverKeeps == ASSUME Agent!DelegationAssumption, IInv, Agent!Deliver PROVE IInv'
<1> DEFINE snap == scan.snap
           tell == scan.tell
           taken == [snap EXCEPT !.at = prompts + 1]
<1>1. /\ scan # None /\ scan.phase = "deliver"
      /\ UNCHANGED <<aged, space, fin, report, launch, send, stop, booted, told, guessed, leaked>>
      /\ prompts' = IF took' = took THEN prompts ELSE prompts + 1
  BY DEF Agent!Deliver, Agent!known
<1>2. /\ Agent!TypeOK /\ SeqCovers /\ row # None /\ row \in Agent!Row /\ ~LaunchOn
      /\ row.at <= took /\ Sound(agent, fin, row.base, row.at) /\ row.at \in Nat /\ row.base \in Nat \cup {None}
      /\ snap \in Agent!Row /\ snap.at \in Nat /\ snap.at <= took /\ tell.base \in Nat \cup {None}
      /\ took \in Nat /\ fin \in Nat
  BY <1>1, ScanFacts
<1>3. /\ Sound(agent, fin, tell.base, snap.at) /\ snap.status \in {"running", "needs_input"} /\ row.owed /\ send = None
  BY <1>1, <1>2 DEF IInv, ScanSound, OwedIsAlone
<1>4. prompts \in Nat /\ prompts + 1 \in Nat /\ took <= prompts + 1 /\ fin <= took /\ took <= prompts
  BY <1>2, Facts
<1>5. \/ Agent!Prompted(prompts + 1) /\ UNCHANGED <<row, faults>> /\ Agent!At("baseline", taken, Agent!Nothing)
      \/ Agent!NotPrompted(prompts + 1) /\ Agent!Transition(snap, "needs_input", tell.base) /\ scan' = None
  BY DEF Agent!Deliver, Agent!Ends
<1>6. HostMoves /\ took' \in {took, prompts + 1} /\ (Agent!Alive' => Agent!Alive) /\ faults' \in Nat
  <2>1. CASE Agent!Prompted(prompts + 1) /\ UNCHANGED faults
    BY <1>1, <1>2, <1>4, <2>1, PromptMoves DEF Agent!TypeOK
  <2>2. CASE Agent!NotPrompted(prompts + 1)
    BY <1>1, <1>2, <1>4, <2>2, NotPromptMoves
  <2> QED BY <1>5, <2>1, <2>2
<1>7. took <= took' /\ took' <= prompts' /\ prompts' \in Nat /\ took' \in Nat
  BY <1>1, <1>2, <1>4, <1>6
<1>8. Sound(agent', fin', row.base, row.at) /\ Sound(agent', fin', tell.base, snap.at)
  BY <1>2, <1>3, <1>6 DEF HostMoves
<1>9. /\ row' \in Agent!Row /\ row' # None /\ row'.bound = row.bound /\ row'.at = row.at
      /\ row'.status = row.status \/ row'.status = "needs_input"
      /\ row'.status = "stopped" => row.status = "stopped"
      /\ Sound(agent', fin', row'.base, row'.at)
  <2>1. CASE row' = row
    BY <1>2, <1>8, <2>1
  <2>2. CASE Agent!Transition(snap, "needs_input", tell.base)
    <3> HIDE DEF snap, tell
    <3>1. "needs_input" \in Agent!Statuses
      BY DEF Agent!Statuses
    <3>2. /\ row' \in Agent!Row /\ row' # None /\ row'.bound = row.bound /\ row'.at = row.at
          /\ \/ row' = row
             \/ /\ row.status = snap.status /\ row.at = snap.at /\ row'.status = "needs_input"
                /\ row'.base = IF tell.base = None THEN row.base ELSE tell.base
      BY <1>2, <2>2, <3>1, Transitions
    <3> QED BY <1>8, <3>2
  <2> QED BY <1>5, <2>1, <2>2
<1>10. scan' \in Agent!Scan \cup {None} /\ ScanSound'
  <2>1. CASE scan' = None
    BY <2>1 DEF ScanSound
  <2>2. CASE Agent!Prompted(prompts + 1) /\ Agent!At("baseline", taken, Agent!Nothing)
    <3> DEFINE new == [phase |-> "baseline", snap |-> taken, tell |-> Agent!Nothing]
    <3>1. taken \in Agent!Row /\ taken.at = prompts + 1
      BY <1>2, <1>4 DEF Agent!Row
    <3> HIDE DEF taken
    <3>2. new \in Agent!Scan /\ new.phase = "baseline" /\ new.snap = taken
      BY <3>1, NothingTold DEF Agent!Scan
    <3>3. scan' = new
      BY <2>2 DEF Agent!At
    <3> HIDE DEF new
    <3>4. took' = prompts + 1
      BY <2>2 DEF Agent!Prompted, Agent!Takes
    <3> QED BY <1>4, <3>1, <3>2, <3>3, <3>4 DEF ScanSound
  <2> QED BY <1>5, <2>1, <2>2
<1>11. Agent!TypeOK'
  BY <1>1, <1>2, <1>6, <1>7, <1>9, <1>10, Facts DEF Agent!TypeOK, HostMoves
<1>12. SeqCovers' /\ RowSound' /\ SendSound' /\ OwedIsAlone' /\ LaunchOwns' /\ CheckLeaked'
  <2>1. row'.at <= took'
    BY <1>2, <1>7, <1>9
  <2>2. SendSound' /\ OwedIsAlone' /\ SeqCovers' /\ RowSound'
    BY <1>1, <1>3, <1>6, <1>9, <2>1 DEF SendSound, OwedIsAlone, HostMoves, RowSound
  <2>3. LaunchOwns' /\ CheckLeaked'
    BY <1>1, <1>2 DEF IInv, LaunchOwns, LaunchOn, CheckLeaked
  <2> QED BY <2>2, <2>3
<1>13. NothingYet' /\ Agent!DoneWasDone' /\ Agent!VerdictWasTold'
  <2>1. NothingYet'
    BY <1>1, <1>2, <1>6, <1>9 DEF IInv, NothingYet
  <2>2. Agent!DoneWasDone' /\ Agent!VerdictWasTold'
    BY <1>1, <1>2, <1>9 DEF IInv, Agent!DoneWasDone, Agent!VerdictWasTold
  <2> QED BY <2>1, <2>2
<1>14. OverIsQuiet'
  <2>1. launch # "start" /\ row'.status \in {row.status, "needs_input"}
    BY <1>2, <1>9 DEF LaunchOn, Agent!Launches
  <2> QED BY <1>1, <1>2, <1>6, <1>9, <2>1 DEF IInv, OverIsQuiet
<1> QED BY <1>10, <1>11, <1>12, <1>13, <1>14 DEF IInv

LEMMA DeliveredKeeps == ASSUME Agent!DelegationAssumption, IInv, Agent!Delivered PROVE IInv'
<1>1. /\ scan # None /\ scan.phase = "baseline" /\ scan' = None
      /\ UNCHANGED <<aged, space, agent, took, fin, report, prompts, launch, send, stop, booted, told, guessed, faults, leaked>>
  BY DEF Agent!Delivered, Agent!Ends, Agent!host, Agent!tools, Agent!known
<1>2. /\ Agent!TypeOK /\ SeqCovers /\ row # None /\ row \in Agent!Row /\ row.at <= took /\ Sound(agent, fin, row.base, row.at)
      /\ scan.snap.at \in Nat /\ scan.snap.at <= took
  BY <1>1, ScanFacts
<1>3. PICK base \in Agent!Baselines : Agent!MarkRunning(base, scan.snap.at)
  BY DEF Agent!Delivered
<1>4. base \in Nat \cup {None} /\ Sound(agent, fin, base, scan.snap.at)
  BY <1>2, FreshBaseline
<1>5. /\ row' \in Agent!Row /\ row' # None /\ row'.bound = row.bound
      /\ \/ row.status = "stopped" /\ row' = row
         \/ /\ row.status # "stopped" /\ row'.status = "running" /\ row'.base = base /\ row'.at = scan.snap.at
            /\ ~row'.owed
  BY <1>2, <1>3, <1>4, Marked
<1>6. row'.at <= took /\ Sound(agent, fin, row'.base, row'.at) /\ (row'.owed => row.owed)
  BY <1>2, <1>4, <1>5
<1>7. ScanSound' /\ scan' = None
  BY <1>1 DEF ScanSound
<1>8. faults' \in Nat /\ told \subseteq told' /\ told' \cup guessed' \subseteq Nat
  BY <1>1, <1>2 DEF Agent!TypeOK
<1> QED BY <1>1, <1>5, <1>6, <1>7, <1>8, WatchStep

\* The close of a launch that died: the agent is gone, or known to be left.
LEMMA RecoverCloseKeeps == ASSUME Agent!DelegationAssumption, IInv, Agent!RecoverClose PROVE IInv'
<1> DEFINE new == [scan EXCEPT !.phase = "recovered"]
<1>1. /\ scan # None /\ scan.phase = "recover" /\ scan' = new
      /\ UNCHANGED <<row, aged, took, fin, report, prompts, launch, send, stop, booted, told, guessed, faults>>
      /\ \/ scan.snap.bound /\ space' = FALSE /\ agent' = None /\ UNCHANGED leaked
         \/ scan.snap.bound /\ leaked' = TRUE /\ UNCHANGED <<space, agent>>
         \/ ~scan.snap.bound /\ UNCHANGED <<space, agent, leaked>>
  BY DEF Agent!RecoverClose, Agent!Closes, Agent!CloseFails, Agent!tools, Agent!known
<1>2. /\ Agent!TypeOK /\ SeqCovers /\ RowSound /\ SendSound /\ ScanSound /\ row # None /\ row \in Agent!Row /\ ~LaunchOn
      /\ scan \in Agent!Scan /\ took \in Nat
  BY <1>1, ScanFacts DEF IInv
<1>3. /\ new \in Agent!Scan /\ new # None /\ new.phase = "recovered" /\ new.snap = scan.snap
  BY <1>2 DEF Agent!Scan, Agent!DelegationAssumption
<1> HIDE DEF new
<1>4. HostMoves
  BY <1>1, <1>2, Still, AgentGone
<1>5. (Agent!Alive' => Agent!Alive) /\ (leaked => leaked') /\ took <= took' /\ prompts <= prompts' /\ prompts' \in Nat
  BY <1>1, <1>2, Facts DEF Agent!Alive
<1>6. Agent!TypeOK'
  BY <1>1, <1>2, <1>3, <1>4 DEF Agent!TypeOK, HostMoves, Agent!Alive
<1>7. RowSound' /\ SendSound' /\ SeqCovers'
  BY <1>1, <1>2, <1>4, <1>5, RowCarried, SendCarried DEF HostMoves
<1>8. ScanSound'
  <2>1. ~Agent!Alive' \/ leaked'
    <3>1. ~scan.snap.bound => ~Agent!Alive
      BY <1>1, <1>2 DEF IInv, ScanSound, NothingYet
    <3> QED BY <1>1, <3>1 DEF Agent!Alive
  <2>2. scan.snap.at <= took' /\ scan.snap.status = "starting"
    BY <1>1, <1>2 DEF ScanSound
  <2> QED BY <1>1, <1>3, <2>1, <2>2 DEF ScanSound
<1>9. LaunchOwns' /\ OwedIsAlone' /\ CheckLeaked' /\ Agent!DoneWasDone' /\ Agent!VerdictWasTold'
  <2>1. LaunchOwns' /\ OwedIsAlone'
    BY <1>1, <1>2 DEF IInv, LaunchOwns, LaunchOn, OwedIsAlone
  <2>2. CheckLeaked' /\ Agent!DoneWasDone' /\ Agent!VerdictWasTold'
    BY <1>1, <1>5 DEF IInv, CheckLeaked, Agent!DoneWasDone, Agent!VerdictWasTold
  <2> QED BY <2>1, <2>2
<1>10. NothingYet' /\ OverIsQuiet'
  <2>1. launch # "start"
    BY <1>2 DEF LaunchOn, Agent!Launches
  <2> QED BY <1>1, <1>2, <1>5, <2>1 DEF IInv, NothingYet, OverIsQuiet
<1> QED BY <1>6, <1>7, <1>8, <1>9, <1>10 DEF IInv

LEMMA RecoveredKeeps == ASSUME Agent!DelegationAssumption, IInv, Agent!Recovered PROVE IInv'
<1> DEFINE snap == scan.snap
<1>1. /\ scan # None /\ scan.phase = "recovered" /\ scan' = None /\ Agent!Transition(snap, "failed", None)
      /\ UNCHANGED <<aged, space, agent, took, fin, report, prompts, launch, send, stop, booted, told, guessed, faults, leaked>>
  BY DEF Agent!Recovered, Agent!Ends, Agent!host, Agent!tools, Agent!known
<1>2. /\ Agent!TypeOK /\ row # None /\ row \in Agent!Row /\ row.at <= took /\ Sound(agent, fin, row.base, row.at)
      /\ ~Agent!Alive \/ leaked
  BY <1>1, ScanFacts DEF IInv, ScanSound
<1> HIDE DEF snap
<1>3. /\ row' \in Agent!Row /\ row' # None /\ row'.bound = row.bound /\ row'.at = row.at /\ row'.owed = row.owed
      /\ \/ row' = row
         \/ row'.status = "failed" /\ row'.base = row.base
  <2>1. "failed" \in Agent!Statuses /\ None \in Nat \cup {None}
    BY DEF Agent!Statuses
  <2> QED BY <1>1, <1>2, <2>1, Transitions
<1>4. /\ row'.at <= took /\ Sound(agent, fin, row'.base, row'.at)
      /\ row'.status = "stopped" => row.status = "stopped"
      /\ row'.status = "failed" => row.status = "failed" \/ leaked \/ ~Agent!Alive
  BY <1>2, <1>3
<1>5. row'.status = "done" => (row'.at <= fin \/ row'.at \in guessed') /\ row'.at \in told'
  BY <1>1, <1>2, <1>3 DEF IInv, Agent!DoneWasDone, Agent!VerdictWasTold
<1>6. faults' \in Nat /\ told \subseteq told' /\ told' \cup guessed' \subseteq Nat /\ ScanSound'
  BY <1>1, <1>2 DEF Agent!TypeOK, ScanSound
<1> QED BY <1>1, <1>3, <1>4, <1>5, <1>6, WatchStep

LEMMA WatchingKeeps == ASSUME Agent!DelegationAssumption, IInv, Agent!Watching \/ Agent!Unreachable \/ Agent!Refused PROVE IInv'
<1>1. CASE Agent!Unreachable \/ Agent!Refused
  <2>1. /\ scan # None /\ Agent!Fault /\ Agent!Ends /\ UNCHANGED <<row, aged, Agent!host, Agent!tools, booted, told, guessed, leaked>>
    BY <1>1 DEF Agent!Unreachable, Agent!Refused, Agent!known
  <2> QED BY <2>1, Misses
<1> QED BY <1>1, StartScanKeeps, LookKeeps, LandsKeeps, DeliverKeeps, DeliveredKeeps,
           RecoverCloseKeeps,
   RecoveredKeeps
        DEF Agent!Watching

-----------------------------------------------------------------------------
(* The theorems. *)

LEMMA InitInv == ASSUME Agent!DelegationAssumption, Agent!Init PROVE IInv
<1>1. Agent!TypeOK
  <2>1. faults \in Nat /\ told \cup guessed \subseteq Nat /\ {aged, took, fin, report, prompts} \subseteq Nat
    BY DEF Agent!Init, Agent!DelegationAssumption
  <2>2. row = None /\ agent = None /\ launch = None /\ send = None /\ stop = None /\ scan = None
    BY DEF Agent!Init
  <2>3. space = FALSE /\ booted = TRUE /\ leaked = FALSE /\ report = 0 /\ fin = 0 /\ took = 0 /\ prompts = 0
    BY DEF Agent!Init
  <2>4. /\ row \in Agent!Row \cup {None} /\ agent \in Agent!Shown \cup {None} /\ launch \in Agent!Launches \cup {None}
        /\ send \in Agent!Sending \cup {None} /\ stop \in {"close", "check", None} /\ scan \in Agent!Scan \cup {None}
    BY <2>2
  <2>5. space \in BOOLEAN /\ booted \in BOOLEAN /\ leaked \in BOOLEAN /\ ~Agent!Alive
    BY <2>2, <2>3 DEF Agent!Alive
  <2>6. report <= fin /\ fin <= took /\ took <= prompts
    BY <2>3
  <2> QED BY <2>1, <2>4, <2>5, <2>6 DEF Agent!TypeOK
<1>2. SeqCovers /\ NothingYet /\ LaunchOwns /\ OwedIsAlone
  BY DEF Agent!Init, SeqCovers, NothingYet, LaunchOwns, LaunchOn, OwedIsAlone, Agent!Alive,
     Agent!DelegationAssumption
<1>3. RowSound /\ SendSound /\ ScanSound /\ OverIsQuiet /\ CheckLeaked /\ Agent!DoneWasDone /\ Agent!VerdictWasTold
  BY DEF Agent!Init, RowSound, SendSound, ScanSound, OverIsQuiet, CheckLeaked, Agent!DoneWasDone,
     Agent!VerdictWasTold,
     Agent!DelegationAssumption
<1> QED BY <1>1, <1>2, <1>3 DEF IInv

LEMMA StutterKeeps == ASSUME IInv, UNCHANGED Agent!vars PROVE IInv'
<1>1. UNCHANGED <<row, aged, space, agent, took, fin, report, prompts, launch, send, stop, scan, booted, told, guessed, faults,
                  leaked>>
  BY DEF Agent!vars, Agent!host, Agent!tools, Agent!watcher, Agent!known
<1>2. Agent!TypeOK' /\ SeqCovers' /\ NothingYet' /\ LaunchOwns' /\ OwedIsAlone' /\ RowSound'
  BY <1>1 DEF IInv, Agent!TypeOK, SeqCovers, NothingYet, LaunchOwns, LaunchOn, OwedIsAlone,
     RowSound,
     Agent!Alive
<1>3. SendSound' /\ ScanSound'
  BY <1>1 DEF IInv, SendSound, ScanSound, Agent!Alive
<1>4. OverIsQuiet' /\ CheckLeaked' /\ Agent!DoneWasDone' /\ Agent!VerdictWasTold'
  BY <1>1 DEF IInv, OverIsQuiet, CheckLeaked, Agent!DoneWasDone, Agent!VerdictWasTold, Agent!Alive
<1> QED BY <1>2, <1>3, <1>4 DEF IInv

LEMMA NextInv == ASSUME Agent!DelegationAssumption, IInv, [Agent!Next]_(Agent!vars) PROVE IInv'
<1>1. CASE Agent!Launch \/ Agent!Launching
  BY <1>1, LaunchKeeps, LaunchingKeeps
<1>2. CASE Agent!Send \/ Agent!SendReturns \/ Agent!SendBaseline
  BY <1>2, SendKeeps, SendReturnsKeeps, SendBaselineKeeps
<1>3. CASE Agent!Stop \/ Agent!StopReturns
  BY <1>3, StopKeeps, StopReturnsKeeps
<1>4. CASE Agent!Watching \/ Agent!Unreachable \/ Agent!Refused
  BY <1>4, WatchingKeeps
<1>5. CASE Agent!Finish \/ Agent!Wander \/ Agent!Age \/ Agent!Crash
  BY <1>5, FinishKeeps, WanderKeeps, AgeKeeps, CrashKeeps
<1>6. CASE UNCHANGED Agent!vars
  BY <1>6, StutterKeeps
<1> QED BY <1>1, <1>2, <1>3, <1>4, <1>5, <1>6 DEF Agent!Next

\* Through every interleaving of the launch, a follow-up, a stop and the scan, and every crash
\* between two awaits, the row, the agent and what each of them carries fit each other
\* (delegation-lifecycle.ts).
THEOREM DelegationInvariant == Agent!DelegationAssumption => (Agent!Spec => []IInv)
<1> SUFFICES ASSUME Agent!DelegationAssumption PROVE Agent!Spec => []IInv
  OBVIOUS
<1>1. Agent!Init => IInv
  BY InitInv
<1>2. IInv /\ [Agent!Next]_(Agent!vars) => IInv'
  BY NextInv
<1> QED BY <1>1, <1>2, PTL DEF Agent!Spec

LEMMA Truthful == ASSUME Agent!DelegationAssumption, IInv PROVE Agent!DelegationInv
<1>1. None # "closing"
  BY DEF Agent!DelegationAssumption, Agent!Launches
<1>2. Agent!NothingLeftRunning
  BY <1>1 DEF IInv, OverIsQuiet, Agent!NothingLeftRunning
<1> QED BY <1>2 DEF IInv, Agent!DelegationInv

\* Beside memory and the subagent runs a delegation takes its own steps or none: the three share
\* no variable.
LEMMA OwnSteps == BackgroundSpec => Agent!Init /\ [][Agent!Next]_(Agent!vars)
<1>1. BackgroundInit => Agent!Init
  BY DEF BackgroundInit
<1>2. [BackgroundNext]_all => [Agent!Next]_(Agent!vars)
  BY DEF BackgroundNext, all, delegation, Agent!vars, Agent!host, Agent!tools, Agent!watcher, Agent!known
<1> QED BY <1>1, <1>2, PTL DEF BackgroundSpec

\* Done means that the last prompt was done and told, and what is stopped or failed leaves no
\* agent running but by a close that failed (delegation-lifecycle.ts, check and stop).
THEOREM DelegationHolds ==
  /\ Agent!DelegationAssumption => (Agent!Spec => []Agent!DelegationInv)
  /\ BackgroundSpec => []DelegationInv
<1>1. Agent!DelegationAssumption => (Agent!Spec => []Agent!DelegationInv)
  <2> SUFFICES ASSUME Agent!DelegationAssumption PROVE Agent!Spec => []Agent!DelegationInv
    OBVIOUS
  <2>1. Agent!Spec => []IInv
    BY DelegationInvariant
  <2>2. IInv => Agent!DelegationInv
    BY Truthful
  <2> QED BY <2>1, <2>2, PTL
<1>2. BackgroundSpec => []DelegationInv
  <2>1. Agent!Init => IInv
    BY InitInv, AgentAssumption
  <2>2. IInv /\ [Agent!Next]_(Agent!vars) => IInv'
    BY NextInv, AgentAssumption
  <2>3. IInv => DelegationInv
    BY Truthful, AgentAssumption DEF DelegationInv
  <2> QED BY <2>1, <2>2, <2>3, OwnSteps, PTL
<1> QED BY <1>1, <1>2

LEMMA StoppedStays ==
  ASSUME Agent!DelegationAssumption, IInv, [Agent!Next]_(Agent!vars), row # None,
         row.status = "stopped"
  PROVE  row'.status = "stopped"
<1>1. Agent!TypeOK /\ row \in Agent!Row
  BY Facts DEF IInv
<1>2. ASSUME row' = row \/ Agent!MarkStopped PROVE row'.status = "stopped"
  BY <1>1, <1>2 DEF Agent!MarkStopped, Agent!Row
<1>3. ASSUME NEW snap, snap.status # "stopped", NEW to, NEW base,
             Agent!Transition(snap, to, base) PROVE row' = row
  BY <1>3 DEF Agent!Transition, Agent!Same
<1>4. ASSUME NEW base, NEW at, Agent!MarkRunning(base, at) PROVE row' = row
  BY <1>4 DEF Agent!MarkRunning, Agent!Stopped
<1>5. CASE Agent!Launching
  <2>1. CASE Agent!Workspace
    BY <1>1, <2>1 DEF Agent!Workspace, Agent!FailStart, Agent!Stopped, Agent!Row
  <2>2. CASE Agent!Start \/ Agent!Park \/ Agent!PromptTask \/ Agent!Closing
    BY <2>2 DEF Agent!Start, Agent!Park, Agent!PromptTask, Agent!Closing, Agent!FailStart,
       Agent!Stopped
  <2>3. CASE Agent!Baseline
    BY <1>2, <1>4, <2>3 DEF Agent!Baseline
  <2> QED BY <1>2, <1>5, <2>1, <2>2, <2>3 DEF Agent!Launching
<1>6. CASE Agent!Watching \/ Agent!Unreachable \/ Agent!Refused
  <2>1. CASE Agent!StartScan \/ Agent!RecoverClose \/ Agent!Unreachable \/ Agent!Refused
    BY <1>2, <2>1 DEF Agent!StartScan, Agent!RecoverClose, Agent!Unreachable, Agent!Refused
  <2>2. CASE Agent!Look \/ Agent!Lands \/ Agent!Deliver \/ Agent!Recovered
    <3>1. scan # None /\ scan.snap.status # "stopped"
      BY <2>2 DEF Agent!Look, Agent!Lands, Agent!Deliver, Agent!Recovered, IInv, ScanSound
    <3>2. ~Agent!Same(scan.snap)
      BY <3>1 DEF Agent!Same
    <3>3. row' = row
      <4>1. CASE Agent!Look
        BY <3>2, <4>1 DEF Agent!Look, Agent!LookPending, Agent!LookParked, Agent!Captured
      <4>2. CASE Agent!Lands
        BY <1>3, <3>1, <4>2 DEF Agent!Lands
      <4>3. CASE Agent!Deliver
        BY <1>3, <3>1, <4>3 DEF Agent!Deliver
      <4>4. CASE Agent!Recovered
        BY <1>3, <3>1, <4>4 DEF Agent!Recovered
      <4> QED BY <2>2, <4>1, <4>2, <4>3, <4>4
    <3> QED BY <1>2, <3>3
  <2>3. CASE Agent!Delivered
    BY <1>2, <1>4, <2>3 DEF Agent!Delivered
  <2> QED BY <1>6, <2>1, <2>2, <2>3 DEF Agent!Watching
<1>7. CASE Agent!Stop \/ Agent!StopReturns
  BY <1>2, <1>7 DEF Agent!Stop, Agent!StopReturns
<1>8. CASE Agent!SendBaseline
  BY <1>2, <1>4, <1>8 DEF Agent!SendBaseline
<1>9. CASE Agent!Launch \/ Agent!Send \/ Agent!SendReturns \/ Agent!Finish \/ Agent!Wander \/ Agent!Age \/ Agent!Crash \/ UNCHANGED Agent!vars
  BY <1>2, <1>9 DEF Agent!Launch, Agent!Send, Agent!SendReturns, Agent!Finish, Agent!Wander,
     Agent!Age,
     Agent!Crash, Agent!vars
<1> QED BY <1>5, <1>6, <1>7, <1>8, <1>9 DEF Agent!Next

\* A stop is final: no launch, follow-up or scan that was under way when it came revives the row
\* or overwrites its verdict (delegations.ts, qRunning and transitionIf).
THEOREM DelegationStopIsFinal == Agent!DelegationAssumption => (Agent!Spec => Agent!StopIsFinal)
<1> SUFFICES ASSUME Agent!DelegationAssumption PROVE Agent!Spec => Agent!StopIsFinal
  OBVIOUS
<1>1. Agent!Spec => []IInv
  BY DelegationInvariant
<1>2. IInv /\ [Agent!Next]_(Agent!vars) => [row # None /\ Agent!Stopped => row'.status = "stopped"]_(Agent!vars)
  BY StoppedStays DEF Agent!Stopped
<1> QED BY <1>1, <1>2, PTL DEF Agent!Spec, Agent!StopIsFinal
=============================================================================
