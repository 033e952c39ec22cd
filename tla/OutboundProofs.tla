----------------------------- MODULE OutboundProofs -----------------------------
(***************************************************************************)
(* What leaves for the world, for every set of drafts and sessions and     *)
(* every bound: a draft is sent at most once and what the operator is told *)
(* of it is so (MailOutbox); and the three sides of a handed-over          *)
(* responsibility: its prompts (ManagedSends), its observer (Observation)  *)
(* and its follow-up (Followups).                                          *)
(***************************************************************************)
EXTENDS MCOutbound, SequenceTheorems, TLAPS

-----------------------------------------------------------------------------
(* The mail outbox.                                                        *)

\* A draft that is at rest before its decision has not left; a POST that is awaited
\* left under a claim; "neverSent" is only said of a row that stays decided.
OneDraft(d) ==
    /\ accepted[d] <= 1
    /\ d \in afloat => accepted[d] = 0
    /\ row[d] \in {"unqueued", "pending", "expired"} => accepted[d] = 0 /\ d \notin afloat
    /\ flight[d] = "post" => row[d] = "sending" /\ (d \in afloat \/ accepted[d] = 1)
    /\ stamp[d] = "neverSent" => /\ row[d] \in Decided
                                  /\ accepted[d] = 0 /\ d \notin afloat
    /\ stamp[d] = "sent" => accepted[d] = 1 /\ row[d] = "sent"

Inv == TypeOK /\ \A d \in Drafts : OneDraft(d)

-----------------------------------------------------------------------------
\* Init establishes the invariant.
LEMMA InitInv == Init => Inv
  BY DEF Init, Inv, TypeOK, OneDraft, Status, Decided, Flight

\* Queueing, presentation and taps that settle.
LEMMA OperatorSteps ==
  ASSUME Inv, NEW d \in Drafts,
         Queue(d) \/ Presented(d) \/ AbandonClaim(d) \/ TapExpired(d) \/ Cancel(d)
  PROVE  Inv'
<1>1. CASE Queue(d)
  BY <1>1 DEF Queue, Inv, TypeOK, OneDraft, Status, Decided, Flight
<1>2. CASE Presented(d)
  BY <1>2 DEF Presented, Inv, TypeOK, OneDraft, Status, Decided, Flight
<1>3. CASE AbandonClaim(d)
  BY <1>3 DEF AbandonClaim, AtRest, Settle, Inv, TypeOK, OneDraft, Status, Decided, Flight
<1>4. CASE TapExpired(d)
  BY <1>4 DEF TapExpired, AtRest, Settle, Inv, TypeOK, OneDraft, Status, Decided, Flight
<1>5. CASE Cancel(d)
  BY <1>5 DEF Cancel, AtRest, Settle, Inv, TypeOK, OneDraft, Status, Decided, Flight
<1>6. QED  BY <1>1, <1>2, <1>3, <1>4, <1>5

\* A flight that awaits nothing of Gmail.
LEMMA FlightInv ==
  ASSUME Inv, NEW d \in Drafts, NEW f \in Flight \ {"post"}, flight' = [flight EXCEPT ![d] = f],
         UNCHANGED <<row, due, presenting, afloat, accepted, stamp>>
  PROVE  Inv'
  BY DEF Inv, TypeOK, OneDraft

\* The claim writes the row before the POST leaves.
LEMMA ClaimInv ==
  ASSUME Inv, NEW d \in Drafts, Claim(d), UNCHANGED <<due, presenting, accepted, stamp>>
  PROVE  Inv'
<1>1. CASE row[d] = "pending"
  <2>1. TypeOK'
    BY <1>1 DEF Claim, Inv, TypeOK, Status, Flight
  <2>2. OneDraft(d)'
    BY <1>1 DEF Claim, Inv, TypeOK, OneDraft, Decided
  <2>3. ASSUME NEW e \in Drafts, e # d PROVE OneDraft(e)'
    BY <1>1, <2>3 DEF Claim, Inv, TypeOK, OneDraft, Decided
  <2>4. QED  BY <2>1, <2>2, <2>3 DEF Inv
<1>2. CASE row[d] # "pending"
  <2>1. flight' = [flight EXCEPT ![d] = "none"] /\ UNCHANGED <<row, afloat>>
    BY <1>2 DEF Claim
  <2>2. QED  BY <2>1, FlightInv DEF Flight
<1>3. QED  BY <1>1, <1>2

\* A claim, taken at once or after the thread is found.
LEMMA ClaimSteps ==
  ASSUME Inv, NEW d \in Drafts, Send(d) \/ Threaded(d)
  PROVE  Inv'
<1>1. CASE Claim(d) /\ UNCHANGED <<due, presenting, accepted, stamp>>
  BY <1>1, ClaimInv
<1>2. CASE /\ flight' = [flight EXCEPT ![d] = "answer"] \/ flight' = [flight EXCEPT ![d] = "thread"]
           /\ UNCHANGED <<row, due, presenting, afloat, accepted, stamp>>
  BY <1>2, FlightInv DEF Flight
<1>3. QED  BY <1>1, <1>2 DEF Send, Threaded, Answer

\* Gmail's acceptance, and its answers as the flight sees them.
LEMMA GmailSteps ==
  ASSUME Inv, NEW d \in Drafts,
         Accept(d) \/ Rejected(d) \/ Ambiguous(d) \/ Completed(d) \/ Answered(d)
  PROVE  Inv'
<1>1. CASE Accept(d)
  BY <1>1 DEF Accept, Inv, TypeOK, OneDraft, Decided
<1>2. CASE Rejected(d)
  BY <1>2 DEF Rejected, Answer, FromClaim, Inv, TypeOK, OneDraft, Status, Decided, Flight
<1>3. CASE Ambiguous(d)
  BY <1>3 DEF Ambiguous, Answer, Inv, TypeOK, OneDraft, Status, Decided, Flight
<1>4. CASE Completed(d)
  BY <1>4 DEF Completed, Answer, FromClaim, Inv, TypeOK, OneDraft, Status, Decided, Flight
<1>5. CASE Answered(d)
  BY <1>5 DEF Answered, Inv, TypeOK, OneDraft, Status, Decided, Flight
<1>6. QED  BY <1>1, <1>2, <1>3, <1>4, <1>5

\* Time, the sweep, and a crash with the sweep that follows it.
LEMMA ProcessSteps ==
  ASSUME Inv, Sweep \/ Crash \/ \E d \in Drafts : Elapse(d)
  PROVE  Inv'
<1>1. CASE Sweep
  BY <1>1 DEF Sweep, Expire, Inv, TypeOK, OneDraft, Status, Decided, Flight
<1>2. CASE Crash
  BY <1>2 DEF Crash, Expire, Inv, TypeOK, OneDraft, Status, Decided, Flight
<1>3. ASSUME NEW d \in Drafts, Elapse(d) PROVE Inv'
  BY <1>3 DEF Elapse, Inv, TypeOK, OneDraft, Status, Decided, Flight
<1>4. QED  BY <1>1, <1>2, <1>3

\* Every step keeps the invariant.
LEMMA NextInv == Inv /\ [Next]_vars => Inv'
<1> SUFFICES ASSUME Inv, [Next]_vars PROVE Inv'
  OBVIOUS
<1>1. CASE UNCHANGED vars
  BY <1>1 DEF vars, Inv, TypeOK, OneDraft
<1>2. ASSUME NEW d \in Drafts, Operator(d) PROVE Inv'
  BY <1>2, OperatorSteps, ClaimSteps DEF Operator
<1>3. ASSUME NEW d \in Drafts, Flies(d) PROVE Inv'
  BY <1>3, ClaimSteps, GmailSteps DEF Flies
<1>4. ASSUME NEW d \in Drafts, World(d) PROVE Inv'
  BY <1>4, OperatorSteps, GmailSteps, ProcessSteps DEF World
<1>5. CASE Sweep \/ Crash
  BY <1>5, ProcessSteps
<1>6. QED  BY <1>1, <1>2, <1>3, <1>4, <1>5 DEF Next

\* The invariant holds of every reachable state.
THEOREM Invariance == Spec => []Inv
<1>1. Init => Inv  BY InitInv
<1>2. Inv /\ [Next]_vars => Inv'  BY NextInv
<1>3. QED  BY <1>1, <1>2, PTL DEF Spec

-----------------------------------------------------------------------------
\* Gmail takes at most one copy of a draft, whatever the taps, crashes and late
\* acceptances.
THEOREM SentAtMostOnce == Spec => []SentOnce
<1>1. Inv => SentOnce  BY DEF Inv, OneDraft, SentOnce
<1>2. QED  BY <1>1, Invariance, PTL

\* A draft reported never sent was not and will not be, one reported sent was.
THEOREM StampsAreTrue == Spec => []StampIsTrue
<1>1. Inv => StampIsTrue  BY DEF Inv, OneDraft, StampIsTrue
<1>2. QED  BY <1>1, Invariance, PTL

\* A decided row is never decided again.
THEOREM DecisionsAreFinal == Spec => DecidedOnce
<1> DEFINE Kept == \A d \in Drafts : row[d] \in Decided => row'[d] = row[d]
<1>1. Inv /\ [Next]_vars => [Kept]_vars
  <2> SUFFICES ASSUME Inv, Next PROVE Kept
    BY DEF Kept
  <2>1. ASSUME NEW d \in Drafts, Operator(d) PROVE Kept
    BY <2>1 DEF Operator, AbandonClaim, TapExpired, Cancel, Send, Claim, Answer, AtRest, Settle,
                Kept, Decided, Inv, TypeOK
  <2>2. ASSUME NEW d \in Drafts, Flies(d) PROVE Kept
    BY <2>2 DEF Flies, Threaded, Rejected, Ambiguous, Completed, Answered, Claim, Answer,
                FromClaim, Kept, Decided, Inv, TypeOK
  <2>3. ASSUME NEW d \in Drafts, World(d) PROVE Kept
    BY <2>3 DEF World, Queue, Presented, Accept, Elapse, Kept, Decided, Inv, TypeOK
  <2>4. CASE Sweep \/ Crash
    BY <2>4 DEF Sweep, Crash, Expire, Kept, Decided, Inv, TypeOK
  <2>5. QED  BY <2>1, <2>2, <2>3, <2>4 DEF Next
<1>2. QED  BY <1>1, Invariance, PTL DEF Spec, DecidedOnce, Kept

-----------------------------------------------------------------------------
\* Beside the mail and each other the three take their own steps or none: they share no
\* variable.
LEMMA Apart == OutboundSpec => Sends!Spec /\ Watch!Spec /\ Review!Spec
<1>1. OutboundInit => Sends!Init /\ Watch!Init /\ Review!Init
  BY DEF OutboundInit
<1>2. [OutboundNext]_all => [Sends!Next]_(Sends!vars)
  BY DEF OutboundNext, all, sends, Sends!vars
<1>3. [OutboundNext]_all => [Watch!Next]_(Watch!vars)
  BY DEF OutboundNext, all, watch, Watch!vars
<1>4. [OutboundNext]_all => [Review!Next]_(Review!vars)
  BY DEF OutboundNext, all, review, Review!vars
<1> QED BY <1>1, <1>2, <1>3, <1>4, PTL DEF OutboundSpec, Sends!Spec, Watch!Spec, Review!Spec

-----------------------------------------------------------------------------
(* Managed sends: an operation is in doubt until the wire has let go of it. *)

\* What an operation on the wire may still become.
WireSound ==
    \A o \in Sends!Ops :
        /\ wire[o] # "none" => ops[o].state = "sent"
        /\ wire[o] = "preflight" => landed[o] = None /\ o \notin crossing
        /\ wire[o] = "prompt" /\ pane = ops[o].dest => landed[o] \in {None, ops[o].dest}
        /\ o \in crossing => landed[o] = None

\* A caller has read its row after the last detachment the row shows.
AskedSound ==
    /\ \A a \in Sends!Atts : atts[a].left <= moves
    /\ \A c \in Sends!Callers :
          looking[c] # None => (looking[c].att # None => /\ looking[c].snap \in Sends!Attachment
                                                         /\ looking[c].snap.left <= looking[c].at)

SendsInv ==
    Sends!TypeOK /\ Sends!OneInDoubt /\ Sends!VerdictsAreTrue /\ WireSound /\ AskedSound

LEMMA AsSeq ==
  ASSUME NEW S, NEW n \in Nat, NEW f \in [1..n -> S]
  PROVE  f \in Seq(S) /\ Len(f) = n
<1>1. f \in Seq(S)
  BY SeqDef
<1> QED BY <1>1, LenProperties

LEMMA OpsFacts ==
  ASSUME Sends!TypeOK
  PROVE  /\ Sends!Ops = 1..Len(ops) /\ Len(ops) \in Nat /\ Sends!Atts = 1..Len(atts) /\ Len(atts) \in Nat
         /\ \A o \in Sends!Ops : ops[o] \in Sends!Operation
         /\ \A a \in Sends!Atts : atts[a] \in Sends!Attachment
<1>1. ops \in Seq(Sends!Operation) /\ atts \in Seq(Sends!Attachment)
  BY DEF Sends!TypeOK
<1>2. Sends!Ops = 1..Len(ops) /\ Len(ops) \in Nat /\ Sends!Atts = 1..Len(atts) /\ Len(atts) \in Nat
  BY <1>1, LenProperties DEF Sends!Ops, Sends!Atts
<1> QED BY <1>1, <1>2, ElementOfSeq

LEMMA BoundBinds ==
  ASSUME NEW dest \in Sessions
  PROVE  Sends!Bound(dest) \in Sends!Attachment /\ Sends!Bound(dest).left = 0 /\ Sends!Bound(dest).gen = 1
  BY DEF Sends!Bound, Sends!Attachment

LEMMA LeftAt ==
  ASSUME NEW binding \in Sends!Attachment, NEW n \in Nat
  PROVE  LET new == [binding EXCEPT !.health = "detached", !.left = n]
         IN  new \in Sends!Attachment /\ new.left = n
<1>1. [binding EXCEPT !.health = "detached"] \in Sends!Attachment
  BY DEF Sends!Attachment
<1> QED BY <1>1 DEF Sends!Attachment

LEMMA NextGeneration ==
  ASSUME NEW dest \in Sessions, NEW n \in Nat
  PROVE  LET new == [Sends!Bound(dest) EXCEPT !.gen = n + 1]
         IN  new \in Sends!Attachment /\ new.left = 0
<1>1. n + 1 \in Nat
  OBVIOUS
<1> QED BY <1>1, BoundBinds DEF Sends!Attachment

\* The steps that leave the operations alone.
LEMMA OpsAtRest ==
  ASSUME SendsInv, UNCHANGED <<ops, wire, crossing, landed, pane>>,
         active' \in BOOLEAN, rev' \in Nat, moves' \in Nat, moves <= moves',
         atts' \in Seq(Sends!Attachment), Sends!Atts \subseteq Sends!Atts',
         \A a \in Sends!Atts' : atts'[a].left <= moves',
         looking' \in [Sends!Callers -> Sends!Request \cup {None}],
         \A c \in Sends!Callers :
            looking'[c] # None => \/ looking'[c] = looking[c]
                                  \/ looking'[c].att # None => /\ looking'[c].snap \in Sends!Attachment
                                                               /\ looking'[c].snap.left <= looking'[c].at
  PROVE  SendsInv'
<1>1. Sends!Ops' = Sends!Ops
  BY DEF Sends!Ops
<1>2. Sends!TypeOK'
  BY <1>1 DEF SendsInv, Sends!TypeOK
<1>3. Sends!OneInDoubt' /\ Sends!VerdictsAreTrue' /\ WireSound'
  BY <1>1 DEF SendsInv, Sends!OneInDoubt, Sends!InDoubt, Sends!VerdictsAreTrue, WireSound
<1>4. AskedSound'
  BY DEF SendsInv, AskedSound, Sends!Callers
<1> QED BY <1>2, <1>3, <1>4 DEF SendsInv

LEMMA SendKeeps ==
  ASSUME Sends!SendsAssumption, SendsInv, NEW a \in Sends!Atts, Sends!Send(a)
  PROVE  SendsInv'
<1> DEFINE new == [att |-> a, gen |-> atts[a].gen, rev |-> rev,
                   dest |-> atts[a].dest, state |-> "sent", ruled |-> FALSE]
           n == Len(ops) + 1
<1>1. /\ ~Sends!Fenced(a) /\ ops' = Append(ops, new) /\ wire' = Append(wire, "preflight")
      /\ landed' = Append(landed, None) /\ UNCHANGED <<active, rev, atts, looking, pane, crossing, moves>>
  BY DEF Sends!Send
<1>2. /\ Sends!TypeOK /\ Sends!Ops = 1..Len(ops) /\ Len(ops) \in Nat /\ Sends!Atts = 1..Len(atts)
      /\ ops \in Seq(Sends!Operation) /\ atts[a] \in Sends!Attachment /\ crossing \subseteq Sends!Ops
  BY OpsFacts DEF SendsInv, Sends!TypeOK
<1>3. new \in Sends!Operation /\ new.att = a /\ new.dest = atts[a].dest /\ new.state = "sent" /\ ~new.ruled
  <2>1. a \in Nat /\ rev \in Nat
    BY <1>2 DEF Sends!TypeOK
  <2> QED BY <1>2, <2>1 DEF Sends!Operation, Sends!Attachment
<1> HIDE DEF new
<1>4. /\ ops' \in Seq(Sends!Operation) /\ Len(ops') = n /\ ops'[n] = new
      /\ \A o \in Sends!Ops : ops'[o] = ops[o]
  BY <1>1, <1>2, <1>3, AppendProperties
<1>5. /\ wire' \in [1..n -> {"none", "preflight", "prompt"}] /\ wire'[n] = "preflight"
      /\ \A o \in Sends!Ops : wire'[o] = wire[o]
  <2>1. wire \in Seq({"none", "preflight", "prompt"}) /\ Len(wire) = Len(ops)
    <3>1. wire \in [1..Len(ops) -> {"none", "preflight", "prompt"}] /\ Len(ops) \in Nat
      BY <1>2 DEF Sends!TypeOK
    <3> QED BY <3>1, AsSeq
  <2>2. /\ wire' \in Seq({"none", "preflight", "prompt"}) /\ Len(wire') = n /\ wire'[n] = "preflight"
        /\ \A o \in Sends!Ops : wire'[o] = wire[o]
    BY <1>1, <1>2, <2>1, AppendProperties
  <2> QED BY <2>2, LenProperties
<1>6. /\ landed' \in [1..n -> Sessions \cup {None}] /\ landed'[n] = None
      /\ \A o \in Sends!Ops : landed'[o] = landed[o]
  <2>1. landed \in Seq(Sessions \cup {None}) /\ Len(landed) = Len(ops)
    <3>1. landed \in [1..Len(ops) -> Sessions \cup {None}] /\ Len(ops) \in Nat
      BY <1>2 DEF Sends!TypeOK
    <3> QED BY <3>1, AsSeq
  <2>2. /\ landed' \in Seq(Sessions \cup {None}) /\ Len(landed') = n /\ landed'[n] = None
        /\ \A o \in Sends!Ops : landed'[o] = landed[o]
    BY <1>1, <1>2, <2>1, AppendProperties
  <2> QED BY <2>2, LenProperties
<1>7. Sends!Ops' = 1..n /\ 1..n = Sends!Ops \cup {n} /\ n \notin Sends!Ops /\ Sends!Atts' = Sends!Atts
  <2>1. Sends!Ops' = 1..n
    BY <1>4, LenProperties DEF Sends!Ops
  <2> QED BY <1>1, <1>2, <2>1 DEF Sends!Atts
<1>8. Sends!TypeOK'
  <2>1. \A o \in Sends!Ops' : ops'[o].att \in Sends!Atts'
    BY <1>2, <1>3, <1>4, <1>7 DEF Sends!TypeOK
  <2> QED BY <1>1, <1>2, <1>4, <1>5, <1>6, <1>7, <2>1 DEF Sends!TypeOK
<1>9. Sends!OneInDoubt'
  <2>1. \A o \in Sends!Ops : ops[o].state \in {"sent", "uncertain"} => ops[o].dest # new.dest
    BY <1>1, <1>3 DEF Sends!Fenced, Sends!InDoubt
  <2> QED BY <1>4, <1>7, <2>1 DEF SendsInv, Sends!OneInDoubt, Sends!InDoubt
<1>10. Sends!VerdictsAreTrue'
  BY <1>1, <1>3, <1>4, <1>6, <1>7 DEF SendsInv, Sends!VerdictsAreTrue
<1>11. WireSound'
  BY <1>1, <1>2, <1>3, <1>4, <1>5, <1>6, <1>7 DEF SendsInv, WireSound
<1>12. AskedSound'
  BY <1>1, <1>7 DEF SendsInv, AskedSound
<1> QED BY <1>8, <1>9, <1>10, <1>11, <1>12 DEF SendsInv

\* One operation is rewritten, and what the wire and the pane did to it is given.
LEMMA OpStep ==
  ASSUME SendsInv, NEW o \in Sends!Ops, NEW op \in Sends!Operation, op.att = ops[o].att, op.dest = ops[o].dest,
         op.state \in {"sent", "uncertain"} => Sends!InDoubt(o),
         ops' = [ops EXCEPT ![o] = op],
         wire' \in [Sends!Ops -> {"none", "preflight", "prompt"}], \A p \in Sends!Ops \ {o} : wire'[p] = wire[p],
         landed' \in [Sends!Ops -> Sessions \cup {None}], \A p \in Sends!Ops \ {o} : landed'[p] = landed[p],
         crossing' \subseteq Sends!Ops, \A p \in Sends!Ops \ {o} : (p \in crossing' <=> p \in crossing),
         UNCHANGED <<active, rev, atts, looking, pane, moves>>,
         ~op.ruled => /\ op.state = "refused" => landed'[o] = None /\ o \notin crossing'
                      /\ op.state = "acknowledged" => landed'[o] = op.dest,
         /\ wire'[o] # "none" => op.state = "sent"
         /\ wire'[o] = "preflight" => landed'[o] = None /\ o \notin crossing'
         /\ wire'[o] = "prompt" /\ pane = op.dest => landed'[o] \in {None, op.dest}
         /\ o \in crossing' => landed'[o] = None
  PROVE  SendsInv'
<1>1. /\ Sends!TypeOK /\ Sends!Ops = 1..Len(ops) /\ ops \in Seq(Sends!Operation)
  BY OpsFacts DEF SendsInv, Sends!TypeOK
<1>2. /\ ops' \in Seq(Sends!Operation) /\ Len(ops') = Len(ops)
      /\ ops'[o] = op /\ \A p \in Sends!Ops \ {o} : ops'[p] = ops[p]
  BY <1>1, ExceptSeq
<1>3. Sends!Ops' = Sends!Ops /\ Sends!Atts' = Sends!Atts
  BY <1>1, <1>2, LenProperties DEF Sends!Ops, Sends!Atts
<1>4. Sends!TypeOK'
  <2>1. \A p \in Sends!Ops' : ops'[p].att \in Sends!Atts'
    BY <1>1, <1>2, <1>3 DEF Sends!TypeOK
  <2> QED BY <1>1, <1>2, <1>3, <2>1 DEF Sends!TypeOK
<1>5. Sends!OneInDoubt'
  <2>1. \A p \in Sends!Ops : Sends!InDoubt(p)' => Sends!InDoubt(p)
    BY <1>2 DEF Sends!InDoubt
  <2>2. \A p \in Sends!Ops : ops'[p].dest = ops[p].dest
    BY <1>2
  <2> QED BY <1>3, <2>1, <2>2 DEF SendsInv, Sends!OneInDoubt
<1>6. Sends!VerdictsAreTrue'
  BY <1>2, <1>3 DEF SendsInv, Sends!VerdictsAreTrue
<1>7. WireSound'
  BY <1>2, <1>3 DEF SendsInv, WireSound
<1>8. AskedSound'
  BY <1>3 DEF SendsInv, AskedSound
<1> QED BY <1>4, <1>5, <1>6, <1>7, <1>8 DEF SendsInv

\* A dispatch settles its own operation, once.
LEMMA SettleKeeps ==
  ASSUME SendsInv, NEW o \in Sends!Ops, NEW state \in {"acknowledged", "uncertain", "refused"}, wire[o] # "none",
         Sends!Settle(o, state), state = "refused" => wire[o] = "preflight",
         state = "acknowledged" => landed[o] = ops[o].dest
  PROVE  SendsInv'
<1> DEFINE op == [ops[o] EXCEPT !.state = state]
<1>1. /\ Sends!TypeOK /\ ops[o] \in Sends!Operation /\ ops[o].state = "sent" /\ o \in DOMAIN ops
      /\ o \in crossing => landed[o] = None
  BY OpsFacts DEF SendsInv, WireSound, Sends!Ops
<1>2. op \in Sends!Operation /\ op.att = ops[o].att /\ op.dest = ops[o].dest /\ op.state = state
  BY <1>1 DEF Sends!Operation
<1>3. ops' = [ops EXCEPT ![o] = op]
  BY <1>1 DEF Sends!Settle
<1> HIDE DEF op
<1>4. /\ wire' \in [Sends!Ops -> {"none", "preflight", "prompt"}] /\ wire'[o] = "none"
      /\ \A p \in Sends!Ops \ {o} : wire'[p] = wire[p]
      /\ UNCHANGED <<active, rev, atts, looking, pane, crossing, landed, moves>>
  BY <1>1 DEF Sends!Settle, Sends!TypeOK
<1>5. state = "refused" => landed[o] = None /\ o \notin crossing
  BY DEF SendsInv, WireSound
<1>6. op.state \in {"sent", "uncertain"} => Sends!InDoubt(o)
  BY <1>1 DEF Sends!InDoubt
<1> QED BY <1>1, <1>2, <1>3, <1>4, <1>5, <1>6, OpStep DEF Sends!TypeOK

LEMMA SpawnKeeps ==
  ASSUME SendsInv, NEW o \in Sends!Ops, Sends!Spawn(o) PROVE SendsInv'
<1>1. /\ Sends!TypeOK /\ ops[o] \in Sends!Operation /\ ops[o].state = "sent" /\ o \in DOMAIN ops
      /\ landed[o] = None
  BY OpsFacts DEF SendsInv, WireSound, Sends!Ops, Sends!Spawn
<1>2. /\ wire' \in [Sends!Ops -> {"none", "preflight", "prompt"}] /\ wire'[o] = "prompt"
      /\ \A p \in Sends!Ops \ {o} : wire'[p] = wire[p]
      /\ crossing' = crossing \cup {o}
      /\ UNCHANGED <<active, rev, atts, ops, looking, pane, landed, moves>>
  BY <1>1 DEF Sends!Spawn, Sends!TypeOK
<1>3. ops' = [ops EXCEPT ![o] = ops[o]]
  <2>1. ops \in Seq(Sends!Operation) /\ Sends!Ops = 1..Len(ops)
    BY <1>1, OpsFacts DEF Sends!TypeOK
  <2>2. [ops EXCEPT ![o] = ops[o]] = ops
    BY <2>1, ExceptSeq, SeqEqual
  <2> QED BY <1>2, <2>2
<1>4. crossing' \subseteq Sends!Ops /\ \A p \in Sends!Ops \ {o} : (p \in crossing' <=> p \in crossing)
  BY <1>1, <1>2 DEF Sends!TypeOK
<1>5. ops[o].state \in {"sent", "uncertain"} => Sends!InDoubt(o)
  BY DEF Sends!InDoubt
<1> QED BY <1>1, <1>2, <1>3, <1>4, <1>5, OpStep DEF Sends!TypeOK

\* A prompt arrives where the pane is, or nowhere.
LEMMA ArriveKeeps ==
  ASSUME Sends!SendsAssumption, SendsInv, NEW o \in Sends!Ops, Sends!Arrive(o) PROVE SendsInv'
<1>1. /\ Sends!TypeOK /\ ops[o] \in Sends!Operation /\ o \in DOMAIN ops /\ landed[o] = None
      /\ wire[o] # "none" => ops[o].state = "sent"
      /\ wire[o] # "preflight"
      /\ ~ops[o].ruled => ops[o].state # "refused" /\ (ops[o].state = "acknowledged" => landed[o] = ops[o].dest)
  BY OpsFacts DEF SendsInv, WireSound, Sends!Ops, Sends!Arrive, Sends!VerdictsAreTrue
<1>2. /\ crossing' = crossing \ {o} /\ landed' \in {landed, [landed EXCEPT ![o] = pane]}
      /\ UNCHANGED <<active, rev, atts, ops, wire, looking, pane, moves>>
  BY DEF Sends!Arrive
<1>3. /\ landed' \in [Sends!Ops -> Sessions \cup {None}] /\ landed'[o] \in {None, pane}
      /\ \A p \in Sends!Ops \ {o} : landed'[p] = landed[p]
  BY <1>1, <1>2 DEF Sends!TypeOK
<1>4. ops' = [ops EXCEPT ![o] = ops[o]]
  <2>1. ops \in Seq(Sends!Operation) /\ Sends!Ops = 1..Len(ops)
    BY <1>1, OpsFacts DEF Sends!TypeOK
  <2>2. [ops EXCEPT ![o] = ops[o]] = ops
    BY <2>1, ExceptSeq, SeqEqual
  <2> QED BY <1>2, <2>2
<1>5. crossing' \subseteq Sends!Ops /\ \A p \in Sends!Ops \ {o} : (p \in crossing' <=> p \in crossing)
  BY <1>1, <1>2 DEF Sends!TypeOK
<1>6. ops[o].state \in {"sent", "uncertain"} => Sends!InDoubt(o)
  BY DEF Sends!InDoubt
<1>7. ops[o].state \in {"refused", "acknowledged"} => ops[o].ruled
  <2>1. ops[o].dest # None
    BY <1>1 DEF Sends!SendsAssumption, Sends!Operation
  <2> QED BY <1>1, <2>1
<1>8. o \notin crossing'
  BY <1>2
<1> QED BY <1>1, <1>2, <1>3, <1>4, <1>5, <1>6, <1>7, <1>8, OpStep DEF Sends!TypeOK

LEMMA ReconcileKeeps ==
  ASSUME SendsInv, NEW o \in Sends!Ops, Sends!Reconcile(o) PROVE SendsInv'
<1>1. /\ Sends!TypeOK /\ ops[o] \in Sends!Operation /\ o \in DOMAIN ops /\ wire[o] = "none" /\ Sends!InDoubt(o)
      /\ o \in crossing => landed[o] = None
      /\ UNCHANGED <<active, rev, atts, wire, looking, pane, crossing, landed, moves>>
  BY OpsFacts DEF SendsInv, WireSound, Sends!Ops, Sends!Reconcile
<1>2. PICK verdict \in {"acknowledged", "refused"} :
        ops' = [ops EXCEPT ![o].state = verdict, ![o].ruled = TRUE]
  BY DEF Sends!Reconcile
<1> DEFINE op == [ops[o] EXCEPT !.state = verdict, !.ruled = TRUE]
<1>3. op \in Sends!Operation /\ op.att = ops[o].att /\ op.dest = ops[o].dest /\ op.ruled /\ op.state = verdict
  BY <1>1 DEF Sends!Operation
<1>4. ops' = [ops EXCEPT ![o] = op]
  BY <1>1, <1>2
<1> HIDE DEF op
<1> QED BY <1>1, <1>3, <1>4, OpStep DEF Sends!TypeOK

\* The bindings.
LEMMA DetachKeeps ==
  ASSUME SendsInv, NEW a \in Sends!Atts, Sends!Detach(a) \/ Sends!Sight(a) PROVE SendsInv'
<1>1. /\ Sends!TypeOK /\ Sends!Atts = 1..Len(atts) /\ atts \in Seq(Sends!Attachment) /\ atts[a] \in Sends!Attachment
      /\ moves \in Nat /\ \A b \in Sends!Atts : atts[b] \in Sends!Attachment /\ atts[b].left <= moves
  BY OpsFacts DEF SendsInv, Sends!TypeOK, AskedSound
<1>2. UNCHANGED <<active, rev, ops, wire, looking, pane, crossing, landed>>
  BY DEF Sends!Detach, Sends!Sight
<1>3. PICK new \in Sends!Attachment :
        /\ atts' = [atts EXCEPT ![a] = new]
        /\ moves' \in {moves, moves + 1} /\ new.left \in {atts[a].left, moves'}
  <2>1. a \in DOMAIN atts
    BY DEF Sends!Atts
  <2>2. CASE Sends!Detach(a)
    <3> DEFINE new == [atts[a] EXCEPT !.health = "detached", !.left = moves']
    <3>1. moves' = moves + 1 /\ atts' = [atts EXCEPT ![a] = new]
      BY <2>1, <2>2 DEF Sends!Detach, Sends!Move
    <3>2. new \in Sends!Attachment /\ new.left = moves'
      <4>1. moves' \in Nat /\ atts[a] \in Sends!Attachment
        BY <1>1, <3>1
      <4> QED BY <4>1, LeftAt
    <3> QED BY <3>1, <3>2
  <2>3. CASE Sends!Sight(a)
    <3>1. PICK health \in {"attached", "missing", "identity_changed"} : atts' = [atts EXCEPT ![a].health = health]
      BY <2>3 DEF Sends!Sight
    <3> DEFINE new == [atts[a] EXCEPT !.health = health]
    <3>2. new \in Sends!Attachment /\ new.left = atts[a].left
      BY <1>1 DEF Sends!Attachment
    <3>3. moves' = moves /\ atts' = [atts EXCEPT ![a] = new]
      BY <2>1, <2>3, <3>1 DEF Sends!Sight
    <3> QED BY <3>2, <3>3
  <2> QED BY <2>2, <2>3
<1>4. /\ atts' \in Seq(Sends!Attachment) /\ Len(atts') = Len(atts)
      /\ \A b \in Sends!Atts : atts'[b] = IF b = a THEN new ELSE atts[b]
  BY <1>1, <1>3, ExceptSeq
<1>5. Sends!Atts' = Sends!Atts
  BY <1>1, <1>4, LenProperties DEF Sends!Atts
<1>6. moves <= moves' /\ moves' \in Nat
  BY <1>1, <1>3
<1>7. \A b \in Sends!Atts' : atts'[b].left <= moves'
  <2>0. \A b \in Sends!Atts : atts[b].left \in Nat /\ atts[b].left <= moves
    BY <1>1 DEF Sends!Attachment
  <2>1. new.left <= moves'
    BY <1>1, <1>3, <1>6, <2>0
  <2>2. \A b \in Sends!Atts : atts[b].left \in Nat /\ atts[b].left <= moves'
    BY <1>1, <1>6, <2>0
  <2> QED BY <1>4, <1>5, <2>1, <2>2
<1> QED BY <1>1, <1>2, <1>4, <1>5, <1>6, <1>7, OpsAtRest DEF Sends!TypeOK

LEMMA AttachKeeps ==
  ASSUME SendsInv, NEW c \in Sends!Callers, NEW dest \in Sessions, Sends!Attach(c, dest) \/ Sends!Reattach(c, dest)
  PROVE  SendsInv'
<1>1. /\ Sends!TypeOK /\ Sends!Atts = 1..Len(atts) /\ Len(atts) \in Nat /\ atts \in Seq(Sends!Attachment)
      /\ moves \in Nat /\ looking \in [Sends!Callers -> Sends!Request \cup {None}]
      /\ \A b \in Sends!Atts : atts[b] \in Sends!Attachment /\ atts[b].left <= moves
  BY OpsFacts DEF SendsInv, Sends!TypeOK, AskedSound
<1>2. /\ UNCHANGED <<active, rev, ops, wire, pane, crossing, landed>> /\ moves' = moves + 1
      /\ looking' = [looking EXCEPT ![c] = None]
  BY DEF Sends!Attach, Sends!Reattach, Sends!Move
<1>3. /\ atts' \in Seq(Sends!Attachment) /\ Sends!Atts \subseteq Sends!Atts'
      /\ \A b \in Sends!Atts' : atts'[b].left <= moves'
  <2>1. CASE Sends!Attach(c, dest)
    <3>1. atts' = Append(atts, Sends!Bound(dest))
      BY <2>1 DEF Sends!Attach
    <3>2. /\ atts' \in Seq(Sends!Attachment) /\ Len(atts') = Len(atts) + 1 /\ atts'[Len(atts) + 1] = Sends!Bound(dest)
          /\ \A b \in Sends!Atts : atts'[b] = atts[b]
      BY <1>1, <3>1, BoundBinds, AppendProperties
    <3>3. Sends!Atts' = Sends!Atts \cup {Len(atts) + 1}
      BY <1>1, <3>2, LenProperties DEF Sends!Atts
    <3>4. \A b \in Sends!Atts : atts[b].left <= moves'
      BY <1>1, <1>2 DEF Sends!Attachment
    <3> QED BY <1>1, <1>2, <3>2, <3>3, <3>4, BoundBinds
  <2>2. CASE Sends!Reattach(c, dest)
    <3> DEFINE a == looking[c].att
               new == [Sends!Bound(dest) EXCEPT !.gen = atts[a].gen + 1]
    <3>1. atts' = [atts EXCEPT ![a] = new]
      BY <2>2 DEF Sends!Reattach
    <3>2. CASE a \in Sends!Atts
      <4>1. new \in Sends!Attachment /\ new.left = 0
        BY <1>1, <3>2, NextGeneration DEF Sends!Attachment
      <4>2. /\ atts' \in Seq(Sends!Attachment) /\ Len(atts') = Len(atts)
            /\ \A b \in Sends!Atts : atts'[b] = IF b = a THEN new ELSE atts[b]
        BY <1>1, <3>1, <3>2, <4>1, ExceptSeq
      <4>3. Sends!Atts' = Sends!Atts
        BY <1>1, <4>2, LenProperties DEF Sends!Atts
      <4>4. \A b \in Sends!Atts : atts[b].left <= moves'
        BY <1>1, <1>2 DEF Sends!Attachment
      <4>5. 0 <= moves'
        BY <1>1, <1>2
      <4> HIDE DEF new
      <4> QED BY <4>1, <4>2, <4>3, <4>4, <4>5
    <3>3. CASE a \notin Sends!Atts
      <4>1. atts' = atts
        BY <1>1, <3>1, <3>3 DEF Sends!Atts
      <4>2. \A b \in Sends!Atts : atts[b].left <= moves'
        BY <1>1, <1>2 DEF Sends!Attachment
      <4> QED BY <1>1, <4>1, <4>2 DEF Sends!Atts
    <3> QED BY <3>2, <3>3
  <2> QED BY <2>1, <2>2
<1>4. /\ looking' \in [Sends!Callers -> Sends!Request \cup {None}]
      /\ \A d \in Sends!Callers : looking'[d] # None => looking'[d] = looking[d]
  BY <1>1, <1>2
<1>5. moves <= moves' /\ moves' \in Nat
  BY <1>1, <1>2
<1> QED BY <1>1, <1>2, <1>3, <1>4, <1>5, OpsAtRest DEF Sends!TypeOK

LEMMA LookKeeps ==
  ASSUME Sends!SendsAssumption, SendsInv, NEW c \in Sends!Callers,
         Sends!GiveUp(c) \/ \E a \in Sends!Atts \cup {None} : Sends!Look(c, a)
  PROVE  SendsInv'
<1>1. /\ Sends!TypeOK /\ Sends!Atts = 1..Len(atts) /\ moves \in Nat /\ pane \in Sessions
      /\ looking \in [Sends!Callers -> Sends!Request \cup {None}]
      /\ \A b \in Sends!Atts : atts[b] \in Sends!Attachment /\ atts[b].left <= moves
  BY OpsFacts DEF SendsInv, Sends!TypeOK, AskedSound
<1>2. UNCHANGED <<active, rev, atts, ops, wire, pane, crossing, landed, moves>>
  BY DEF Sends!GiveUp, Sends!Look
<1>3. PICK new \in Sends!Request \cup {None} :
        /\ looking' = [looking EXCEPT ![c] = new]
        /\ new # None => (new.att # None => new.snap \in Sends!Attachment /\ new.snap.left <= new.at)
  <2>1. CASE Sends!GiveUp(c)
    BY <2>1 DEF Sends!GiveUp
  <2>2. CASE \E a \in Sends!Atts \cup {None} : Sends!Look(c, a)
    <3>1. PICK a \in Sends!Atts \cup {None} : Sends!Look(c, a)
      BY <2>2
    <3> DEFINE snap == IF a = None THEN None ELSE atts[a]
               new == [att |-> a, snap |-> snap, seen |-> pane, at |-> moves]
    <3>2. /\ a \in Nat \cup {None} /\ snap \in Sends!Attachment \cup {None}
          /\ a # None => snap \in Sends!Attachment /\ snap.left <= moves
      BY <1>1, <3>1
    <3>3. looking' = [looking EXCEPT ![c] = new]
      BY <3>1 DEF Sends!Look
    <3> HIDE DEF snap
    <3>4. new \in Sends!Request /\ new.att = a /\ new.snap = snap /\ new.at = moves
      <4>1. pane \in Sessions /\ moves \in Nat
        BY <1>1
      <4>2. new \in Sends!Request
        BY <3>2, <4>1 DEF Sends!Request
      <4> QED BY <4>2
    <3> HIDE DEF new
    <3>5. new \in Sends!Request \cup {None}
      BY <3>4
    <3>6. new.att # None => new.snap \in Sends!Attachment /\ new.snap.left <= new.at
      BY <3>2, <3>4
    <3> QED BY <3>3, <3>5, <3>6
  <2> QED BY <2>1, <2>2
<1>4. /\ looking' \in [Sends!Callers -> Sends!Request \cup {None}]
      /\ \A d \in Sends!Callers : looking'[d] = looking[d] \/ looking'[d] = new
  BY <1>1, <1>3
<1>5. Sends!Atts' = Sends!Atts /\ moves <= moves'
  BY <1>1, <1>2 DEF Sends!Atts
<1> QED BY <1>1, <1>2, <1>3, <1>4, <1>5, OpsAtRest DEF Sends!TypeOK

\* The operator, the pane and the process.
LEMMA OperatorKeeps ==
  ASSUME SendsInv, Sends!PauseOrResume \/ Sends!Correct PROVE SendsInv'
<1>1. /\ Sends!TypeOK /\ active \in BOOLEAN /\ rev \in Nat /\ moves \in Nat /\ atts \in Seq(Sends!Attachment)
      /\ looking \in [Sends!Callers -> Sends!Request \cup {None}]
  BY DEF SendsInv, Sends!TypeOK
<1>2. /\ UNCHANGED <<atts, ops, wire, looking, pane, crossing, landed, moves>>
      /\ active' \in BOOLEAN /\ rev' \in Nat
  <2>1. CASE Sends!PauseOrResume
    <3>1. active' = ~active /\ rev' = rev /\ UNCHANGED <<atts, ops, wire, looking, pane, crossing, landed, moves>>
      BY <2>1 DEF Sends!PauseOrResume
    <3>2. active' \in BOOLEAN
      BY <3>1, Zenon
    <3> QED BY <1>1, <3>1, <3>2
  <2>2. CASE Sends!Correct
    BY <1>1, <2>2 DEF Sends!Correct
  <2> QED BY <2>1, <2>2
<1>3. Sends!Atts' = Sends!Atts /\ moves <= moves'
  BY <1>1, <1>2 DEF Sends!Atts
<1>4. \A a \in Sends!Atts : atts[a].left <= moves
  BY DEF SendsInv, AskedSound
<1> QED BY <1>1, <1>2, <1>3, <1>4, OpsAtRest

LEMMA ReplaceKeeps ==
  ASSUME SendsInv, NEW session \in Sessions, Sends!Replace(session) PROVE SendsInv'
<1>1. /\ UNCHANGED <<active, rev, atts, ops, wire, looking, crossing, landed>>
      /\ pane' = session /\ moves' = moves + 1
      /\ \A o \in Sends!Ops : wire[o] = "prompt" => ops[o].dest # session
  BY DEF Sends!Replace, Sends!Move
<1>2. Sends!Ops' = Sends!Ops /\ Sends!Atts' = Sends!Atts
  BY <1>1 DEF Sends!Ops, Sends!Atts
<1>3. Sends!TypeOK'
  BY <1>1, <1>2 DEF SendsInv, Sends!TypeOK
<1>4. Sends!OneInDoubt' /\ Sends!VerdictsAreTrue'
  BY <1>1, <1>2 DEF SendsInv, Sends!OneInDoubt, Sends!InDoubt, Sends!VerdictsAreTrue
<1>5. WireSound'
  BY <1>1, <1>2 DEF SendsInv, WireSound
<1>6. AskedSound'
  <2>1. \A a \in Sends!Atts : atts[a].left \in Nat
    BY OpsFacts DEF SendsInv, Sends!Attachment
  <2>2. \A a \in Sends!Atts : atts[a].left <= moves'
    BY <1>1, <2>1 DEF SendsInv, AskedSound, Sends!TypeOK
  <2> QED BY <1>1, <1>2, <2>2 DEF SendsInv, AskedSound
<1> QED BY <1>3, <1>4, <1>5, <1>6 DEF SendsInv

LEMMA CrashKeeps ==
  ASSUME SendsInv, Sends!Crash PROVE SendsInv'
<1>1. /\ UNCHANGED <<active, rev, atts, ops, pane, crossing, landed, moves>>
      /\ wire' = [o \in Sends!Ops |-> "none"] /\ looking' = [c \in Sends!Callers |-> None]
  BY DEF Sends!Crash
<1>2. Sends!Ops' = Sends!Ops /\ Sends!Atts' = Sends!Atts
  BY <1>1 DEF Sends!Ops, Sends!Atts
<1>3. Sends!TypeOK'
  BY <1>1, <1>2 DEF SendsInv, Sends!TypeOK
<1>4. Sends!OneInDoubt' /\ Sends!VerdictsAreTrue'
  BY <1>1, <1>2 DEF SendsInv, Sends!OneInDoubt, Sends!InDoubt, Sends!VerdictsAreTrue
<1>5. WireSound' /\ AskedSound'
  BY <1>1, <1>2 DEF SendsInv, WireSound, AskedSound
<1> QED BY <1>3, <1>4, <1>5 DEF SendsInv

LEMMA DispatchKeeps ==
  ASSUME Sends!SendsAssumption, SendsInv, NEW o \in Sends!Ops, Sends!Dispatching(o) \/ Sends!Reconcile(o)
  PROVE  SendsInv'
<1>1. CASE Sends!Refuse(o)
  BY <1>1, SettleKeeps DEF Sends!Refuse
<1>2. CASE Sends!Acknowledge(o)
  <2>1. wire[o] = "prompt" /\ landed[o] # None /\ pane = ops[o].dest /\ Sends!Settle(o, "acknowledged")
    BY <1>2 DEF Sends!Acknowledge
  <2>2. landed[o] = ops[o].dest
    BY <2>1 DEF SendsInv, WireSound
  <2> QED BY <2>1, <2>2, SettleKeeps
<1>3. CASE Sends!LoseAnswer(o)
  BY <1>3, SettleKeeps DEF Sends!LoseAnswer
<1> QED BY <1>1, <1>2, <1>3, SpawnKeeps, ArriveKeeps, ReconcileKeeps DEF Sends!Dispatching

LEMMA SendsInit ==
  ASSUME Sends!SendsAssumption, Sends!Init PROVE SendsInv
<1>1. /\ active = TRUE /\ rev = 1 /\ pane \in Sessions /\ atts = <<Sends!Bound(pane)>> /\ moves = 0
      /\ ops = <<>> /\ wire = <<>> /\ landed = <<>> /\ crossing = {}
      /\ looking = [c \in Sends!Callers |-> None]
  BY DEF Sends!Init, Sends!SendsAssumption
<1>2. Sends!Ops = {}
  BY <1>1 DEF Sends!Ops
<1>3. /\ atts \in Seq(Sends!Attachment) /\ Sends!Atts = {1} /\ atts[1].left = 0
  BY <1>1, BoundBinds DEF Sends!Atts
<1>4. Sends!TypeOK
  <2>1. wire \in [Sends!Ops -> {"none", "preflight", "prompt"}] /\ landed \in [Sends!Ops -> Sessions \cup {None}]
    BY <1>1, <1>2
  <2>2. looking \in [Sends!Callers -> Sends!Request \cup {None}]
    BY <1>1
  <2>3. ops \in Seq(Sends!Operation)
    BY <1>1
  <2> QED BY <1>1, <1>2, <1>3, <2>1, <2>2, <2>3 DEF Sends!TypeOK
<1>5. Sends!OneInDoubt /\ Sends!VerdictsAreTrue /\ WireSound
  BY <1>2 DEF Sends!OneInDoubt, Sends!VerdictsAreTrue, WireSound
<1>6. AskedSound
  BY <1>1, <1>3 DEF AskedSound
<1> QED BY <1>4, <1>5, <1>6 DEF SendsInv

LEMMA SendsNext ==
  ASSUME Sends!SendsAssumption, SendsInv, [Sends!Next]_(Sends!vars) PROVE SendsInv'
<1>1. CASE \E o \in Sends!Ops : Sends!Dispatching(o) \/ Sends!Reconcile(o)
  BY <1>1, DispatchKeeps
<1>2. CASE \E a \in Sends!Atts : Sends!Send(a) \/ Sends!Detach(a) \/ Sends!Sight(a)
  BY <1>2, SendKeeps, DetachKeeps
<1>3. CASE \E c \in Sends!Callers : Sends!Binding(c) \/ \E a \in Sends!Atts \cup {None} : Sends!Look(c, a)
  BY <1>3, AttachKeeps, LookKeeps DEF Sends!Binding
<1>4. CASE \E s \in Sessions : Sends!Replace(s)
  BY <1>4, ReplaceKeeps
<1>5. CASE Sends!PauseOrResume \/ Sends!Correct \/ Sends!Crash
  BY <1>5, OperatorKeeps, CrashKeeps
<1>6. CASE UNCHANGED Sends!vars
  BY <1>6 DEF Sends!vars, SendsInv, Sends!TypeOK, Sends!OneInDoubt, Sends!VerdictsAreTrue, WireSound, AskedSound,
     Sends!Ops, Sends!Atts, Sends!InDoubt
<1> QED BY <1>1, <1>2, <1>3, <1>4, <1>5, <1>6 DEF Sends!Next

\* What is on the wire, what landed and what a caller read stay consistent: the
\* strengthening the theorems below rest on.
THEOREM SendsInvariant == Sends!SendsAssumption => (Sends!Spec => []SendsInv)
<1> SUFFICES ASSUME Sends!SendsAssumption PROVE Sends!Spec => []SendsInv
  OBVIOUS
<1> QED BY SendsInit, SendsNext, PTL DEF Sends!Spec

\* The latest word wins at each step.
LEMMA WordStep ==
  ASSUME SendsInv, Sends!Next
  PROVE  /\ \A o \in Sends!Ops : (o \in crossing' /\ o \notin crossing) =>
              /\ active /\ rev = ops[o].rev /\ atts[ops[o].att].gen = ops[o].gen
              /\ atts[ops[o].att].health = "attached"
         /\ \A a \in Sends!Atts : atts'[a].gen # atts[a].gen =>
              \E c \in Sends!Callers : /\ looking[c] # None /\ looking[c].att = a
                                       /\ looking[c].snap.gen = atts[a].gen
                                       /\ looking[c].at >= atts[a].left
<1>1. /\ atts \in Seq(Sends!Attachment) /\ Sends!Atts = 1..Len(atts) /\ Len(atts) \in Nat
      /\ \A a \in Sends!Atts : a \in DOMAIN atts
      /\ \A a \in Sends!Atts : atts[a] \in Sends!Attachment
      /\ crossing \subseteq Sends!Ops
  BY OpsFacts DEF SendsInv, Sends!TypeOK, Sends!Atts
<1> DEFINE Crosses == crossing' \subseteq crossing
           Rests == \A a \in Sends!Atts : atts'[a].gen = atts[a].gen
<1>2. CASE \E o \in Sends!Ops : Sends!Dispatching(o) \/ Sends!Reconcile(o)
  <2>1. PICK o \in Sends!Ops : Sends!Dispatching(o) \/ Sends!Reconcile(o)
    BY <1>2
  <2>2. atts' = atts
    BY <2>1 DEF Sends!Dispatching, Sends!Reconcile, Sends!Refuse, Sends!Spawn, Sends!Arrive, Sends!Acknowledge,
       Sends!LoseAnswer, Sends!Settle
  <2>3. CASE Sends!Spawn(o)
    <3>1. crossing' = crossing \cup {o} /\ Sends!StillValid(o)
      BY <2>3 DEF Sends!Spawn
    <3> QED BY <2>2, <3>1 DEF Sends!StillValid, Sends!Sendable
  <2>4. CASE ~Sends!Spawn(o)
    <3>1. Crosses
      BY <2>1, <2>4 DEF Sends!Dispatching, Sends!Reconcile, Sends!Refuse, Sends!Arrive, Sends!Acknowledge,
         Sends!LoseAnswer, Sends!Settle
    <3> QED BY <2>2, <3>1
  <2> QED BY <2>3, <2>4
<1>3. CASE \E a \in Sends!Atts : Sends!Send(a) \/ Sends!Detach(a) \/ Sends!Sight(a)
  <2>1. PICK a \in Sends!Atts : Sends!Send(a) \/ Sends!Detach(a) \/ Sends!Sight(a)
    BY <1>3
  <2>2. Crosses
    BY <2>1 DEF Sends!Send, Sends!Detach, Sends!Sight
  <2>3. CASE Sends!Send(a)
    BY <2>2, <2>3 DEF Sends!Send
  <2>4. CASE Sends!Detach(a)
    <3>1. PICK n : atts' = [atts EXCEPT ![a].health = "detached", ![a].left = n]
      BY <2>4 DEF Sends!Detach
    <3>2. Rests
      BY <1>1, <3>1 DEF Sends!Attachment
    <3> QED BY <2>2, <3>2
  <2>5. CASE Sends!Sight(a)
    <3>1. PICK health : atts' = [atts EXCEPT ![a].health = health]
      BY <2>5 DEF Sends!Sight
    <3>2. Rests
      BY <1>1, <3>1 DEF Sends!Attachment
    <3> QED BY <2>2, <3>2
  <2> QED BY <2>1, <2>3, <2>4, <2>5
<1>4. CASE \E c \in Sends!Callers : Sends!Binding(c) \/ \E a \in Sends!Atts \cup {None} : Sends!Look(c, a)
  <2>1. PICK c \in Sends!Callers : Sends!Binding(c) \/ \E a \in Sends!Atts \cup {None} : Sends!Look(c, a)
    BY <1>4
  <2>2. Crosses
    BY <2>1 DEF Sends!Binding, Sends!GiveUp, Sends!Attach, Sends!Reattach, Sends!Look
  <2>3. CASE \E dest \in Sessions : Sends!Reattach(c, dest)
    <3>1. PICK dest \in Sessions : Sends!Reattach(c, dest)
      BY <2>3
    <3> DEFINE b == looking[c].att
    <3>2. /\ looking[c] # None /\ b # None /\ atts[b] = looking[c].snap
          /\ \E new : atts' = [atts EXCEPT ![b] = new]
      BY <3>1 DEF Sends!Reattach, Sends!Lists, Sends!Unmoved
    <3>3. ASSUME NEW a \in Sends!Atts, atts'[a].gen # atts[a].gen
          PROVE  a = b
      BY <3>2, <3>3, <1>1
    <3>4. looking[c].snap \in Sends!Attachment /\ looking[c].snap.left <= looking[c].at
      BY <3>2 DEF SendsInv, AskedSound
    <3>5. looking[c].at \in Nat
      <4>1. looking[c] \in Sends!Request
        BY <3>2 DEF SendsInv, Sends!TypeOK
      <4> QED BY <4>1 DEF Sends!Request
    <3>6. looking[c].snap.gen = atts[b].gen /\ looking[c].at >= atts[b].left
      BY <3>2, <3>4, <3>5 DEF Sends!Attachment
    <3> QED BY <2>2, <3>2, <3>3, <3>6
  <2>4. CASE \E dest \in Sessions : Sends!Attach(c, dest)
    <3>1. PICK dest \in Sessions : atts' = Append(atts, Sends!Bound(dest))
      BY <2>4 DEF Sends!Attach
    <3>2. \A a \in Sends!Atts : atts'[a] = atts[a]
      BY <1>1, <3>1, BoundBinds, AppendProperties
    <3> QED BY <2>2, <3>2
  <2>5. CASE Sends!GiveUp(c) \/ \E a \in Sends!Atts \cup {None} : Sends!Look(c, a)
    BY <2>2, <2>5 DEF Sends!GiveUp, Sends!Look
  <2> QED BY <2>1, <2>3, <2>4, <2>5 DEF Sends!Binding
<1>5. CASE (\E s \in Sessions : Sends!Replace(s)) \/ Sends!PauseOrResume \/ Sends!Correct \/ Sends!Crash
  BY <1>5 DEF Sends!Replace, Sends!PauseOrResume, Sends!Correct, Sends!Crash
<1> QED BY <1>2, <1>3, <1>4, <1>5 DEF Sends!Next

\* At most one send to an agent is unresolved, whatever the bindings, and a verdict the
\* code gave is so (ManagedSends, ManagedSendInv).
THEOREM SendsHold ==
  /\ Sends!SendsAssumption => (Sends!Spec => []Sends!ManagedSendInv)
  /\ OutboundSpec => []ManagedSendInv
<1>1. SendsInv => Sends!ManagedSendInv
  BY DEF SendsInv, Sends!ManagedSendInv
<1>2. Sends!SendsAssumption => (Sends!Spec => []Sends!ManagedSendInv)
  BY <1>1, SendsInvariant, PTL
<1>3. OutboundSpec => []Sends!ManagedSendInv
  BY <1>2, SendAssumption, Apart, PTL
<1> QED BY <1>2, <1>3 DEF ManagedSendInv

\* No prompt leaves for a responsibility or a binding that changed since it was prepared,
\* and no reattach undoes what was decided after it began (ManagedSends, LatestWordWins).
THEOREM SendsHeedTheLatestWord ==
  /\ Sends!SendsAssumption => (Sends!Spec => Sends!LatestWordWins)
  /\ OutboundSpec => LatestWordWins
<1>1. ASSUME SendsInv, [Sends!Next]_(Sends!vars)
      PROVE  [/\ \A o \in Sends!Ops : (o \in crossing' /\ o \notin crossing) =>
                   active /\ rev = ops[o].rev /\ atts[ops[o].att].gen = ops[o].gen
                          /\ atts[ops[o].att].health = "attached"
              /\ \A a \in Sends!Atts : atts'[a].gen # atts[a].gen =>
                   \E c \in Sends!Callers : /\ looking[c] # None /\ looking[c].att = a
                                            /\ looking[c].snap.gen = atts[a].gen
                                            /\ looking[c].at >= atts[a].left]_(Sends!vars)
  BY <1>1, WordStep
<1>2. Sends!SendsAssumption => (Sends!Spec => Sends!LatestWordWins)
  BY <1>1, SendsInvariant, PTL DEF Sends!Spec, Sends!LatestWordWins
<1>3. OutboundSpec => Sends!LatestWordWins
  BY <1>2, SendAssumption, Apart, PTL
<1> QED BY <1>2, <1>3 DEF LatestWordWins

-----------------------------------------------------------------------------
(* Follow-ups: what a call has yet to commit.                              *)

Row(p) == rows[p] # None

RowsSound ==
    /\ rows \in [Review!Ids -> BOOLEAN \cup {None}]
    /\ link \in Review!Ids \cup {None}
    /\ \A p, q \in Review!Ids : Row(p) /\ Row(q) => p = q

PlanSound ==
    /\ reviews \in [Review!Tokens -> {0, 1}]
    /\ meddles \in Nat
    /\ status = "active" /\ plan.kind = "silence" /\ plan.due /\ ~held => ~overheld

CallSound ==
    /\ call \in Review!Calls \cup {None}
    /\ call # None =>
        /\ call.next \in {"link", "settle"} => call.p \in Review!Ids /\ Row(call.p)
        /\ call.enable = FALSE => status = "closed"

\* What arms the responsibility once the call is through.
Arming ==
    /\ call = None => link \in Review!Ids /\ rows[link] = TRUE
    /\ call # None =>
        /\ call.next = "consume" => link \in Review!Ids /\ rows[link] = TRUE
        /\ call.next = "ensure" /\ call.enable = None =>
             \A p \in Review!Ids : rows[p] \in {TRUE, None}
        /\ call.next = "link" => rows[call.p] = TRUE
        /\ call.next = "settle" =>
             /\ link = call.p
             /\ call.enable # TRUE => rows[call.p] = TRUE

ReviewInv ==
    /\ RowsSound /\ PlanSound /\ CallSound
    /\ status = "active" /\ meddles = 0 /\ ~cut => Arming
\* An ensureFollowup starts with the rows as they are.
LEMMA EnsureStarts ==
  ASSUME Review!FollowupsAssumption, NEW enable \in BOOLEAN \cup {None},
         RowsSound, PlanSound', UNCHANGED <<rows, link, meddles>>,
         status' = "active" /\ meddles = 0 /\ ~cut' =>
            enable = TRUE \/ (\A p \in Review!Ids : rows[p] \in {TRUE, None}),
         Review!Then("ensure", enable, None),
         enable = FALSE => status' = "closed"
  PROVE  ReviewInv'
<1>1. call' = [next |-> "ensure", enable |-> enable, p |-> None]
  BY DEF Review!Then
<1>2. call' \in Review!Calls /\ call'.next = "ensure" /\ call'.enable = enable
  BY <1>1 DEF Review!Calls
<1>3. call' # None /\ TRUE # None
  BY <1>2 DEF Review!FollowupsAssumption
<1>4. Review!Ids' = Review!Ids /\ Review!Calls' = Review!Calls
  OBVIOUS
<1>5. RowsSound'
  BY <1>4 DEF RowsSound, Row
<1>6. CallSound'
  BY <1>2, <1>3 DEF CallSound
<1>7. (status = "active" /\ meddles = 0 /\ ~cut => Arming)'
  BY <1>2, <1>3, <1>4 DEF Arming
<1> QED BY <1>5, <1>6, <1>7 DEF ReviewInv

\* An armed responsibility at rest has one program, and it is enabled.
LEMMA ArmedRows ==
  ASSUME Review!FollowupsAssumption, RowsSound, link \in Review!Ids, rows[link] = TRUE
  PROVE  \A p \in Review!Ids : rows[p] \in {TRUE, None}
<1>1. TRUE # None
  BY DEF Review!FollowupsAssumption
<1> QED BY <1>1 DEF RowsSound, Row

\* The call is over.
LEMMA CallEnds ==
  ASSUME RowsSound', PlanSound', call' = None,
         status' = "active" /\ meddles' = 0 /\ ~cut' => link' \in Review!Ids /\ rows'[link'] = TRUE
  PROVE  ReviewInv'
<1>1. CallSound'
  BY DEF CallSound
<1>2. (status = "active" /\ meddles = 0 /\ ~cut => Arming)'
  BY DEF Arming
<1> QED BY <1>1, <1>2 DEF ReviewInv

\* The operations that find no call in progress.
LEMMA StatusKeeps ==
  ASSUME Review!FollowupsAssumption, ReviewInv,
         \/ Review!Pause \/ Review!Resume \/ Review!Cancel \/ Review!Commit \/ Review!ReportDone
  PROVE  ReviewInv'
<1>1. RowsSound /\ PlanSound /\ CallSound
  BY DEF ReviewInv
<1> DEFINE Asks(enable) ==
        /\ call = None /\ Review!Then("ensure", enable, None) /\ UNCHANGED <<rows, link, meddles, cut, reviews>>
        /\ enable = FALSE => status' = "closed"
        /\ status' = "active" => enable = TRUE \/ status = "active"
        /\ \/ ~plan'.due
           \/ UNCHANGED <<status, plan, held, overheld>>
<1>2. PICK enable \in BOOLEAN \cup {None} : Asks(enable)
  <2>1. ASSUME NEW new \in {"active", "paused", "closed"}, NEW enable \in BOOLEAN \cup {None},
               Review!SetStatus(new, enable),
               enable = FALSE => new = "closed", new = "active" => enable = TRUE
        PROVE  Asks(enable)
    <3>1. /\ status' = new /\ call = None /\ Review!Then("ensure", enable, None)
          /\ UNCHANGED <<rows, link, meddles, cut, reviews, held>>
          /\ IF new = status THEN UNCHANGED <<plan, overheld>> ELSE Review!Plan("silence")
      BY <2>1 DEF Review!SetStatus, Review!Idle, Review!KeepPlan
    <3>2. new # status => ~plan'.due
      BY <3>1 DEF Review!Plan
    <3> QED BY <2>1, <3>1, <3>2
  <2>2. CASE Review!Pause
    <3>1. None # FALSE /\ None # TRUE
      BY DEF Review!FollowupsAssumption
    <3>2. Asks(None)
      BY <2>1, <2>2, <3>1 DEF Review!Pause
    <3> QED BY <3>2
  <2>3. CASE Review!Resume
    BY <2>1, <2>3 DEF Review!Resume
  <2>4. CASE Review!Cancel
    BY <2>1, <2>4 DEF Review!Cancel
  <2>5. CASE Review!Commit \/ Review!ReportDone
    <3>1. /\ call = None /\ Review!Then("ensure", None, None) /\ UNCHANGED <<rows, link, meddles, cut, reviews>>
          /\ status' = "active" => status = "active"
      BY <2>5 DEF Review!Commit, Review!ReportDone, Review!Idle
    <3>2. ~plan'.due
      BY <2>5 DEF Review!Commit, Review!ReportDone, Review!Plan
    <3>3. None # FALSE
      BY DEF Review!FollowupsAssumption
    <3>4. Asks(None)
      BY <3>1, <3>2, <3>3
    <3> QED BY <3>4
  <2> QED BY <2>2, <2>3, <2>4, <2>5
<1>3. PlanSound'
  BY <1>1, <1>2 DEF PlanSound, Review!Tokens
<1>4. status' = "active" /\ meddles = 0 /\ ~cut' =>
        enable = TRUE \/ (\A p \in Review!Ids : rows[p] \in {TRUE, None})
  <2>1. ASSUME status = "active", meddles = 0, ~cut
        PROVE  \A p \in Review!Ids : rows[p] \in {TRUE, None}
    BY <1>1, <1>2, <2>1, ArmedRows DEF ReviewInv, Arming
  <2> QED BY <1>2, <2>1
<1> QED BY <1>1, <1>2, <1>3, <1>4, EnsureStarts

LEMMA PlanKeeps ==
  ASSUME ReviewInv,
         \/ Review!Revise \/ Review!Defer \/ Review!Rebind \/ Review!Elapse
         \/ \E holds \in BOOLEAN : Review!Report(holds)
  PROVE  ReviewInv'
<1>1. /\ RowsSound /\ PlanSound /\ CallSound
      /\ status = "active" /\ meddles = 0 /\ ~cut => Arming
  BY DEF ReviewInv
<1>2. call = None /\ UNCHANGED <<status, link, rows, call, reviews, meddles, cut>>
  BY DEF Review!Revise, Review!Defer, Review!Rebind, Review!Elapse, Review!Report, Review!Idle
<1>3. status = "active" /\ plan'.kind = "silence" /\ plan'.due /\ ~held' => ~overheld'
  <2>1. CASE Review!Revise \/ Review!Defer \/ Review!Rebind
    BY <2>1 DEF Review!Revise, Review!Defer, Review!Rebind, Review!Plan
  <2>2. CASE Review!Elapse
    BY <2>2 DEF Review!Elapse
  <2>3. CASE \E holds \in BOOLEAN : Review!Report(holds)
    <3>1. PICK holds \in BOOLEAN : Review!Report(holds)
      BY <2>3
    <3>2. held' = holds
      BY <3>1 DEF Review!Report
    <3>3. CASE Review!LeavesHold(holds)
      BY <3>1, <3>3 DEF Review!Report, Review!Plan
    <3>4. CASE ~Review!LeavesHold(holds)
      <4>1. UNCHANGED <<plan, overheld>>
        BY <3>1, <3>4 DEF Review!Report, Review!KeepPlan
      <4> QED BY <1>1, <3>2, <3>4, <4>1 DEF PlanSound, Review!LeavesHold
    <3> QED BY <3>3, <3>4
  <2> QED BY <2>1, <2>2, <2>3
<1>4. PlanSound'
  BY <1>1, <1>2, <1>3 DEF PlanSound, Review!Tokens
<1>5. RowsSound'
  BY <1>1, <1>2 DEF RowsSound, Row, Review!Ids
<1> QED BY <1>1, <1>2, <1>4, <1>5, CallEnds DEF Arming

\* Live is the rows that are there.
LEMMA LiveRows ==
  /\ Review!Live \subseteq Review!Ids
  /\ \A p \in Review!Ids : p \in Review!Live <=> Row(p)
  BY DEF Review!Live, Row

LEMMA DoneKeeps ==
  ASSUME RowsSound', PlanSound', Review!Done, UNCHANGED <<status, meddles>>,
         status = "active" /\ meddles = 0 /\ ~cut => link' \in Review!Ids /\ rows'[link'] = TRUE
  PROVE  ReviewInv'
<1>1. call' = None
  BY DEF Review!Done
<1>2. ASSUME ~cut' PROVE ~cut \/ (link' # None /\ rows'[link'] = TRUE)
  BY <1>2 DEF Review!Done
<1>3. ASSUME status' = "active", meddles' = 0, ~cut'
      PROVE  link' \in Review!Ids /\ rows'[link'] = TRUE
  BY <1>2, <1>3 DEF RowsSound
<1> QED BY <1>1, <1>3, CallEnds

\* The step after the ensure: a link or a settling of one row.
LEMMA EnsureGoesOn ==
  ASSUME Review!FollowupsAssumption, NEW next \in {"link", "settle"}, NEW p \in Review!Ids,
         NEW enable \in BOOLEAN \cup {None},
         RowsSound', PlanSound', Review!Then(next, enable, p), UNCHANGED <<status, meddles, cut>>, Row(p)',
         enable = FALSE => status = "closed",
         status = "active" /\ meddles = 0 /\ ~cut =>
            IF next = "link" THEN rows'[p] = TRUE ELSE link' = p /\ (enable = TRUE \/ rows'[p] = TRUE)
  PROVE  ReviewInv'
<1>1. call' = [next |-> next, enable |-> enable, p |-> p]
  BY DEF Review!Then
<1>2. call' \in Review!Calls /\ call'.next = next /\ call'.enable = enable /\ call'.p = p
  BY <1>1 DEF Review!Calls
<1>3. call' # None
  BY <1>2 DEF Review!FollowupsAssumption
<1>4. CallSound'
  BY <1>2, <1>3 DEF CallSound
<1>5. (status = "active" /\ meddles = 0 /\ ~cut => Arming)'
  BY <1>2, <1>3 DEF Arming
<1> QED BY <1>4, <1>5 DEF ReviewInv

\* One row is set as the call asked, or left.
LEMMA SettledKeeps ==
  ASSUME Review!FollowupsAssumption, ReviewInv, call # None, NEW p \in Review!Ids, Row(p), rows' = Review!Settled(p),
         UNCHANGED link
  PROVE  /\ RowsSound'
         /\ call.enable = TRUE \/ (call.enable = None /\ rows[p] = TRUE) => rows'[p] = TRUE
<1>1. rows \in [Review!Ids -> BOOLEAN \cup {None}] /\ call.enable \in BOOLEAN \cup {None}
  BY DEF ReviewInv, RowsSound, CallSound, Review!Calls
<1>2. PICK new \in BOOLEAN : /\ rows' = [rows EXCEPT ![p] = new]
                             /\ new = IF call.enable = None THEN rows[p] ELSE call.enable
  <2>1. rows[p] \in BOOLEAN
    BY <1>1 DEF Row
  <2> QED BY <1>1, <2>1 DEF Review!Settled
<1>3. new # None
  BY <1>2 DEF Review!FollowupsAssumption
<1>4. TRUE # None
  BY DEF Review!FollowupsAssumption
<1>5. RowsSound'
  BY <1>1, <1>2, <1>3 DEF ReviewInv, RowsSound, Row, Review!Ids
<1> QED BY <1>1, <1>2, <1>4, <1>5

LEMMA EnsureKeeps ==
  ASSUME Review!FollowupsAssumption, ReviewInv, call # None, call.next = "ensure", PlanSound',
         Review!KeepLinked \/ Review!Adopt \/ Review!NothingToArm \/ Review!Create,
         UNCHANGED <<status, meddles>>
  PROVE  ReviewInv'
<1>1. /\ RowsSound /\ CallSound /\ rows \in [Review!Ids -> BOOLEAN \cup {None}]
      /\ call.enable \in BOOLEAN \cup {None} /\ (call.enable = FALSE => status = "closed")
      /\ link \in Review!Ids \cup {None} /\ \A p, q \in Review!Ids : Row(p) /\ Row(q) => p = q
  BY DEF ReviewInv, RowsSound, CallSound, Review!Calls
<1>2. ASSUME NEW p \in Review!Ids, Row(p), status = "active", meddles = 0, ~cut
      PROVE  call.enable = TRUE \/ (call.enable = None /\ rows[p] = TRUE)
  BY <1>1, <1>2 DEF ReviewInv, Arming, Row
<1>3. CASE Review!KeepLinked
  <2>1. link \in Review!Ids /\ Row(link) /\ rows' = Review!Settled(link) /\ UNCHANGED link /\ Review!Done
    BY <1>1, <1>3 DEF Review!KeepLinked, Review!Linked, Row
  <2>2. RowsSound' /\ (call.enable = TRUE \/ (call.enable = None /\ rows[link] = TRUE) => rows'[link] = TRUE)
    BY <2>1, SettledKeeps
  <2> QED BY <1>2, <2>1, <2>2, DoneKeeps
<1>4. CASE Review!Adopt
  <2>1. PICK q \in Review!Orphans : TRUE
    BY <1>4 DEF Review!Adopt
  <2>2. q \in Review!Ids /\ Row(q) /\ Review!Orphans = {q}
    BY <1>1, <2>1, LiveRows DEF Review!Orphans
  <2>3. (CHOOSE s \in Review!Orphans : \A r \in Review!Orphans : s <= r) = q
    <3>1. q <= q
      BY <2>2 DEF Review!Ids
    <3> QED BY <2>2, <3>1
  <2>4. /\ link' = q /\ rows' = [s \in Review!Ids |-> rows[s]] /\ Review!Then("settle", call.enable, q)
        /\ UNCHANGED cut
    BY <1>4, <2>2, <2>3 DEF Review!Adopt
  <2>5. rows' = rows
    BY <1>1, <2>4
  <2>6. RowsSound' /\ Row(q)'
    BY <1>1, <2>2, <2>4, <2>5 DEF RowsSound, Row, Review!Ids
  <2>7. status = "active" /\ meddles = 0 /\ ~cut => link' = q /\ (call.enable = TRUE \/ rows'[q] = TRUE)
    BY <1>2, <2>2, <2>4, <2>5
  <2> QED BY <1>1, <2>2, <2>4, <2>6, <2>7, EnsureGoesOn
<1>5. CASE Review!NothingToArm
  <2>1. UNCHANGED <<link, rows>> /\ Review!Done /\ (call.enable = FALSE \/ status # "active")
    BY <1>5 DEF Review!NothingToArm
  <2>2. RowsSound'
    BY <1>1, <2>1 DEF RowsSound, Row, Review!Ids
  <2> QED BY <1>1, <2>1, <2>2, DoneKeeps
<1>6. CASE Review!Create
  <2>1. PICK p \in Review!Ids : /\ rows' = [rows EXCEPT ![p] = TRUE] /\ Review!Then("link", call.enable, p)
                                /\ UNCHANGED <<link, cut>>
    BY <1>6 DEF Review!Create
  <2>2. \A q \in Review!Ids : ~Row(q)
    BY <1>6, LiveRows DEF Review!Create, Review!Orphans
  <2>3. rows' \in [Review!Ids -> BOOLEAN \cup {None}] /\ rows'[p] = TRUE /\ \A q \in Review!Ids \ {p} : rows'[q] = None
    BY <1>1, <2>1, <2>2 DEF Row
  <2>4. TRUE # None
    BY DEF Review!FollowupsAssumption
  <2>5. RowsSound' /\ Row(p)'
    BY <1>1, <2>1, <2>3, <2>4 DEF RowsSound, Row, Review!Ids
  <2> QED BY <1>1, <2>1, <2>3, <2>5, EnsureGoesOn
<1> QED BY <1>3, <1>4, <1>5, <1>6

LEMMA ProceedKeeps ==
  ASSUME Review!FollowupsAssumption, ReviewInv, Review!Proceed PROVE ReviewInv'
<1>1. /\ RowsSound /\ PlanSound /\ CallSound /\ call \in Review!Calls
      /\ call # None /\ UNCHANGED <<status, held, reviews, meddles>>
      /\ status = "active" /\ meddles = 0 /\ ~cut => Arming
      /\ call.enable \in BOOLEAN \cup {None} /\ (call.enable = FALSE => status = "closed")
      /\ call.next \in {"link", "settle"} => call.p \in Review!Ids /\ Row(call.p)
  BY DEF ReviewInv, Review!Proceed, Review!Idle, CallSound, Review!Calls
<1>2. PlanSound'
  <2>1. ~plan'.due \/ UNCHANGED <<plan, overheld>>
    BY DEF Review!Proceed, Review!Plan, Review!KeepPlan
  <2> QED BY <1>1, <2>1 DEF PlanSound, Review!Tokens
<1>3. CASE call.next = "ensure"
  BY <1>1, <1>2, <1>3, EnsureKeeps DEF Review!Proceed
<1>4. CASE call.next = "link"
  <2>1. link' = call.p /\ UNCHANGED rows /\ Review!Done
    BY <1>4 DEF Review!Proceed
  <2>2. RowsSound'
    BY <1>1, <1>4, <2>1 DEF RowsSound, Row, Review!Ids
  <2> QED BY <1>1, <1>2, <1>4, <2>1, <2>2, DoneKeeps DEF Arming
<1>5. CASE call.next = "settle"
  <2>1. rows' = Review!Settled(call.p) /\ UNCHANGED link /\ Review!Done
    BY <1>5 DEF Review!Proceed
  <2>2. RowsSound' /\ (call.enable = TRUE \/ (call.enable = None /\ rows[call.p] = TRUE) => rows'[call.p] = TRUE)
    BY <1>1, <1>5, <2>1, SettledKeeps
  <2>3. status = "active" /\ meddles = 0 /\ ~cut => link = call.p /\ rows'[call.p] = TRUE
    BY <1>1, <1>5, <2>2 DEF Arming
  <2> QED BY <1>1, <1>2, <1>5, <2>1, <2>2, <2>3, DoneKeeps
<1>6. CASE call.next = "consume"
  <2>1. UNCHANGED <<link, rows, cut>> /\ call' = None
    BY <1>6 DEF Review!Proceed
  <2>2. RowsSound'
    BY <1>1, <2>1 DEF RowsSound, Row, Review!Ids
  <2> QED BY <1>1, <1>2, <1>6, <2>1, <2>2, CallEnds DEF Arming
<1> QED BY <1>1, <1>3, <1>4, <1>5, <1>6 DEF Review!Calls

LEMMA CutShort ==
  ASSUME Review!FollowupsAssumption, ReviewInv, Review!Refused \/ Review!Crash PROVE ReviewInv'
<1>1. /\ RowsSound /\ PlanSound /\ CallSound
      /\ status = "active" /\ meddles = 0 /\ ~cut => Arming
  BY DEF ReviewInv
<1>2. UNCHANGED <<status, plan, link, rows, held, reviews, meddles, overheld>>
  BY DEF Review!Refused, Review!Crash
<1>3. RowsSound' /\ PlanSound'
  BY <1>1, <1>2 DEF RowsSound, PlanSound, Row, Review!Ids, Review!Tokens
<1>4. CASE Review!Refused
  <2>1. call # None /\ call' = None /\ (~cut' => ~cut /\ call.next = "consume")
    BY <1>4 DEF Review!Refused, Review!Idle
  <2> QED BY <1>1, <1>2, <1>3, <2>1, CallEnds DEF Arming
<1>5. CASE Review!Crash /\ status = "closed"
  <2>1. call' = None
    BY <1>5 DEF Review!Crash
  <2> QED BY <1>2, <1>3, <1>5, <2>1, CallEnds
<1>6. CASE Review!Crash /\ status # "closed"
  <2>1. Review!Then("ensure", None, None) /\ (~cut' => ~cut /\ (call = None \/ call.enable # TRUE))
    BY <1>6 DEF Review!Crash, Review!Idle
  <2>2. ASSUME status = "active", meddles = 0, ~cut'
        PROVE  \A p \in Review!Ids : rows[p] \in {TRUE, None}
    <3>1. Arming /\ (call = None \/ call.enable # TRUE)
      BY <1>1, <2>1, <2>2
    <3>2. CASE call = None \/ call.next = "consume"
      BY <1>1, <3>1, <3>2, ArmedRows DEF Arming
    <3>3. CASE call # None /\ call.next \in {"link", "settle"}
      <4>1. call.p \in Review!Ids /\ rows[call.p] = TRUE
        BY <1>1, <3>1, <3>3 DEF Arming, CallSound
      <4>2. Row(call.p)
        BY <4>1 DEF Row, Review!FollowupsAssumption
      <4> QED BY <1>1, <4>1, <4>2 DEF RowsSound, Row
    <3>4. CASE call # None /\ call.next = "ensure"
      <4>1. call.enable \in {None, FALSE, TRUE} /\ (call.enable = FALSE => status = "closed")
        BY <1>1, <3>4 DEF CallSound, Review!Calls
      <4>2. call.enable = None
        BY <2>2, <3>1, <3>4, <4>1
      <4> QED BY <3>1, <3>4, <4>2 DEF Arming
    <3> QED BY <1>1, <3>2, <3>3, <3>4 DEF CallSound, Review!Calls
  <2>3. None # FALSE
    BY DEF Review!FollowupsAssumption
  <2> QED BY <1>1, <1>2, <1>3, <2>1, <2>2, <2>3, EnsureStarts
<1> QED BY <1>4, <1>5, <1>6

LEMMA MeddleKeeps ==
  ASSUME Review!FollowupsAssumption, ReviewInv, Review!Meddle PROVE ReviewInv'
<1>1. /\ RowsSound /\ PlanSound /\ rows \in [Review!Ids -> BOOLEAN \cup {None}] /\ meddles \in Nat
      /\ call = None /\ meddles' = meddles + 1
      /\ UNCHANGED <<status, plan, link, held, call, reviews, overheld, cut>>
  BY DEF ReviewInv, RowsSound, PlanSound, Review!Meddle, Review!Idle
<1>2. PICK p \in Review!Ids : /\ Row(p)
                              /\ rows' \in {[rows EXCEPT ![p] = ~@], [rows EXCEPT ![p] = None]}
  BY LiveRows DEF Review!Meddle
<1>3. rows' \in [Review!Ids -> BOOLEAN \cup {None}] /\ \A q \in Review!Ids \ {p} : rows'[q] = rows[q]
  <2>1. (~rows[p]) \in BOOLEAN
    BY Zenon
  <2> QED BY <1>1, <1>2, <2>1
<1>4. RowsSound'
  BY <1>1, <1>2, <1>3 DEF RowsSound, Row, Review!Ids
<1>5. PlanSound' /\ meddles' # 0
  BY <1>1 DEF PlanSound, Review!Tokens
<1> QED BY <1>1, <1>4, <1>5, CallEnds

LEMMA TickKeeps ==
  ASSUME Review!FollowupsAssumption, ReviewInv, NEW p \in Review!Ids, Review!Tick(p) PROVE ReviewInv'
<1>1. /\ RowsSound /\ PlanSound /\ call = None /\ rows[p] = TRUE /\ link = p
      /\ Review!Then("consume", None, p)
      /\ UNCHANGED <<status, plan, link, rows, held, meddles, overheld, cut>>
  BY DEF ReviewInv, Review!Tick, Review!Idle
<1>2. reviews' \in [Review!Tokens -> {0, 1}]
  <2>1. reviews \in [Review!Tokens -> {0, 1}]
    BY <1>1 DEF PlanSound
  <2>2. CASE reviews' = reviews
    BY <2>1, <2>2
  <2>3. CASE ~Review!Recorded /\ reviews' = [reviews EXCEPT ![plan.token] = @ + 1]
    <3>1. CASE plan.token \in Review!Tokens
      <4>1. reviews[plan.token] = 0
        BY <2>1, <2>3, <3>1 DEF Review!Recorded
      <4> QED BY <2>1, <2>3, <3>1, <4>1
    <3>2. CASE plan.token \notin Review!Tokens
      BY <2>1, <2>3, <3>2
    <3> QED BY <3>1, <3>2
  <2> QED BY <2>2, <2>3 DEF Review!Tick
<1>3. PlanSound' /\ RowsSound'
  BY <1>1, <1>2 DEF PlanSound, RowsSound, Row, Review!Ids, Review!Tokens
<1>4. call' = [next |-> "consume", enable |-> None, p |-> p]
  BY <1>1 DEF Review!Then
<1>5. call' \in Review!Calls /\ call'.next = "consume" /\ call'.enable = None
  BY <1>4 DEF Review!Calls
<1>6. call' # None /\ None # FALSE
  BY <1>5 DEF Review!FollowupsAssumption
<1>7. CallSound'
  BY <1>5, <1>6 DEF CallSound
<1>8. Arming'
  BY <1>1, <1>5, <1>6 DEF Arming
<1> QED BY <1>3, <1>7, <1>8 DEF ReviewInv

LEMMA ReviewInit ==
  ASSUME Review!FollowupsAssumption, Review!Init PROVE ReviewInv
<1>1. /\ status = "active" /\ ~plan.due /\ link = None /\ rows = [p \in Review!Ids |-> None]
      /\ call = [next |-> "ensure", enable |-> None, p |-> None]
      /\ reviews = [t \in Review!Tokens |-> 0] /\ meddles = 0
  BY DEF Review!Init
<1>2. call \in Review!Calls /\ call.next = "ensure" /\ call.enable = None
  BY <1>1 DEF Review!Calls
<1>3. call # None /\ None # FALSE
  BY <1>2 DEF Review!FollowupsAssumption
<1>4. RowsSound /\ PlanSound
  BY <1>1 DEF RowsSound, PlanSound, Row
<1>5. CallSound
  BY <1>2, <1>3 DEF CallSound
<1>6. Arming
  BY <1>1, <1>2, <1>3 DEF Arming
<1> QED BY <1>4, <1>5, <1>6 DEF ReviewInv

LEMMA ReviewNext ==
  ASSUME Review!FollowupsAssumption, ReviewInv, [Review!Next]_(Review!vars) PROVE ReviewInv'
<1>1. CASE UNCHANGED Review!vars
  <2>1. UNCHANGED <<status, plan, link, rows, held, call, reviews, meddles, overheld, cut>>
    BY <1>1 DEF Review!vars
  <2>2. RowsSound' = RowsSound /\ PlanSound' = PlanSound
    BY <2>1 DEF RowsSound, PlanSound, Row
  <2>3. CallSound' = CallSound /\ Arming' = Arming
    BY <2>1 DEF CallSound, Arming, Row
  <2> QED BY <2>1, <2>2, <2>3 DEF ReviewInv
<1>2. CASE Review!Next
  BY <1>2, StatusKeeps, PlanKeeps, ProceedKeeps, CutShort, MeddleKeeps, TickKeeps DEF Review!Next
<1> QED BY <1>1, <1>2

\* What is left of a call, and what it leaves armed: the strengthening of the follow-up's
\* claims.
THEOREM ReviewInvariant == Review!FollowupsAssumption => (Review!Spec => []ReviewInv)
<1> SUFFICES ASSUME Review!FollowupsAssumption PROVE Review!Spec => []ReviewInv
  OBVIOUS
<1> QED BY ReviewInit, ReviewNext, PTL DEF Review!Spec

\* One follow-up program, one review of a plan, no stale silence, and an armed
\* responsibility at rest (Followups, FollowupInv).
THEOREM FollowupHolds ==
  /\ Review!FollowupsAssumption => (Review!Spec => []Review!FollowupInv)
  /\ OutboundSpec => []FollowupInv
<1>1. ASSUME Review!FollowupsAssumption, ReviewInv PROVE Review!FollowupInv
  <2>1. /\ RowsSound /\ PlanSound /\ CallSound
        /\ status = "active" /\ meddles = 0 /\ ~cut => Arming
    BY <1>1 DEF ReviewInv
  <2>2. Review!OneProgram
    BY <2>1, LiveRows DEF Review!OneProgram, RowsSound
  <2>3. Review!ReviewedOnce
    BY <2>1 DEF PlanSound, Review!ReviewedOnce
  <2>4. Review!FreshBound
    BY <2>1 DEF PlanSound, Review!FreshBound
  <2>5. Review!Armed
    <3>1. TRUE # None /\ None \notin Int
      BY <1>1 DEF Review!FollowupsAssumption
    <3>2. None \notin Review!Ids
      BY <3>1 DEF Review!Ids
    <3>3. ASSUME Review!Idle, status = "active", meddles = 0, ~cut
          PROVE  link # None /\ rows[link] = TRUE /\ rows[link] # None
      BY <2>1, <3>1, <3>2, <3>3 DEF Arming, Review!Idle
    <3> QED BY <3>3, Zenon DEF Review!Armed, Review!Linked
  <2> QED BY <2>2, <2>3, <2>4, <2>5 DEF Review!FollowupInv
<1>2. Review!FollowupsAssumption => (Review!Spec => []Review!FollowupInv)
  <2> SUFFICES ASSUME Review!FollowupsAssumption PROVE Review!Spec => []Review!FollowupInv
    OBVIOUS
  <2>1. ReviewInv => Review!FollowupInv
    BY <1>1
  <2> QED BY <2>1, ReviewInvariant, PTL
<1>3. OutboundSpec => []Review!FollowupInv
  BY <1>2, ReviewAssumption, Apart, PTL
<1> QED BY <1>2, <1>3 DEF FollowupInv

-----------------------------------------------------------------------------
(* Observation: what a key says of the cursor that wrote it.               *)

Listing ==
    [session : Sessions, listed : BOOLEAN, seq : Nat \cup {None}, comp : Nat, blocked : BOOLEAN,
     total : Nat, life : Nat]
Cursor ==
    [seq : Nat \cup {None}, comp : Nat, blocked : BOOLEAN, missing : BOOLEAN, epoch : Nat, stints : Nat,
     total : Nat, life : Nat]
Health == {"attached", "missing", "identity_changed", "detached"}

\* What a knows of the agent, b knows as well or is later.
Before(a, b) ==
    /\ a.life <= b.life /\ a.total <= b.total
    /\ a.life = b.life => a.comp <= b.comp /\ b.total - b.comp = a.total - a.comp

RecordsSound ==
    /\ att \in [gen : Nat, dest : Sessions, health : Health]
    /\ cursor \in Cursor /\ told \in [total : Nat, blocked : BOOLEAN]

KeySound(g, e, kind, n) ==
    /\ g \in Nat /\ e \in Nat /\ g <= att.gen
    /\ kind \in {"done", "blocked"} => n \in Nat
    /\ g = att.gen =>
        /\ e <= cursor.epoch
        /\ kind = "identity" => ~Watch!Sighted
        /\ kind = "blocked" => n <= cursor.stints
        /\ kind \in {"recovered", "done"} /\ e = cursor.epoch => ~cursor.missing
        /\ kind = "done" /\ e = cursor.epoch => blind \/ n <= cursor.comp

KeysSound == \A e \in events : KeySound(e.key[1], e.key[2], e.key[3], e.key[4])

CommitInv ==
    /\ RecordsSound /\ KeysSound
    /\ Watch!FreshKeys /\ Watch!NoneSwallowed /\ Watch!ReplacedForCause

\* The cursor, a listing and the agent, in the order of what they know.
ListingsSound ==
    /\ agent \in Listing /\ agent.seq \in Nat /\ Before(cursor, agent)
    /\ agent.session # att.dest => replaced
    /\ bind # None => bind.seen \in Listing /\ Before(bind.seen, agent)
    /\ pass # None =>
        /\ pass.gen \in Nat /\ pass.gen <= att.gen
        /\ pass.seen \in Listing /\ Before(pass.seen, agent)
        /\ pass.gen = att.gen => /\ Before(cursor, pass.seen)
                                 /\ pass.seen.session # att.dest => replaced

WatchInv == CommitInv /\ ListingsSound

\* The cursor a sighting leaves, field by field.
LeavesCursor(new, v, stints) ==
    /\ new \in Cursor /\ new.epoch = Watch!Epoch(v)
    /\ v.listed => /\ new.comp = v.comp /\ new.total = v.total /\ new.life = v.life
                   /\ new.blocked = v.blocked /\ new.missing = FALSE /\ new.stints = stints
    /\ ~v.listed => /\ new.comp = cursor.comp /\ new.total = cursor.total /\ new.life = cursor.life
                    /\ new.blocked = FALSE /\ new.missing = TRUE /\ new.stints = cursor.stints

LEMMA SightingFields ==
  ASSUME cursor \in Cursor, NEW v \in Listing, NEW stints \in Nat
  PROVE  LeavesCursor(Watch!Sighting(v, stints), v, stints)
<1> DEFINE new == Watch!Sighting(v, stints)
<1>1. Watch!Epoch(v) \in Nat
  <2>1. cursor.epoch \in Nat
    BY DEF Cursor
  <2> QED BY <2>1 DEF Watch!Epoch
<1>2. CASE v.listed
  <2> DEFINE base == Watch!CursorFromAgent(v)
             once == [base EXCEPT !.epoch = Watch!Epoch(v)]
  <2>1. /\ base \in Cursor /\ base.comp = v.comp /\ base.total = v.total /\ base.life = v.life
        /\ base.blocked = v.blocked /\ base.missing = FALSE
    BY DEF Watch!CursorFromAgent, Cursor, Listing
  <2> HIDE DEF base
  <2>2. /\ once \in Cursor /\ once.comp = v.comp /\ once.total = v.total /\ once.life = v.life
        /\ once.blocked = v.blocked /\ once.missing = FALSE /\ once.epoch = Watch!Epoch(v)
    BY <1>1, <2>1 DEF Cursor
  <2>3. new = [once EXCEPT !.stints = stints]
    BY <1>2, <2>1 DEF Watch!Sighting, base, Cursor
  <2> HIDE DEF once, new
  <2> QED BY <1>2, <2>2, <2>3 DEF Cursor, new, LeavesCursor
<1>3. CASE ~v.listed
  <2> DEFINE once == [cursor EXCEPT !.missing = TRUE]
             twice == [once EXCEPT !.blocked = FALSE]
  <2>1. /\ once \in Cursor /\ once.comp = cursor.comp /\ once.total = cursor.total /\ once.life = cursor.life
        /\ once.missing = TRUE /\ once.stints = cursor.stints
    BY DEF Cursor
  <2>2. /\ twice \in Cursor /\ twice.comp = cursor.comp /\ twice.total = cursor.total /\ twice.life = cursor.life
        /\ twice.missing = TRUE /\ twice.stints = cursor.stints /\ twice.blocked = FALSE
    <3> HIDE DEF once
    <3> QED BY <2>1 DEF Cursor
  <2>3. new = [twice EXCEPT !.epoch = Watch!Epoch(v)]
    BY <1>3 DEF Watch!Sighting, Cursor
  <2> HIDE DEF once, twice, new
  <2> QED BY <1>1, <1>3, <2>2, <2>3 DEF Cursor, new, LeavesCursor
<1> QED BY <1>2, <1>3

\* The keys that are there stay sound under the cursor a sighting leaves.
LEMMA KeysKept ==
  ASSUME RecordsSound, KeysSound, NEW v \in Listing, Before(cursor, v),
         NEW stints \in Nat, cursor.stints <= stints, cursor' = Watch!Sighting(v, stints),
         blind' = (blind \/ Watch!Overlooks(v)), att'.gen = att.gen, Watch!Sighted' => Watch!Sighted
  PROVE  /\ \A e \in events : KeySound(e.key[1], e.key[2], e.key[3], e.key[4])'
         /\ cursor' \in Cursor /\ Before(cursor', v)
<1>1. /\ cursor \in Cursor /\ att.gen \in Nat
      /\ cursor.comp \in Nat /\ cursor.life \in Nat /\ cursor.total \in Nat /\ cursor.epoch \in Nat /\ cursor.stints \in Nat
      /\ v.comp \in Nat /\ v.life \in Nat /\ v.total \in Nat
  BY DEF RecordsSound, Cursor, Listing
<1>2. /\ cursor' \in Cursor /\ cursor'.epoch = Watch!Epoch(v)
      /\ v.listed => /\ cursor'.comp = v.comp /\ cursor'.total = v.total /\ cursor'.life = v.life
                     /\ cursor'.missing = FALSE /\ cursor'.stints = stints
      /\ ~v.listed => /\ cursor'.comp = cursor.comp /\ cursor'.total = cursor.total /\ cursor'.life = cursor.life
                      /\ cursor'.missing = TRUE /\ cursor'.stints = cursor.stints
  <2>1. LeavesCursor(cursor', v, stints)
    BY <1>1, SightingFields
  <2> QED BY <2>1 DEF LeavesCursor
<1>3. Before(cursor', v)
  BY <1>1, <1>2 DEF Before
<1>4. /\ cursor'.epoch \in {cursor.epoch, cursor.epoch + 1} /\ cursor.stints <= cursor'.stints
      /\ cursor'.epoch = cursor.epoch /\ ~v.listed => cursor.missing
      /\ cursor'.epoch = cursor.epoch /\ v.listed => ~Watch!Reset(v)
  BY <1>1, <1>2 DEF Watch!Epoch, Watch!Vanished
<1>5. ASSUME cursor'.epoch = cursor.epoch, v.listed, ~cursor.missing, ~blind'
      PROVE  ~blind /\ cursor.comp <= cursor'.comp
  <2>1. ~blind /\ ~Watch!Overlooks(v)
    BY <1>5
  <2>2. v.life = cursor.life
    BY <1>4, <1>5, <2>1 DEF Watch!Overlooks
  <2> QED BY <1>1, <1>2, <1>5, <2>1, <2>2 DEF Before
<1>6. ASSUME NEW g, NEW e, NEW kind, NEW n, KeySound(g, e, kind, n)
      PROVE  KeySound(g, e, kind, n)'
  <2>1. /\ g \in Nat /\ e \in Nat /\ g <= att.gen
        /\ kind \in {"done", "blocked"} => n \in Nat
    BY <1>6 DEF KeySound
  <2>2. ASSUME g = att.gen
        PROVE  /\ e <= cursor'.epoch
               /\ kind = "identity" => ~Watch!Sighted'
               /\ kind = "blocked" => n <= cursor'.stints
    <3>1. /\ e <= cursor.epoch /\ (kind = "identity" => ~Watch!Sighted)
          /\ kind = "blocked" => n <= cursor.stints
      BY <1>6, <2>2 DEF KeySound
    <3> QED BY <1>1, <1>2, <1>4, <2>1, <3>1 DEF Cursor
  <2>3. ASSUME g = att.gen, kind \in {"recovered", "done"}, e = cursor'.epoch
        PROVE  ~cursor'.missing /\ (kind = "done" => blind' \/ n <= cursor'.comp)
    <3>1. e = cursor.epoch /\ cursor'.epoch = cursor.epoch
      BY <1>1, <1>4, <1>6, <2>1, <2>3 DEF KeySound
    <3>2. ~cursor.missing /\ (kind = "done" => blind \/ n <= cursor.comp)
      BY <1>6, <2>3, <3>1 DEF KeySound
    <3>3. v.listed
      BY <1>4, <3>1, <3>2
    <3>4. ~cursor'.missing
      BY <1>2, <3>3
    <3>5. ASSUME kind = "done", ~blind'
          PROVE  n <= cursor'.comp
      <4>1. cursor.comp <= cursor'.comp /\ n <= cursor.comp
        BY <1>5, <3>1, <3>2, <3>3, <3>5
      <4> QED BY <1>1, <1>2, <2>1, <3>3, <3>5, <4>1
    <3> QED BY <3>4, <3>5
  <2> QED BY <2>1, <2>2, <2>3 DEF KeySound
<1> QED BY <1>2, <1>3, <1>6 DEF KeysSound

LEMMA NoteKeeps ==
  ASSUME CommitInv, NEW v \in Listing, Before(cursor, v), Watch!Note(v),
         v.listed => ~cursor.missing /\ ~Watch!Reset(v) /\ ~Watch!Completes(v) /\ ~Watch!Blocks(v),
         ~v.listed => ~Watch!Vanished(v), UNCHANGED replaced
  PROVE  CommitInv' /\ Before(cursor', v) /\ att' = att
<1>1. /\ RecordsSound /\ KeysSound /\ cursor \in Cursor /\ att.gen \in Nat /\ told \in [total : Nat, blocked : BOOLEAN]
      /\ cursor.stints \in Nat /\ cursor.comp \in Nat /\ cursor.life \in Nat /\ cursor.total \in Nat
      /\ v.comp \in Nat /\ v.total \in Nat /\ v.life \in Nat /\ cursor.blocked \in BOOLEAN /\ v.blocked \in BOOLEAN
  BY DEF CommitInv, RecordsSound, Cursor, Listing
<1>2. /\ cursor' = Watch!Sighting(v, cursor.stints) /\ att' = att /\ events' = events /\ clash' = clash
      /\ told' = [told EXCEPT !.blocked = @ /\ cursor'.blocked]
      /\ blind' = (blind \/ Watch!Overlooks(v))
  BY DEF Watch!Note
<1>3. Watch!Sighted' = Watch!Sighted
  BY <1>2 DEF Watch!Sighted
<1>4. KeysSound' /\ cursor' \in Cursor /\ Before(cursor', v)
  BY <1>1, <1>2, <1>3, KeysKept DEF KeysSound
<1>5. /\ v.listed => cursor'.total = v.total /\ cursor'.blocked = v.blocked
      /\ ~v.listed => cursor'.total = cursor.total /\ cursor'.blocked = FALSE
  <2>1. LeavesCursor(cursor', v, cursor.stints)
    BY <1>1, <1>2, SightingFields
  <2> QED BY <2>1 DEF LeavesCursor
<1>6. told' \in [total : Nat, blocked : BOOLEAN] /\ told'.total = told.total /\ (told'.blocked <=> told.blocked /\ cursor'.blocked)
  <2>1. (told.blocked /\ cursor'.blocked) \in BOOLEAN
    BY Zenon
  <2> QED BY <1>1, <1>2, <2>1
<1>7. RecordsSound'
  BY <1>1, <1>2, <1>4, <1>6 DEF RecordsSound
<1>8. Watch!FreshKeys' /\ Watch!ReplacedForCause'
  BY <1>2 DEF CommitInv, Watch!FreshKeys, Watch!ReplacedForCause
<1>9. Watch!NoneSwallowed'
  <2>1. SUFFICES ASSUME ~blind' PROVE cursor'.total <= told'.total /\ (cursor'.blocked => told'.blocked)
    BY DEF Watch!NoneSwallowed
  <2>2. /\ ~blind /\ ~Watch!Overlooks(v) /\ cursor.total <= told.total
        /\ cursor.blocked => told.blocked
    BY <1>2, <2>1 DEF CommitInv, Watch!NoneSwallowed
  <2>3. CASE v.listed
    <3>1. v.life = cursor.life /\ v.comp <= cursor.comp
      BY <1>1, <2>2, <2>3 DEF Watch!Overlooks, Watch!Completes
    <3>2. v.total = cursor.total
      BY <1>1, <3>1 DEF Before
    <3>3. v.blocked => cursor.blocked
      BY <2>3 DEF Watch!Blocks
    <3> QED BY <1>5, <1>6, <2>2, <2>3, <3>2, <3>3
  <2>4. CASE ~v.listed
    BY <1>5, <1>6, <2>2, <2>4
  <2> QED BY <2>3, <2>4
<1> QED BY <1>2, <1>4, <1>7, <1>8, <1>9 DEF CommitInv

\* What entitles a development of each kind to be told.
Entitled(v, kind, n, health, stints) ==
    /\ kind # "identity" => health \in {"attached", "missing"}
    /\ kind # "blocked" => stints = cursor.stints
    /\ \/ kind = "missing" /\ Watch!Vanished(v) /\ ~v.blocked
       \/ kind = "identity" /\ v.listed /\ health = "identity_changed" /\ replaced
       \/ kind = "recovered" /\ v.listed /\ cursor.missing
       \/ kind = "cursor-reset" /\ v.listed /\ Watch!Reset(v)
       \/ kind = "done" /\ v.listed /\ ~cursor.missing /\ ~Watch!Reset(v) /\ n = v.comp /\ cursor.comp < v.comp
       \/ kind = "blocked" /\ v.listed /\ n = cursor.stints + 1 /\ stints = n

LEMMA KeyIsNew ==
  ASSUME CommitInv, Watch!Sighted, NEW v \in Listing, Before(cursor, v), NEW kind, NEW n, NEW health, NEW stints,
         Entitled(v, kind, n, health, stints), ~blind,
         NEW e \in events, e.key = <<att.gen, Watch!Epoch(v), kind, n>>
  PROVE  FALSE
<1>1. KeySound(att.gen, Watch!Epoch(v), kind, n)
  BY DEF CommitInv, KeysSound
<1>2. /\ cursor.epoch \in Nat /\ cursor.stints \in Nat /\ cursor.comp \in Nat /\ v.comp \in Nat
  BY DEF CommitInv, RecordsSound, Cursor, Listing
<1>3. /\ Watch!Epoch(v) <= cursor.epoch
      /\ kind # "identity"
      /\ kind = "blocked" => n <= cursor.stints
      /\ kind \in {"recovered", "done"} /\ Watch!Epoch(v) = cursor.epoch => ~cursor.missing
      /\ kind = "done" /\ Watch!Epoch(v) = cursor.epoch => n <= cursor.comp
  BY <1>1 DEF KeySound
<1>4. Watch!Epoch(v) = cursor.epoch /\ ~Watch!Vanished(v) /\ (v.listed => ~Watch!Reset(v))
  BY <1>2, <1>3 DEF Watch!Epoch
<1> QED BY <1>2, <1>3, <1>4 DEF Entitled

LEMMA TellKeeps ==
  ASSUME CommitInv, Watch!Sighted, NEW v \in Listing, Before(cursor, v),
         NEW kind \in {"missing", "identity", "recovered", "cursor-reset", "done", "blocked"}, NEW n,
         NEW health \in Health, NEW stints, Entitled(v, kind, n, health, stints),
         Watch!Tell(v, kind, n, health, stints), UNCHANGED replaced
  PROVE  /\ CommitInv' /\ att'.gen = att.gen /\ att'.dest = att.dest
         /\ Before(cursor', v) \/ cursor' = cursor
<1> DEFINE key == <<att.gen, Watch!Epoch(v), kind, n>>
           known == {e \in events : e.key = key}
           throws == \E e \in known : e.text # v.blocked
<1>1. /\ RecordsSound /\ KeysSound /\ cursor \in Cursor /\ att.gen \in Nat
      /\ cursor.stints \in Nat /\ cursor.comp \in Nat /\ cursor.life \in Nat /\ cursor.total \in Nat /\ cursor.epoch \in Nat
      /\ v.comp \in Nat /\ v.total \in Nat /\ v.life \in Nat /\ v.blocked \in BOOLEAN
      /\ att \in [gen : Nat, dest : Sessions, health : Health]
  BY DEF CommitInv, RecordsSound, Cursor, Listing
<1>2. /\ clash' = (clash \/ known # {}) /\ blind' = (blind \/ Watch!Overlooks(v))
      /\ throws => UNCHANGED <<att, cursor, events, told>>
      /\ ~throws => /\ cursor' = Watch!Sighting(v, stints) /\ att' = [att EXCEPT !.health = health]
                    /\ events' = events \cup {[key |-> key, text |-> v.blocked]}
                    /\ told' = IF known = {} THEN Watch!Telling(v) ELSE told
  BY DEF Watch!Tell
<1>3. known # {} => blind
  <2>1. ASSUME ~blind, NEW e \in known PROVE FALSE
    BY <2>1, KeyIsNew
  <2> QED BY <2>1
<1>4. Watch!FreshKeys'
  BY <1>2, <1>3 DEF CommitInv, Watch!FreshKeys
<1>5. CASE throws
  <2>1. blind' /\ UNCHANGED <<att, cursor, events, told>>
    BY <1>2, <1>3, <1>5
  <2>2. ASSUME NEW g, NEW ep, NEW k, NEW m, KeySound(g, ep, k, m)
        PROVE  KeySound(g, ep, k, m)'
    BY <2>1, <2>2 DEF KeySound, Watch!Sighted
  <2>3. RecordsSound' /\ KeysSound'
    BY <1>1, <2>1, <2>2 DEF RecordsSound, KeysSound
  <2>4. Watch!NoneSwallowed' /\ Watch!ReplacedForCause'
    BY <2>1 DEF CommitInv, Watch!NoneSwallowed, Watch!ReplacedForCause
  <2> QED BY <1>4, <2>1, <2>3, <2>4 DEF CommitInv
<1>6. CASE ~throws
  <2>1. /\ cursor' = Watch!Sighting(v, stints) /\ att' = [att EXCEPT !.health = health]
        /\ events' = events \cup {[key |-> key, text |-> v.blocked]}
        /\ told' = IF known = {} THEN Watch!Telling(v) ELSE told
    BY <1>2, <1>6
  <2>2. /\ att' \in [gen : Nat, dest : Sessions, health : Health] /\ att'.gen = att.gen /\ att'.dest = att.dest
        /\ att'.health = health
    BY <1>1, <2>1
  <2>3. stints \in Nat /\ cursor.stints <= stints
    BY <1>1 DEF Entitled
  <2>4. /\ \A e \in events : KeySound(e.key[1], e.key[2], e.key[3], e.key[4])'
        /\ cursor' \in Cursor /\ Before(cursor', v)
    BY <1>1, <1>2, <2>1, <2>2, <2>3, KeysKept
  <2>5. /\ cursor'.epoch = Watch!Epoch(v) /\ cursor'.stints \in Nat /\ cursor'.epoch \in Nat
        /\ v.listed => /\ cursor'.comp = v.comp /\ cursor'.total = v.total /\ cursor'.blocked = v.blocked
                       /\ cursor'.missing = FALSE /\ cursor'.stints = stints
        /\ ~v.listed => cursor'.total = cursor.total /\ cursor'.blocked = FALSE
    <3>1. cursor'.stints \in Nat /\ cursor'.epoch \in Nat
      BY <2>4 DEF Cursor
    <3>2. LeavesCursor(cursor', v, stints)
      <4> HIDE DEF known
      <4> QED BY <1>1, <2>1, <2>3, SightingFields
    <3> QED BY <3>1, <3>2 DEF LeavesCursor
  <2>6. PICK g, ep : g = att.gen /\ ep = Watch!Epoch(v)
    OBVIOUS
  <2>7. KeySound(g, ep, kind, n)'
    <3>1. kind \in {"done", "blocked"} => n \in Nat
      BY <1>1 DEF Entitled
    <3>2. kind = "identity" => ~Watch!Sighted'
      BY <2>2 DEF Entitled, Watch!Sighted
    <3>3. kind = "blocked" => n <= cursor'.stints
      BY <1>1, <2>5 DEF Entitled
    <3>4. kind \in {"recovered", "done"} => ~cursor'.missing
      BY <2>5 DEF Entitled
    <3>5. kind = "done" => n <= cursor'.comp
      BY <1>1, <2>5 DEF Entitled
    <3> QED BY <1>1, <2>2, <2>5, <2>6, <3>1, <3>2, <3>3, <3>4, <3>5 DEF KeySound
  <2>8. KeysSound'
    <3>1. ASSUME NEW e \in events'
          PROVE  KeySound(e.key[1], e.key[2], e.key[3], e.key[4])'
      <4>1. CASE e \in events
        BY <2>4, <4>1
      <4>2. CASE e.key = <<g, ep, kind, n>>
        <5>1. e.key[1] = g /\ e.key[2] = ep /\ e.key[3] = kind /\ e.key[4] = n
          BY <4>2
        <5> QED BY <2>7, <5>1
      <4> QED BY <2>1, <2>6, <4>1, <4>2
    <3> QED BY <3>1 DEF KeysSound
  <2>9. told' \in [total : Nat, blocked : BOOLEAN] /\ (known = {} => told'.total = v.total /\ told'.blocked = v.blocked)
    BY <1>1, <2>1 DEF Watch!Telling, RecordsSound
  <2>10. Watch!NoneSwallowed'
    <3>1. SUFFICES ASSUME ~blind' PROVE cursor'.total <= told'.total /\ (cursor'.blocked => told'.blocked)
      BY DEF Watch!NoneSwallowed
    <3>2. known = {}
      BY <1>2, <1>3, <3>1
    <3>3. cursor.total <= v.total
      BY DEF Before
    <3> QED BY <1>1, <2>5, <2>9, <3>2, <3>3
  <2>11. Watch!ReplacedForCause'
    BY <2>2 DEF Entitled, Watch!ReplacedForCause
  <2>12. RecordsSound'
    BY <2>2, <2>4, <2>9 DEF RecordsSound
  <2> QED BY <1>4, <2>2, <2>4, <2>8, <2>10, <2>11, <2>12 DEF CommitInv
<1> QED BY <1>5, <1>6

LEMMA BeforeTrans ==
  ASSUME NEW a, NEW b \in Listing, NEW c \in Listing, a \in Cursor \cup Listing, Before(a, b), Before(b, c)
  PROVE  Before(a, c)
<1>1. /\ a.comp \in Nat /\ a.total \in Nat /\ a.life \in Nat /\ b.comp \in Nat /\ b.total \in Nat /\ b.life \in Nat
      /\ c.comp \in Nat /\ c.total \in Nat /\ c.life \in Nat
  BY DEF Listing, Cursor
<1> QED BY <1>1 DEF Before

\* What a listing shows.
LEMMA ViewSound ==
  ASSUME agent \in Listing
  PROVE  /\ Watch!View \in Listing
         /\ Watch!View.session = agent.session /\ Watch!View.listed = agent.listed
         /\ Watch!View.comp = agent.comp /\ Watch!View.total = agent.total /\ Watch!View.life = agent.life
         /\ Watch!View.blocked = agent.blocked
         /\ Before(Watch!View, agent)
<1>1. agent.comp \in Nat /\ agent.total \in Nat /\ agent.life \in Nat
  BY DEF Listing
<1>2. /\ Watch!View \in Listing
      /\ Watch!View.session = agent.session /\ Watch!View.listed = agent.listed
      /\ Watch!View.comp = agent.comp /\ Watch!View.total = agent.total /\ Watch!View.life = agent.life
      /\ Watch!View.blocked = agent.blocked
  BY DEF Watch!View, Listing
<1> QED BY <1>1, <1>2 DEF Before

\* The binding and its history as they were, whatever awaits a listing.
LEMMA CommitAtRest ==
  ASSUME CommitInv, UNCHANGED <<att, cursor, events, told, blind, clash>>, replaced => replaced'
  PROVE  CommitInv'
<1>1. ASSUME NEW g, NEW ep, NEW k, NEW m, KeySound(g, ep, k, m)
      PROVE  KeySound(g, ep, k, m)'
  BY <1>1 DEF KeySound, Watch!Sighted
<1>2. KeysSound'
  BY <1>1 DEF CommitInv, KeysSound
<1>3. Watch!FreshKeys' /\ Watch!NoneSwallowed' /\ Watch!ReplacedForCause' /\ RecordsSound'
  BY DEF CommitInv, RecordsSound, Watch!FreshKeys, Watch!NoneSwallowed, Watch!ReplacedForCause
<1> QED BY <1>2, <1>3 DEF CommitInv

LEMMA ListingKeeps ==
  ASSUME WatchInv, \/ Watch!Observe \/ Watch!Unreachable \/ Watch!AskToBind \/ Watch!BindFails
                   \/ Watch!PauseOrResume \/ Watch!Crash
  PROVE  WatchInv'
<1>1. UNCHANGED <<agent, att, cursor, events, told, replaced, blind, clash>>
  BY DEF Watch!Observe, Watch!Unreachable, Watch!AskToBind, Watch!BindFails, Watch!PauseOrResume, Watch!Crash
<1>2. CommitInv'
  BY <1>1, CommitAtRest DEF WatchInv
<1>3. /\ agent \in Listing /\ Before(cursor, agent) /\ cursor \in Cursor /\ att.gen \in Nat
      /\ agent.session # att.dest => replaced
  BY DEF WatchInv, CommitInv, ListingsSound, RecordsSound
<1>4. Watch!View \in Listing /\ Before(Watch!View, agent) /\ Before(cursor, Watch!View) /\ Watch!View.session = agent.session
  BY <1>3, ViewSound DEF Before
<1>5. ListingsSound'
  <2>1. CASE pass' \in {pass, None} /\ bind' \in {bind, None}
    BY <1>1, <2>1 DEF WatchInv, ListingsSound, Before
  <2>2. CASE Watch!Observe
    <3>1. pass' = [gen |-> att.gen, seen |-> Watch!View] /\ bind' = bind
      BY <2>2 DEF Watch!Observe
    <3>2. pass'.gen = att.gen /\ pass'.seen = Watch!View
      BY <3>1
    <3> QED BY <1>1, <1>3, <1>4, <3>1, <3>2 DEF WatchInv, ListingsSound, Before
  <2>3. CASE Watch!AskToBind
    <3>1. bind' = [row |-> att, seen |-> Watch!View] /\ pass' = pass
      BY <2>3 DEF Watch!AskToBind
    <3>2. bind'.seen = Watch!View
      BY <3>1
    <3> QED BY <1>1, <1>3, <1>4, <3>1, <3>2 DEF WatchInv, ListingsSound, Before
  <2> QED BY <2>1, <2>2, <2>3 DEF Watch!Unreachable, Watch!BindFails, Watch!PauseOrResume, Watch!Crash
<1> QED BY <1>2, <1>5 DEF WatchInv

\* A listing is reconciled with the cursor it is not older than.
LEMMA ReconcileSound ==
  ASSUME CommitInv, Watch!Sighted, NEW v \in Listing, Before(cursor, v), v.session # att.dest => replaced,
         Watch!Reconcile(v), UNCHANGED replaced
  PROVE  /\ CommitInv' /\ att'.gen = att.gen /\ att'.dest = att.dest
         /\ Before(cursor', v) \/ cursor' = cursor
<1>1. /\ att.health \in {"attached", "missing"} /\ {"attached", "missing", "identity_changed"} \subseteq Health
  BY DEF Watch!Sighted, Health
<1>2. CASE ~v.listed /\ Watch!Vanished(v)
  <2> DEFINE w == [v EXCEPT !.blocked = FALSE]
  <2>1. w \in Listing /\ w.listed = v.listed /\ w.blocked = FALSE /\ w.comp = v.comp /\ w.total = v.total /\ w.life = v.life
    BY DEF Listing
  <2>2. Watch!Tell(w, "missing", cursor.seq, "missing", cursor.stints)
    BY <1>2 DEF Watch!Reconcile
  <2> HIDE DEF w
  <2>3. Before(cursor, w) /\ (Before(cursor', w) => Before(cursor', v))
    BY <2>1 DEF Before
  <2>4. Entitled(w, "missing", cursor.seq, "missing", cursor.stints)
    BY <1>2, <2>1 DEF Entitled, Watch!Vanished
  <2> QED BY <1>1, <2>1, <2>2, <2>3, <2>4, TellKeeps
<1>3. CASE ~v.listed /\ ~Watch!Vanished(v)
  BY <1>3, NoteKeeps DEF Watch!Reconcile
<1>4. CASE v.listed /\ v.session # att.dest
  <2>1. Watch!Tell(v, "identity", v.session, "identity_changed", cursor.stints)
    BY <1>4 DEF Watch!Reconcile
  <2>2. Entitled(v, "identity", v.session, "identity_changed", cursor.stints)
    BY <1>4 DEF Entitled
  <2> QED BY <1>1, <2>1, <2>2, TellKeeps
<1>5. CASE v.listed /\ v.session = att.dest /\ cursor.missing
  <2>1. Watch!Tell(v, "recovered", v.seq, "attached", cursor.stints)
    BY <1>5 DEF Watch!Reconcile
  <2>2. Entitled(v, "recovered", v.seq, "attached", cursor.stints)
    BY <1>5 DEF Entitled
  <2> QED BY <1>1, <2>1, <2>2, TellKeeps
<1>6. CASE v.listed /\ v.session = att.dest /\ ~cursor.missing /\ Watch!Reset(v)
  <2>1. Watch!Tell(v, "cursor-reset", v.seq, att.health, cursor.stints)
    BY <1>6 DEF Watch!Reconcile
  <2>2. Entitled(v, "cursor-reset", v.seq, att.health, cursor.stints)
    BY <1>1, <1>6 DEF Entitled
  <2> QED BY <1>1, <2>1, <2>2, TellKeeps
<1>7. CASE v.listed /\ v.session = att.dest /\ ~cursor.missing /\ ~Watch!Reset(v) /\ Watch!Completes(v)
  <2>1. Watch!Tell(v, "done", v.comp, att.health, cursor.stints)
    BY <1>7 DEF Watch!Reconcile
  <2>2. cursor.comp < v.comp
    <3>1. cursor.comp \in Nat /\ v.comp \in Nat
      BY DEF CommitInv, RecordsSound, Cursor, Listing
    <3> QED BY <1>7, <3>1 DEF Watch!Completes
  <2>3. Entitled(v, "done", v.comp, att.health, cursor.stints)
    BY <1>1, <1>7, <2>2 DEF Entitled
  <2> QED BY <1>1, <2>1, <2>3, TellKeeps
<1>8. CASE /\ v.listed /\ v.session = att.dest /\ ~cursor.missing /\ ~Watch!Reset(v)
           /\ ~Watch!Completes(v) /\ Watch!Blocks(v)
  <2>1. Watch!Tell(v, "blocked", cursor.stints + 1, att.health, cursor.stints + 1)
    BY <1>8 DEF Watch!Reconcile, Watch!Stint
  <2>2. Entitled(v, "blocked", cursor.stints + 1, att.health, cursor.stints + 1)
    BY <1>1, <1>8 DEF Entitled
  <2> QED BY <1>1, <2>1, <2>2, TellKeeps
<1>9. CASE /\ v.listed /\ v.session = att.dest /\ ~cursor.missing /\ ~Watch!Reset(v)
           /\ ~Watch!Completes(v) /\ ~Watch!Blocks(v)
  BY <1>9, NoteKeeps DEF Watch!Reconcile
<1> QED BY <1>2, <1>3, <1>4, <1>5, <1>6, <1>7, <1>8, <1>9

LEMMA ObservedKeeps ==
  ASSUME WatchInv, Watch!Observed PROVE WatchInv'
<1>1. /\ CommitInv /\ ListingsSound /\ pass # None /\ pass' = None
      /\ UNCHANGED <<watched, sequenced, agent, bind, replaced, troubles>>
      /\ agent \in Listing /\ cursor \in Cursor /\ pass.seen \in Listing
      /\ Before(cursor, agent) /\ Before(pass.seen, agent)
  BY DEF WatchInv, Watch!Observed, ListingsSound, CommitInv, RecordsSound
<1>2. CommitInv' /\ att'.gen = att.gen /\ att'.dest = att.dest /\ Before(cursor', agent)
  <2>1. CASE Watch!Current
    <3>1. Watch!Reconcile(pass.seen) /\ Watch!Sighted /\ pass.gen = att.gen
      BY <2>1 DEF Watch!Observed, Watch!Current
    <3>2. Before(cursor, pass.seen) /\ (pass.seen.session # att.dest => replaced)
      BY <1>1, <3>1 DEF ListingsSound
    <3>3. /\ CommitInv' /\ att'.gen = att.gen /\ att'.dest = att.dest
          /\ Before(cursor', pass.seen) \/ cursor' = cursor
      BY <1>1, <3>1, <3>2, ReconcileSound
    <3>4. cursor' \in Cursor
      BY <3>3 DEF CommitInv, RecordsSound
    <3>5. Before(cursor', agent)
      BY <1>1, <3>3, <3>4, BeforeTrans
    <3> QED BY <3>3, <3>5
  <2>2. CASE ~Watch!Current
    <3>1. UNCHANGED <<att, cursor, events, told, blind, clash>>
      BY <2>2 DEF Watch!Observed
    <3> QED BY <1>1, <3>1, CommitAtRest DEF Before
  <2> QED BY <2>1, <2>2
<1>3. ListingsSound'
  BY <1>1, <1>2 DEF ListingsSound, Before
<1> QED BY <1>2, <1>3 DEF WatchInv

LEMMA ReattachStarts ==
  ASSUME WatchInv, Watch!Reattach PROVE WatchInv'
<1> DEFINE v == bind.seen
<1>1. /\ bind # None /\ bind' = None
      /\ att' = [gen |-> att.gen + 1, dest |-> v.session, health |-> "attached"]
      /\ cursor' = Watch!CursorFromAgent(v) /\ told' = Watch!Telling(v)
      /\ replaced' = (agent.session # v.session) /\ blind' = FALSE /\ clash' = FALSE
      /\ UNCHANGED <<agent, pass, events>>
  BY DEF Watch!Reattach
<1>2. /\ v \in Listing /\ Before(v, agent) /\ agent \in Listing /\ att.gen \in Nat
      /\ \A e \in events : KeySound(e.key[1], e.key[2], e.key[3], e.key[4])
  BY <1>1 DEF WatchInv, ListingsSound, CommitInv, RecordsSound, KeysSound
<1>3. /\ cursor' \in Cursor /\ cursor'.comp = v.comp /\ cursor'.total = v.total /\ cursor'.life = v.life
      /\ cursor'.blocked = v.blocked
  <2>1. Watch!CursorFromAgent(v) \in Cursor
    BY <1>2 DEF Watch!CursorFromAgent, Cursor, Listing
  <2> QED BY <1>1, <2>1 DEF Watch!CursorFromAgent
<1>4. /\ att' \in [gen : Nat, dest : Sessions, health : Health] /\ att'.gen = att.gen + 1 /\ att'.dest = v.session
      /\ att'.health = "attached"
  BY <1>1, <1>2 DEF Listing, Health
<1>5. told' \in [total : Nat, blocked : BOOLEAN] /\ told'.total = v.total /\ told'.blocked = v.blocked
  BY <1>1, <1>2 DEF Watch!Telling, Listing
<1>6. KeysSound'
  <2>1. ASSUME NEW g, NEW ep, NEW k, NEW m, KeySound(g, ep, k, m)
        PROVE  KeySound(g, ep, k, m)'
    <3>1. g \in Nat /\ ep \in Nat /\ g <= att.gen /\ (k \in {"done", "blocked"} => m \in Nat)
      BY <2>1 DEF KeySound
    <3>2. g <= att'.gen /\ g # att'.gen
      BY <1>2, <1>4, <3>1
    <3> QED BY <3>1, <3>2 DEF KeySound
  <2> QED BY <1>1, <1>2, <2>1 DEF KeysSound
<1>7. CommitInv'
  <2>1. v.total \in Nat
    BY <1>2 DEF Listing
  <2>2. Watch!FreshKeys' /\ Watch!NoneSwallowed' /\ Watch!ReplacedForCause'
    BY <1>1, <1>3, <1>4, <1>5, <2>1 DEF Watch!FreshKeys, Watch!NoneSwallowed, Watch!ReplacedForCause
  <2> QED BY <1>3, <1>4, <1>5, <1>6, <2>2 DEF CommitInv, RecordsSound
<1>8. ListingsSound'
  <2>1. Before(cursor', agent)
    BY <1>2, <1>3 DEF Before
  <2>2. agent.session # att'.dest => replaced'
    BY <1>1, <1>4
  <2>3. ASSUME pass # None
        PROVE  /\ pass.gen \in Nat /\ pass.gen <= att'.gen /\ pass.gen # att'.gen
               /\ pass.seen \in Listing /\ Before(pass.seen, agent)
    BY <1>2, <1>4, <2>3 DEF WatchInv, ListingsSound
  <2>4. agent \in Listing /\ agent.seq \in Nat
    BY DEF WatchInv, ListingsSound
  <2> QED BY <1>1, <2>1, <2>2, <2>3, <2>4 DEF ListingsSound, Before
<1> QED BY <1>7, <1>8 DEF WatchInv

LEMMA DetachLeaves ==
  ASSUME WatchInv, Watch!Detach PROVE WatchInv'
<1>1. /\ att' = [att EXCEPT !.health = "detached"]
      /\ UNCHANGED <<watched, sequenced, agent, cursor, pass, bind, events, told, replaced, blind, clash>>
      /\ att \in [gen : Nat, dest : Sessions, health : Health]
  BY DEF WatchInv, CommitInv, RecordsSound, Watch!Detach
<1>2. /\ att' \in [gen : Nat, dest : Sessions, health : Health] /\ att'.gen = att.gen /\ att'.dest = att.dest
      /\ att'.health = "detached"
  BY <1>1 DEF Health
<1>3. KeysSound'
  <2>1. ASSUME NEW g, NEW ep, NEW k, NEW m, KeySound(g, ep, k, m)
        PROVE  KeySound(g, ep, k, m)'
    BY <1>1, <1>2, <2>1 DEF KeySound, Watch!Sighted
  <2> QED BY <1>1, <2>1 DEF WatchInv, CommitInv, KeysSound
<1>4. CommitInv'
  BY <1>1, <1>2, <1>3 DEF WatchInv, CommitInv, RecordsSound, Watch!FreshKeys, Watch!NoneSwallowed, Watch!ReplacedForCause
<1>5. ListingsSound'
  BY <1>1, <1>2 DEF WatchInv, ListingsSound, Before
<1> QED BY <1>4, <1>5 DEF WatchInv

\* The agent goes on; what was seen of it is older.
LEMMA AgentMoves ==
  ASSUME WatchInv, UNCHANGED <<att, cursor, pass, bind, events, told, blind, clash>>,
         agent' \in Listing, agent'.seq \in Nat, Before(agent, agent'),
         replaced => replaced', agent'.session # att.dest => replaced'
  PROVE  WatchInv'
<1>1. CommitInv'
  BY CommitAtRest DEF WatchInv
<1>2. /\ agent \in Listing /\ cursor \in Cursor /\ Before(cursor, agent)
      /\ bind # None => bind.seen \in Listing /\ Before(bind.seen, agent)
      /\ pass # None => /\ pass.gen \in Nat /\ pass.gen <= att.gen
                        /\ pass.seen \in Listing /\ Before(pass.seen, agent)
                        /\ pass.gen = att.gen => /\ Before(cursor, pass.seen)
                                                 /\ pass.seen.session # att.dest => replaced
  BY DEF WatchInv, CommitInv, RecordsSound, ListingsSound
<1>3. Before(cursor, agent')
  BY <1>2, BeforeTrans
<1>4. bind # None => Before(bind.seen, agent')
  BY <1>2, BeforeTrans
<1>5. pass # None => Before(pass.seen, agent')
  BY <1>2, BeforeTrans
<1>6. ListingsSound'
  BY <1>2, <1>3, <1>4, <1>5 DEF ListingsSound, Before
<1> QED BY <1>1, <1>6 DEF WatchInv

LEMMA AgentKeeps ==
  ASSUME WatchInv, Watch!Work \/ Watch!Restart \/ Watch!Replace \/ Watch!ComeAndGo PROVE WatchInv'
<1>1. /\ agent \in Listing /\ agent.seq \in Nat /\ agent.comp \in Nat /\ agent.total \in Nat /\ agent.life \in Nat
      /\ agent.session # att.dest => replaced
  BY DEF WatchInv, ListingsSound, Listing
<1>2. UNCHANGED <<watched, sequenced, att, cursor, pass, bind, events, told, blind, clash>>
  <2>1. ASSUME NEW new, Watch!Changes(new)
        PROVE  UNCHANGED <<watched, sequenced, att, cursor, pass, bind, events, told, blind, clash>>
    BY <2>1 DEF Watch!Changes
  <2>2. CASE Watch!Work
    BY <2>1, <2>2, Zenon DEF Watch!Work
  <2>3. CASE Watch!Restart
    BY <2>1, <2>3, Zenon DEF Watch!Restart
  <2>4. CASE Watch!Replace
    BY <2>1, <2>4, Zenon DEF Watch!Replace
  <2>5. CASE Watch!ComeAndGo
    BY <2>1, <2>5, Zenon DEF Watch!ComeAndGo
  <2> QED BY <2>2, <2>3, <2>4, <2>5
<1>3. CASE Watch!Work
  <2>1. PICK done \in {0, 1}, blocked \in BOOLEAN :
          agent' = [agent EXCEPT !.seq = @ + 1, !.comp = @ + done, !.total = @ + done, !.blocked = blocked]
    BY <1>3, Zenon DEF Watch!Work, Watch!Changes
  <2> DEFINE one == [agent EXCEPT !.seq = agent.seq + 1]
             two == [one EXCEPT !.comp = agent.comp + done]
             three == [two EXCEPT !.total = agent.total + done]
             four == [three EXCEPT !.blocked = blocked]
  <2>2. /\ one \in Listing /\ one.seq = agent.seq + 1 /\ one.comp = agent.comp /\ one.total = agent.total
        /\ one.life = agent.life /\ one.session = agent.session
    BY <1>1 DEF Listing
  <2>3. /\ two \in Listing /\ two.seq = agent.seq + 1 /\ two.comp = agent.comp + done /\ two.total = agent.total
        /\ two.life = agent.life /\ two.session = agent.session
    <3> HIDE DEF one
    <3> QED BY <1>1, <2>2 DEF Listing
  <2>4. /\ three \in Listing /\ three.seq = agent.seq + 1 /\ three.comp = agent.comp + done
        /\ three.total = agent.total + done /\ three.life = agent.life /\ three.session = agent.session
    <3> HIDE DEF two
    <3> QED BY <1>1, <2>3 DEF Listing
  <2>5. /\ four \in Listing /\ four.seq = agent.seq + 1 /\ four.comp = agent.comp + done
        /\ four.total = agent.total + done /\ four.life = agent.life /\ four.session = agent.session
    <3> HIDE DEF three
    <3> QED BY <1>1, <2>4 DEF Listing
  <2>6. agent' = four
    BY <1>1, <2>1 DEF Listing
  <2> HIDE DEF four
  <2>7. Before(agent, agent') /\ agent'.seq \in Nat /\ agent' \in Listing /\ agent'.session = agent.session
    BY <1>1, <2>5, <2>6 DEF Before
  <2>8. replaced' = replaced
    BY <1>3, Zenon DEF Watch!Work
  <2> QED BY <1>1, <1>2, <2>7, <2>8, AgentMoves
<1>4. CASE Watch!Restart
  <2>1. agent' = [agent EXCEPT !.seq = 0, !.comp = 0, !.life = @ + 1] /\ replaced' = replaced
    BY <1>4 DEF Watch!Restart, Watch!Changes
  <2> DEFINE one == [agent EXCEPT !.seq = 0]
             two == [one EXCEPT !.comp = 0]
             three == [two EXCEPT !.life = agent.life + 1]
  <2>2. /\ one \in Listing /\ one.seq = 0 /\ one.total = agent.total
        /\ one.life = agent.life /\ one.session = agent.session
    BY <1>1 DEF Listing
  <2>3. /\ two \in Listing /\ two.seq = 0 /\ two.total = agent.total
        /\ two.life = agent.life /\ two.session = agent.session
    <3> HIDE DEF one
    <3> QED BY <1>1, <2>2 DEF Listing
  <2>4. /\ three \in Listing /\ three.seq = 0 /\ three.total = agent.total
        /\ three.life = agent.life + 1 /\ three.session = agent.session
    <3> HIDE DEF two
    <3> QED BY <1>1, <2>3 DEF Listing
  <2>5. agent' = three
    BY <1>1, <2>1 DEF Listing
  <2> HIDE DEF three
  <2>6. Before(agent, agent') /\ agent'.seq \in Nat /\ agent' \in Listing /\ agent'.session = agent.session
    BY <1>1, <2>4, <2>5 DEF Before
  <2> QED BY <1>1, <1>2, <2>1, <2>6, AgentMoves
<1>5. CASE Watch!Replace
  <2>1. PICK s \in Sessions : /\ agent' = [agent EXCEPT !.session = s]
                              /\ replaced' = (replaced \/ s # att.dest)
    BY <1>5 DEF Watch!Replace, Watch!Changes
  <2>2. /\ agent' \in Listing /\ agent'.seq = agent.seq /\ agent'.comp = agent.comp /\ agent'.total = agent.total
        /\ agent'.life = agent.life /\ agent'.session = s
    BY <1>1, <2>1 DEF Listing
  <2>3. Before(agent, agent') /\ agent'.seq \in Nat
    BY <1>1, <2>2 DEF Before
  <2>4. (replaced => replaced') /\ (agent'.session # att.dest => replaced')
    BY <2>1, <2>2
  <2> QED BY <1>2, <2>2, <2>3, <2>4, AgentMoves
<1>6. CASE Watch!ComeAndGo
  <2>1. agent' = [agent EXCEPT !.listed = ~@] /\ replaced' = replaced
    BY <1>6 DEF Watch!ComeAndGo, Watch!Changes
  <2>2. (~agent.listed) \in BOOLEAN
    BY Zenon
  <2>3. /\ agent' \in Listing /\ agent'.seq = agent.seq /\ agent'.comp = agent.comp /\ agent'.total = agent.total
        /\ agent'.life = agent.life /\ agent'.session = agent.session
    BY <1>1, <2>1, <2>2 DEF Listing
  <2>4. Before(agent, agent') /\ agent'.seq \in Nat
    BY <1>1, <2>3 DEF Before
  <2> QED BY <1>1, <1>2, <2>1, <2>3, <2>4, AgentMoves
<1> QED BY <1>3, <1>4, <1>5, <1>6

LEMMA WatchInit ==
  ASSUME Sessions # {}, Watch!Init PROVE WatchInv
<1>1. PICK s \in Sessions :
        /\ agent = [session |-> s, listed |-> TRUE, seq |-> 1, comp |-> 0, blocked |-> FALSE, total |-> 0, life |-> 0]
        /\ att = [gen |-> 1, dest |-> s, health |-> "attached"]
        /\ cursor = Watch!CursorFromAgent(Watch!View) /\ told = Watch!Telling(Watch!View)
        /\ pass = None /\ bind = None /\ events = {} /\ ~blind /\ ~clash
  <2>1. (CHOOSE session \in Sessions : TRUE) \in Sessions
    OBVIOUS
  <2> QED BY <2>1 DEF Watch!Init
<1>2. agent \in Listing /\ agent.seq = 1 /\ agent.comp = 0 /\ agent.total = 0 /\ agent.life = 0 /\ agent.session = s
  BY <1>1 DEF Listing
<1>3. /\ Watch!View \in Listing /\ Watch!View.comp = 0 /\ Watch!View.total = 0 /\ Watch!View.life = 0
      /\ Watch!View.blocked = agent.blocked
  BY <1>2, ViewSound
<1>4. /\ cursor \in Cursor /\ cursor.comp = 0 /\ cursor.total = 0 /\ cursor.life = 0
      /\ cursor.blocked = Watch!View.blocked
  BY <1>1, <1>3 DEF Watch!CursorFromAgent, Cursor, Listing
<1>5. told \in [total : Nat, blocked : BOOLEAN] /\ told.total = 0 /\ told.blocked = Watch!View.blocked
  BY <1>1, <1>3 DEF Watch!Telling, Listing
<1>6. att \in [gen : Nat, dest : Sessions, health : Health] /\ att.dest = s /\ att.health = "attached"
  BY <1>1 DEF Health
<1>7. Before(cursor, agent)
  BY <1>2, <1>4 DEF Before
<1>8. KeysSound
  BY <1>1 DEF KeysSound
<1>9. Watch!FreshKeys /\ Watch!NoneSwallowed /\ Watch!ReplacedForCause
  BY <1>1, <1>4, <1>5, <1>6 DEF Watch!FreshKeys, Watch!NoneSwallowed, Watch!ReplacedForCause
<1> QED BY <1>1, <1>2, <1>4, <1>5, <1>6, <1>7, <1>8, <1>9 DEF WatchInv, CommitInv, RecordsSound, ListingsSound

LEMMA WatchNext ==
  ASSUME WatchInv, [Watch!Next]_(Watch!vars) PROVE WatchInv'
<1>1. CASE UNCHANGED Watch!vars
  <2>1. UNCHANGED <<agent, att, cursor, pass, bind, events, told, replaced, blind, clash>>
    BY <1>1 DEF Watch!vars
  <2>2. CommitInv'
    BY <2>1, CommitAtRest DEF WatchInv
  <2>3. ListingsSound'
    BY <2>1 DEF WatchInv, ListingsSound, Before
  <2> QED BY <2>2, <2>3 DEF WatchInv
<1>2. CASE Watch!Next
  BY <1>2, ListingKeeps, ObservedKeeps, ReattachStarts, DetachLeaves, AgentKeeps DEF Watch!Next
<1> QED BY <1>1, <1>2

\* The keys on record, the cursor and every listing in flight are in the order of what
\* they know of the agent: the strengthening of the observer's claims.
THEOREM WatchInvariant == Sessions # {} => (Watch!Spec => []WatchInv)
<1> SUFFICES ASSUME Sessions # {} PROVE Watch!Spec => []WatchInv
  OBVIOUS
<1> QED BY WatchInit, WatchNext, PTL DEF Watch!Spec

\* A development has a key of its own, none is swallowed, and a binding is declared
\* replaced for cause (Observation, ObservationInv).
THEOREM ObservationHolds ==
  /\ Sessions # {} => (Watch!Spec => []Watch!ObservationInv)
  /\ OutboundSpec => []ObservationInv
<1>1. WatchInv => Watch!ObservationInv
  BY DEF WatchInv, CommitInv, Watch!ObservationInv
<1>2. Sessions # {} => (Watch!Spec => []Watch!ObservationInv)
  BY <1>1, WatchInvariant, PTL
<1>3. Sessions # {}
  BY SendAssumption DEF Sends!SendsAssumption
<1>4. OutboundSpec => []Watch!ObservationInv
  BY <1>2, <1>3, Apart, PTL
<1> QED BY <1>2, <1>4 DEF ObservationInv
=============================================================================
