----------------------------- MODULE LaneProofs -----------------------------
(***************************************************************************)
(* What holds of a lane for every set of inputs, triggers, seeds and jobs, *)
(* every number of stops and fallback models, whatever the history.        *)
(*                                                                         *)
(* LaneInv is the inductive invariant.  The proof that a step keeps it is  *)
(* made in two stages: Moves sorts the actions by what they do to the      *)
(* places where an input can be (an ended turn, a turn that is joined, one *)
(* that begins, ...), and each conjunct is then shown kept by each sort.   *)
(***************************************************************************)
EXTENDS Lane, TLAPS, SequenceTheorems, WellFoundedInduction

-----------------------------------------------------------------------------
(* Finite sets of numbers have a least and a greatest element. *)

LEMMA LeastExists ==
  ASSUME NEW S \in SUBSET Nat, S # {}
  PROVE  \E x \in S : \A y \in S : x <= y
<1>1. ASSUME NEW x \in Nat, NEW y \in Nat, x < y
      PROVE  <<x, y>> \in OpToRel(<, Nat)
  BY <1>1, Zenon DEF OpToRel
<1> DEFINE R == OpToRel(<, Nat)
<1>2. IsWellFoundedOn(R, Nat)
  BY NatLessThanWellFounded
<1>3. \A x, y \in Nat : x < y => <<x, y>> \in R
  BY <1>1
<1> HIDE DEF R
<1>4. PICK x \in S : \A y \in S : ~ (<<y, x>> \in R)
  BY <1>2, WFMin
<1>5. ASSUME NEW y \in S PROVE x <= y
  <2>1. x \in Nat /\ y \in Nat /\ ~ (y < x)
    BY <1>3, <1>4
  <2> QED BY <2>1
<1> QED BY <1>5

LEMMA MinOfIn ==
  ASSUME NEW S \in SUBSET Nat, S # {}
  PROVE  MinOf(S) \in S /\ \A y \in S : MinOf(S) <= y
  BY LeastExists DEF MinOf

LEMMA MaxOfIn ==
  ASSUME NEW n \in Nat, NEW S \in SUBSET (0..n)
  PROVE  /\ MaxOf(S) \in 0..n
         /\ S # {} => MaxOf(S) \in S
         /\ \A y \in S : y <= MaxOf(S)
<1>1. CASE S = {}
  BY <1>1 DEF MaxOf
<1>2. CASE S # {}
  <2> DEFINE T == {n - x : x \in S}
  <2>1. T \in SUBSET Nat /\ T # {}
    <3>1. \A x \in S : n - x \in Nat
      OBVIOUS
    <3>2. PICK x \in S : TRUE
      BY <1>2
    <3>3. n - x \in T
      OBVIOUS
    <3> QED BY <3>1, <3>3
  <2>2. PICK t \in T : \A u \in T : t <= u
    BY <2>1, LeastExists
  <2>3. PICK x \in S : t = n - x
    OBVIOUS
  <2>4. \A y \in S : y <= x
    <3> SUFFICES ASSUME NEW y \in S PROVE y <= x
      OBVIOUS
    <3>1. n - y \in T
      OBVIOUS
    <3>2. n - x <= n - y
      BY <2>2, <2>3, <3>1
    <3>3. x \in 0..n /\ y \in 0..n
      OBVIOUS
    <3> QED BY <3>2, <3>3
  <2>5. \E m \in S : \A y \in S : y <= m
    BY <2>4
  <2>6. MaxOf(S) = CHOOSE m \in S : \A y \in S : y <= m
    BY <1>2 DEF MaxOf
  <2>7. MaxOf(S) \in S /\ \A y \in S : y <= MaxOf(S)
    BY <2>5, <2>6
  <2> QED BY <1>2, <2>7
<1> QED BY <1>1, <1>2

-----------------------------------------------------------------------------
(* Sequences as the sets they hold. *)

Distinct(s) == \A j, k \in DOMAIN s : s[j] = s[k] => j = k

LEMMA EmptyHolds == In(<<>>) = {} /\ Distinct(<<>>)
  BY DEF In, Distinct

LEMMA AppendHolds ==
  ASSUME NEW S, NEW s \in Seq(S), NEW x \in S
  PROVE  /\ Append(s, x) \in Seq(S) /\ Append(s, x) # <<>>
         /\ In(Append(s, x)) = In(s) \cup {x}
         /\ Distinct(s) /\ x \notin In(s) => Distinct(Append(s, x))
<1> DEFINE t == Append(s, x)
<1>1. t \in Seq(S) /\ Len(t) = Len(s) + 1 /\ t[Len(s) + 1] = x
      /\ \A k \in 1..Len(s) : t[k] = s[k]
  BY AppendProperties
<1>2. DOMAIN s = 1..Len(s) /\ DOMAIN t = 1..(Len(s) + 1) /\ Len(s) \in Nat
  BY <1>1, LenProperties
<1>3. In(t) = In(s) \cup {x}
  BY <1>1, <1>2 DEF In
<1>4. Distinct(s) /\ x \notin In(s) => Distinct(t)
  BY <1>1, <1>2 DEF In, Distinct
<1> QED BY <1>1, <1>3, <1>4

LEMMA ConcatHolds ==
  ASSUME NEW S, NEW s \in Seq(S), NEW t \in Seq(S)
  PROVE  /\ s \o t \in Seq(S)
         /\ In(s \o t) = In(s) \cup In(t)
         /\ Distinct(s) /\ Distinct(t) /\ In(s) \cap In(t) = {} => Distinct(s \o t)
<1> DEFINE u == s \o t
<1>1. u \in Seq(S) /\ Len(u) = Len(s) + Len(t)
      /\ \A k \in 1..Len(u) : u[k] = IF k <= Len(s) THEN s[k] ELSE t[k - Len(s)]
  BY ConcatProperties
<1>2. DOMAIN s = 1..Len(s) /\ DOMAIN t = 1..Len(t) /\ DOMAIN u = 1..Len(u)
      /\ Len(s) \in Nat /\ Len(t) \in Nat
  BY <1>1, LenProperties
<1>3. In(u) = In(s) \cup In(t)
  <2>1. ASSUME NEW x \in In(u) PROVE x \in In(s) \cup In(t)
    BY <1>1, <1>2 DEF In
  <2>2. ASSUME NEW x \in In(s) PROVE x \in In(u)
    BY <1>1, <1>2 DEF In
  <2>3. ASSUME NEW k \in 1..Len(t) PROVE t[k] \in In(u)
    <3>1. k + Len(s) \in 1..Len(u) /\ u[k + Len(s)] = t[k]
      BY <1>1, <1>2
    <3> QED BY <3>1, <1>2 DEF In
  <2> QED BY <2>1, <2>2, <2>3, <1>2 DEF In
<1>4. Distinct(s) /\ Distinct(t) /\ In(s) \cap In(t) = {} => Distinct(u)
  <2> SUFFICES ASSUME Distinct(s), Distinct(t), In(s) \cap In(t) = {},
                      NEW j \in 1..Len(u), NEW k \in 1..Len(u), u[j] = u[k], j <= k
               PROVE  j = k
    BY <1>2 DEF Distinct
  <2>1. CASE k <= Len(s)
    BY <2>1, <1>1, <1>2 DEF Distinct
  <2>2. CASE j > Len(s)
    <3>1. j - Len(s) \in 1..Len(t) /\ k - Len(s) \in 1..Len(t)
      BY <2>2, <1>1, <1>2
    <3>2. t[j - Len(s)] = t[k - Len(s)]
      BY <2>2, <1>1, <1>2
    <3>3. j - Len(s) = k - Len(s)
      BY <3>1, <3>2, <1>2 DEF Distinct
    <3> QED BY <3>3, <1>2
  <2>3. CASE j <= Len(s) /\ k > Len(s)
    <3>1. k - Len(s) \in 1..Len(t) /\ j \in 1..Len(s) /\ s[j] = t[k - Len(s)]
      BY <2>3, <1>1, <1>2
    <3>2. s[j] \in In(s) /\ s[j] \in In(t)
      BY <3>1, <1>2 DEF In
    <3> QED BY <3>2
  <2> QED BY <2>1, <2>2, <2>3, <1>2
<1> QED BY <1>1, <1>3, <1>4

LEMMA SplitHolds ==
  ASSUME NEW S, NEW s \in Seq(S), NEW n \in 0..Len(s)
  PROVE  /\ Take(s, n) \in Seq(S) /\ Drop(s, n) \in Seq(S)
         /\ Len(Take(s, n)) = n /\ Len(Drop(s, n)) = Len(s) - n
         /\ \A k \in 1..n : Take(s, n)[k] = s[k]
         /\ \A k \in 1..(Len(s) - n) : Drop(s, n)[k] = s[n + k]
         /\ In(s) = In(Take(s, n)) \cup In(Drop(s, n))
         /\ Distinct(s) => /\ Distinct(Take(s, n)) /\ Distinct(Drop(s, n))
                           /\ In(Take(s, n)) \cap In(Drop(s, n)) = {}
<1> DEFINE t == Take(s, n)
           d == Drop(s, n)
<1>1. DOMAIN s = 1..Len(s) /\ Len(s) \in Nat
  BY LenProperties
<1>2. t \in Seq(S) /\ Len(t) = n /\ \A k \in 1..n : t[k] = s[k]
  BY <1>1, SubSeqProperties DEF Take
<1>3. d \in Seq(S) /\ Len(d) = Len(s) - n /\ \A k \in 1..(Len(s) - n) : d[k] = s[n + k]
  <2>1. n + 1 \in Int /\ Len(s) \in Int /\ \A k \in (n + 1)..Len(s) : s[k] \in S
    BY <1>1, ElementOfSeq
  <2>2. d \in Seq(S) /\ Len(d) = (IF n + 1 <= Len(s) THEN Len(s) - (n + 1) + 1 ELSE 0)
        /\ \A k \in 1..(Len(s) - (n + 1) + 1) : d[k] = s[n + 1 + k - 1]
    BY <2>1, SubSeqProperties DEF Drop
  <2>3. ASSUME NEW k \in 1..(Len(s) - n) PROVE d[k] = s[n + k]
    <3>1. k \in 1..(Len(s) - (n + 1) + 1) /\ n + 1 + k - 1 = n + k
      BY <1>1
    <3> QED BY <2>2, <3>1
  <2>4. n \in Nat /\ n <= Len(s)
    BY <1>1
  <2>5. Len(d) = Len(s) - n
    BY ONLY <2>2, <2>4, n \in 0..Len(s), Len(s) \in Nat
  <2> QED BY <2>2, <2>3, <2>5
<1>4. DOMAIN t = 1..n /\ DOMAIN d = 1..(Len(s) - n)
  BY <1>2, <1>3, LenProperties
<1>5. In(s) = In(t) \cup In(d)
  <2>1. ASSUME NEW k \in 1..Len(s) PROVE s[k] \in In(t) \cup In(d)
    <3>1. CASE k <= n
      BY <3>1, <1>1, <1>2, <1>4 DEF In
    <3>2. CASE k > n
      <4>1. k - n \in 1..(Len(s) - n) /\ d[k - n] = s[k]
        BY <3>2, <1>1, <1>3
      <4> QED BY <4>1, <1>4 DEF In
    <3> QED BY <3>1, <3>2, <1>1
  <2>2. In(t) \subseteq In(s)
    BY <1>1, <1>2, <1>4 DEF In
  <2>3. In(d) \subseteq In(s)
    BY <1>1, <1>3, <1>4 DEF In
  <2> QED BY <2>1, <2>2, <2>3, <1>1 DEF In
<1>6. ASSUME Distinct(s)
      PROVE  Distinct(t) /\ Distinct(d) /\ In(t) \cap In(d) = {}
  <2>1. Distinct(t)
    BY <1>1, <1>2, <1>4, <1>6 DEF Distinct
  <2>2. Distinct(d)
    <3> SUFFICES ASSUME NEW j \in 1..(Len(s) - n), NEW k \in 1..(Len(s) - n), d[j] = d[k]
                 PROVE  j = k
      BY <1>4 DEF Distinct
    <3>1. n + j \in DOMAIN s /\ n + k \in DOMAIN s /\ s[n + j] = s[n + k]
      BY <1>1, <1>3
    <3>2. n + j = n + k
      BY <3>1, <1>6 DEF Distinct
    <3> QED BY <3>2
  <2>3. ASSUME NEW j \in 1..n, NEW k \in 1..(Len(s) - n), t[j] = d[k]
        PROVE  FALSE
    <3>1. j \in DOMAIN s /\ n + k \in DOMAIN s /\ s[j] = s[n + k]
      BY <2>3, <1>1, <1>2, <1>3
    <3>2. j = n + k
      BY <3>1, <1>6 DEF Distinct
    <3> QED BY <3>2
  <2> QED BY <2>1, <2>2, <2>3, <1>4 DEF In
<1> QED BY <1>2, <1>3, <1>5, <1>6

LEMMA TailHolds ==
  ASSUME NEW S, NEW s \in Seq(S), s # <<>>
  PROVE  /\ Head(s) \in S /\ Tail(s) \in Seq(S) /\ Head(s) = s[1] /\ 1 \in DOMAIN s
         /\ DOMAIN Tail(s) = 1..(Len(s) - 1) /\ DOMAIN s = 1..Len(s) /\ Len(s) \in Nat
         /\ \A k \in DOMAIN Tail(s) : k + 1 \in DOMAIN s /\ Tail(s)[k] = s[k + 1]
  BY HeadTailProperties, LenProperties, EmptySeq

LEMMA FunctionIsSeq ==
  ASSUME NEW S, NEW n \in Nat, NEW f \in [1..n -> S]
  PROVE  f \in Seq(S)
  BY SeqDef

LEMMA ClaimableHolds ==
  ASSUME NEW p \in Seq(Inputs), NEW head, NEW from \in {1, 2}
  PROVE  /\ Claimable(p, head, from) \in 0..Len(p)
         /\ from = 2 /\ p # <<>> => Claimable(p, head, from) >= 1
<1> DEFINE barrier == IF head \in Streaming THEN Seeds ELSE Seeds \cup Streaming
           B == {k \in from..Len(p) : p[k] \in barrier}
           Fits(n) == /\ \A k \in from..n : p[k] \notin barrier
                      /\ n < Len(p) => n + 1 >= from /\ p[n + 1] \in barrier
<1>0. Len(p) \in Nat /\ (p # <<>> => Len(p) >= 1)
  BY LenProperties, EmptySeq
<1>1. \E n \in 0..Len(p) : Fits(n)
  <2>1. CASE B = {}
    <3>1. Fits(Len(p))
      BY <2>1, <1>0
    <3> QED BY <3>1, <1>0
  <2>2. CASE B # {}
    <3>1. B \in SUBSET Nat
      BY <1>0
    <3>2. PICK b \in B : \A y \in B : b <= y
      BY <2>2, <3>1, LeastExists
    <3>3. b - 1 \in 0..Len(p) /\ Fits(b - 1)
      BY <3>2, <1>0
    <3> QED BY <3>3
  <2> QED BY <2>1, <2>2
<1>2. PICK m \in 0..Len(p) : m = Claimable(p, head, from) /\ Fits(m)
  BY <1>1 DEF Claimable
<1> QED BY <1>2, <1>0

-----------------------------------------------------------------------------
(* The inductive invariant. *)

\* The claimed steers, and those whose claimer still has authority.
Steers == {converting[k].input : k \in DOMAIN converting}
Current == {converting[k].input : k \in {c \in DOMAIN converting : converting[c].epoch = epoch}}

\* The attempt has members exactly while it runs or is folded in the middle.
InTurn == att.phase \in {"setup", "model"} \/ fold.why \in {"overflow", "preempt"}

\* What the attempt and the fold point at is in the history.
Bounds ==
    /\ att.seen \cup att.owned \cup fold.span \subseteq 1..Len(log)
    /\ {att.mark, att.floor, fold.cut} \subseteq 0..Len(log)
    /\ fold.cut # 0 => boundary < fold.cut

\* The phases of the drain loop: an idle lane has an empty queue.
Shape ==
    /\ att.phase = "idle" => pending = <<>>
    /\ InTurn <=> members # <<>>
    /\ Folding <=> fold.why # "none"
    /\ ~Folding => fold.cut = 0

\* An input is admitted while it is in exactly one of queue, conversions and members.
HeldOnce ==
    /\ Distinct(pending) /\ Distinct(members)
    /\ \A j, k \in DOMAIN converting : converting[j].input = converting[k].input => j = k
    /\ In(pending) \cap In(members) = {}
    /\ Steers \cap (In(pending) \cup In(members)) = {}
    /\ \A i \in Inputs : status[i] = "admitted" <=> i \in In(pending) \cup Steers \cup In(members)

\* Nothing has an authority that is still to come, and a steer that can still join was
\* claimed by the attempt that runs.
Epochs ==
    /\ att.epoch <= epoch
    /\ \A i \in Inputs : admitEpoch[i] <= epoch
    /\ \A k \in DOMAIN converting :
          /\ converting[k].epoch <= epoch
          /\ converting[k].epoch = epoch => att.phase = "model" /\ Authority

\* Every input but a new one has an event of its own.
StoredOnce ==
    /\ \A i \in Inputs : seq[i] = 0 <=> status[i] = "new"
    /\ \A i \in Inputs : status[i] = "stored" => i \in Late
    /\ \A i, j \in Inputs : seq[i] # 0 /\ seq[i] = seq[j] => i = j
    /\ \A i \in Inputs : seq[i] # 0 => log[seq[i]] = User
    /\ \A s \in DOMAIN log : log[s].anchor < s

\* What a stop found and is not settled yet has left the queue, and its claimer or its
\* turn has lost its authority.
StoppedStale ==
    \A i \in stopped :
        /\ status[i] = "admitted" /\ i \notin In(pending) \cup Current
        /\ i \in In(members) => ~Authority

\* A turn answers for inputs admitted under its authority or an earlier one.
UnderAuthority ==
    /\ \A i \in In(members) : admitEpoch[i] <= att.epoch
    /\ \A k \in DOMAIN converting : admitEpoch[converting[k].input] <= converting[k].epoch

\* The operator's messages stand in p in the order of the history.
Ordered(p, s) == \A j, k \in DOMAIN p : j < k /\ p[k] \notin Late => s[p[j]] < s[p[k]]

\* Members before steers that can still join before the queue, each in order.
InLine ==
    /\ Ordered(pending, seq)
    /\ \A j, k \in DOMAIN converting :
          j < k /\ converting[j].epoch = epoch /\ converting[k].epoch = epoch /\ converting[k].input \notin Late
              => seq[converting[j].input] < seq[converting[k].input]
    /\ \A i \in In(members), j \in (In(pending) \cup Current) \ Late : seq[i] < seq[j]
    /\ \A i \in Current, j \in In(pending) \ Late : seq[i] < seq[j]

\* The operator's messages whose answer is still to come.
Waiting == (In(pending) \cup Current \cup In(members)) \ Late

\* Neither the last fold nor the one in progress covers them; the floor of a turn is
\* below them all, so the ceiling of its folds is.
Spared ==
    /\ \A i \in Waiting : seq[i] > boundary /\ seq[i] > fold.cut
    /\ InTurn => att.floor # 0 /\ \A i \in Waiting : seq[i] >= att.floor

\* A user event that a fold covers was given to the summarizer.
Summarised ==
    \A i \in Inputs : seq[i] # 0 =>
        /\ seq[i] <= boundary => seq[i] \in summarised
        /\ seq[i] <= fold.cut => seq[i] <= boundary \/ seq[i] \in fold.span

\* What the reply of the running attempt will count as read: every member that is
\* still in the model view.
ReadAhead ==
    \A i \in In(members) :
        seq[i] > boundary => seq[i] \in att.seen \cup att.owned /\ seq[i] <= att.mark

-----------------------------------------------------------------------------
(* What claims and admissions do. *)

\* What the admission a of members m says of the history l and its seqs s, with p queued.
Admits(a, l, s, p, m) ==
    /\ a \in Attempt /\ a.phase = "setup"
    /\ a.seen \cup a.owned \subseteq 1..Len(l)
    /\ a.mark \in 0..Len(l) /\ a.floor \in 0..Len(l)
    /\ \E i \in In(m) : a.floor = s[i]
    /\ \A i \in In(m) : a.floor <= s[i]
    /\ \A i \in In(m) :
          /\ s[i] # 0 /\ l[s[i]] = User /\ s[i] > boundary
          /\ \A j \in In(p) : s[j] # s[i]
          => s[i] \in a.seen \cup a.owned /\ s[i] <= a.mark

LEMMA AdmissionHolds ==
  ASSUME NEW l \in Seq(Event), NEW s \in [Inputs -> 0..Len(l)], NEW p \in Seq(Inputs),
         NEW m \in Seq(Inputs), m # <<>>, NEW rec \in Attempt, rec.owned \subseteq 1..Len(l),
         boundary \in 0..Len(l)
  PROVE  /\ Admits(Admission(l, s, p, m, rec), l, s, p, m)
         /\ Admission(l, s, p, m, rec).epoch = rec.epoch
         /\ Admission(l, s, p, m, rec).misses = rec.misses
<1> DEFINE a == Admission(l, s, p, m, rec)
           hidden == {s[i] : i \in In(p)}
           entries == View(l) \ hidden
           seen == {e \in entries : UserEntry(l, e)}
           own == {s[i] : i \in In(m)}
<1>1. a = [rec EXCEPT !.phase = "setup", !.seen = seen, !.mark = MaxOf(entries),
                      !.owned = @ \cup (seen \cap own), !.floor = MinOf(own)]
  BY DEF Admission
<1>2. Len(l) \in Nat /\ \A e \in DOMAIN l : e \in 1..Len(l)
  BY LenProperties
<1>3. entries \subseteq 1..Len(l) /\ seen \subseteq entries
  BY <1>2 DEF View
<1>4. MaxOf(entries) \in 0..Len(l) /\ \A e \in entries : e <= MaxOf(entries)
  <2>1. entries \in SUBSET (0..Len(l))
    BY <1>2, <1>3
  <2> QED BY <2>1, <1>2, MaxOfIn
<1>5. MinOf(own) \in own /\ \A y \in own : MinOf(own) <= y
  <2>1. \A i \in In(m) : i \in Inputs
    BY ElementOfSeq, LenProperties DEF In
  <2>2. own \in SUBSET Nat
    BY <2>1, <1>2
  <2>3. m[1] \in In(m)
    BY EmptySeq, LenProperties DEF In
  <2>4. own # {}
    BY <2>3
  <2> QED BY <2>2, <2>4, MinOfIn
<1>6. \A i \in In(m) : i \in Inputs
  BY ElementOfSeq, LenProperties DEF In
<1>7. ASSUME NEW i \in In(m), s[i] # 0, l[s[i]] = User, s[i] > boundary,
             \A j \in In(p) : s[j] # s[i]
      PROVE  s[i] \in seen
  <2>1. s[i] \in DOMAIN l
    BY <1>2, <1>6, <1>7, LenProperties
  <2>2. s[i] \in View(l)
    BY <2>1, <1>7 DEF View, Key, User
  <2> QED BY <2>2, <1>7 DEF User, UserEntry
<1> HIDE DEF a, entries, seen, own
<1>8. MinOf(own) \in 0..Len(l) /\ (\E i \in In(m) : MinOf(own) = s[i])
      /\ \A i \in In(m) : MinOf(own) <= s[i]
  BY <1>5, <1>6 DEF own
<1>9. a \in Attempt
  <2>1. seen \in SUBSET Nat
    BY <1>2, <1>3
  <2>2. rec.owned \in SUBSET Nat
    BY DEF Attempt
  <2>3. MaxOf(entries) \in Nat /\ MinOf(own) \in Nat
    BY <1>2, <1>4, <1>8
  <2> QED BY <1>1, <2>1, <2>2, <2>3 DEF Attempt, Phases
<1>10. a.seen = seen /\ a.owned = rec.owned \cup (seen \cap own) /\ a.mark = MaxOf(entries)
       /\ a.floor = MinOf(own) /\ a.phase = "setup" /\ a.epoch = rec.epoch /\ a.misses = rec.misses
  BY <1>1 DEF Attempt
<1>11. Admits(a, l, s, p, m)
  BY <1>3, <1>4, <1>7, <1>8, <1>9, <1>10 DEF Admits
<1> QED BY <1>10, <1>11 DEF a

\* A claim cuts the queue p in two: m leaves it, q stays.
Parts(p, m, q) ==
    /\ m \in Seq(Inputs) /\ q \in Seq(Inputs)
    /\ In(p) = In(m) \cup In(q)
    /\ Distinct(p) => Distinct(m) /\ Distinct(q) /\ In(m) \cap In(q) = {}
    /\ \A s \in [Inputs -> Nat] : Ordered(p, s) =>
          Ordered(m, s) /\ Ordered(q, s) /\ \A i \in In(m), j \in In(q) \ Late : s[i] < s[j]

LEMMA SplitParts ==
  ASSUME NEW p \in Seq(Inputs), NEW n \in 0..Len(p)
  PROVE  Parts(p, Take(p, n), Drop(p, n))
<1> DEFINE m == Take(p, n)
           q == Drop(p, n)
<1>1. /\ m \in Seq(Inputs) /\ q \in Seq(Inputs) /\ In(p) = In(m) \cup In(q)
      /\ Distinct(p) => Distinct(m) /\ Distinct(q) /\ In(m) \cap In(q) = {}
  BY SplitHolds
<1>2. /\ Len(m) = n /\ Len(q) = Len(p) - n
      /\ \A k \in 1..n : m[k] = p[k]
      /\ \A k \in 1..(Len(p) - n) : q[k] = p[n + k]
  BY SplitHolds
<1>3. Len(p) \in Nat /\ n \in Nat /\ n <= Len(p)
  OBVIOUS
<1>4. /\ \A k \in DOMAIN m : k \in 1..n
      /\ \A k \in DOMAIN q : k \in 1..(Len(p) - n)
      /\ \A k \in 1..Len(p) : k \in DOMAIN p
  BY <1>1, <1>2, LenProperties
<1>5. ASSUME NEW s \in [Inputs -> Nat], Ordered(p, s)
      PROVE  Ordered(m, s) /\ Ordered(q, s) /\ \A i \in In(m), j \in In(q) \ Late : s[i] < s[j]
  <2>1. ASSUME NEW j \in DOMAIN q, NEW k \in DOMAIN q, j < k, q[k] \notin Late
        PROVE  s[q[j]] < s[q[k]]
    <3>1. n + j \in 1..Len(p) /\ n + k \in 1..Len(p) /\ n + j < n + k
      BY <1>3, <1>4, <2>1
    <3>2. q[j] = p[n + j] /\ q[k] = p[n + k]
      BY <1>2, <1>4
    <3> QED BY <3>1, <3>2, <1>4, <1>5, <2>1 DEF Ordered
  <2>2. ASSUME NEW j \in DOMAIN m, NEW k \in DOMAIN q, q[k] \notin Late
        PROVE  s[m[j]] < s[q[k]]
    <3>1. j \in 1..Len(p) /\ n + k \in 1..Len(p) /\ j < n + k
      BY <1>3, <1>4
    <3>2. m[j] = p[j] /\ q[k] = p[n + k]
      BY <1>2, <1>4
    <3> QED BY <3>1, <3>2, <1>4, <1>5, <2>2 DEF Ordered
  <2>3. Ordered(m, s)
    <3>1. \A k \in DOMAIN m : k \in DOMAIN p /\ m[k] = p[k]
      BY <1>2, <1>3, <1>4
    <3> QED BY <1>5, <3>1 DEF Ordered
  <2> QED BY <2>1, <2>2, <2>3 DEF Ordered, In
<1> QED BY <1>1, <1>5 DEF Parts

LEMMA StartTurnStep ==
  ASSUME NEW l, NEW s, NEW p \in Seq(Inputs), p # <<>>, StartTurn(l, s, p)
  PROVE  \E m \in Seq(Inputs) :
            /\ m # <<>> /\ Parts(p, m, pending')
            /\ \/ /\ members' = m
                  /\ att' = Admission(l, s, pending', m, Fresh(p[1]))
                  /\ status' = [i \in Inputs |-> IF i \in In(m) THEN "admitted" ELSE status[i]]
               \/ /\ members' = <<>>
                  /\ att' = Lull("pass")
                  /\ status' = Settle(In(m), "error")
<1> DEFINE n == Claimable(p, p[1], 2)
<1>1. n \in 0..Len(p) /\ n >= 1
  BY ClaimableHolds
<1>2. Take(p, n) \in Seq(Inputs) /\ Take(p, n) # <<>>
  <2>1. Take(p, n) \in Seq(Inputs) /\ Len(Take(p, n)) = n
    BY <1>1, SplitHolds
  <2> QED BY <2>1, <1>1, EmptySeq
<1>3. Parts(p, Take(p, n), pending')
  BY <1>1, SplitParts DEF StartTurn
<1> QED BY <1>2, <1>3 DEF StartTurn

LEMMA NextAttemptStep ==
  ASSUME NEW rec, pending \in Seq(Inputs), NextAttempt(rec)
  PROVE  \E m \in Seq(Inputs) :
            /\ Parts(pending, m, pending')
            /\ members' = members \o m
            /\ att' = Admission(log, seq, pending', members', rec)
            /\ UNCHANGED <<status, stopped>>
<1> DEFINE n == Claimable(pending, members[1], 1)
<1>1. n \in 0..Len(pending)
  BY ClaimableHolds
<1>2. Parts(pending, Take(pending, n), pending') /\ Take(pending, n) \in Seq(Inputs)
  BY <1>1, SplitParts, SplitHolds DEF NextAttempt
<1> QED BY <1>2 DEF NextAttempt

-----------------------------------------------------------------------------
(* Types, bounds and phases. *)

\* Types, and the shape that the types rest on.
Typed == TypeOK /\ Bounds /\ Shape

\* The inductive invariant of the lane.
LaneInv ==
    /\ Typed /\ HeldOnce /\ Epochs /\ StoredOnce /\ StoppedStale /\ InLine
    /\ Spared /\ Summarised /\ ReadAhead /\ CompletedWasRead
    /\ Fallbacks = 0 => UnderAuthority

JobStates == {"new", "queued", "running", "resolved", "rejected"}

\* An attempt that is not running answers for nothing.
LEMMA LullFacts ==
  ASSUME NEW ph \in Phases
  PROVE  /\ Lull(ph) \in Attempt
         /\ Lull(ph).phase = ph /\ Lull(ph).epoch = 0 /\ Lull(ph).misses = 0
         /\ Lull(ph).seen = {} /\ Lull(ph).owned = {} /\ Lull(ph).mark = 0 /\ Lull(ph).floor = 0
  BY DEF Lull, Attempt

\* A phase change leaves the rest of the attempt.
LEMMA PhaseFacts ==
  ASSUME NEW a \in Attempt, NEW ph \in Phases
  PROVE  LET b == [a EXCEPT !.phase = ph]
         IN  /\ b \in Attempt /\ b.phase = ph /\ b.epoch = a.epoch /\ b.misses = a.misses
             /\ b.seen = a.seen /\ b.owned = a.owned /\ b.mark = a.mark /\ b.floor = a.floor
  BY DEF Attempt

\* A missed model leaves the rest of the attempt.
LEMMA MissFacts ==
  ASSUME NEW a \in Attempt
  PROVE  LET b == [a EXCEPT !.misses = @ + 1]
         IN  b \in Attempt /\ b.owned = a.owned /\ b.epoch = a.epoch
<1>1. a.misses + 1 \in Nat
  BY DEF Attempt
<1> QED BY <1>1 DEF Attempt

LEMMA FoldFacts ==
  /\ NoFold \in Fold /\ NoFold.why = "none" /\ NoFold.cut = 0 /\ NoFold.span = {}
  /\ \A why \in Folds, ep \in Nat : StartFold(why, ep) =>
        /\ fold' \in Fold /\ fold'.why = why /\ fold'.epoch = ep
        /\ fold'.cut = 0 /\ fold'.span = {}
<1>1. NoFold \in Fold /\ NoFold.why = "none" /\ NoFold.cut = 0 /\ NoFold.span = {}
  BY DEF NoFold, Fold, Folds
<1>2. ASSUME NEW why \in Folds, NEW ep \in Nat, StartFold(why, ep)
      PROVE  /\ fold' \in Fold /\ fold'.why = why /\ fold'.epoch = ep
             /\ fold'.cut = 0 /\ fold'.span = {}
  BY <1>2 DEF StartFold, NoFold, Fold, Folds
<1> QED BY <1>1, <1>2

LEMMA QuietTyped ==
  ASSUME Typed, Epochs,
         EnterModel \/ AfterLanding \/ RunJob \/ Rest \/ ApplySettings \/ ClaimSteers
  PROVE Typed'
<1> USE DEF Typed, TypeOK, Bounds, Shape, InTurn, Folding, store, lane, compact, history
<1>1. CASE EnterModel
  <2>1. /\ att' \in Attempt /\ att'.phase = "model" /\ att'.seen = att.seen /\ att'.owned = att.owned
        /\ att'.mark = att.mark /\ att'.floor = att.floor
    BY <1>1, PhaseFacts DEF EnterModel, Phases
  <2> QED BY <1>1, <2>1 DEF EnterModel
<1>2. CASE AfterLanding /\ att' = Lull("pass") /\ UNCHANGED fold
  <2>1. /\ att' \in Attempt /\ att'.phase = "pass" /\ att'.seen = {} /\ att'.owned = {}
        /\ att'.mark = 0 /\ att'.floor = 0
    BY <1>2, LullFacts DEF Phases
  <2>2. TypeOK'
    BY <1>2, <2>1 DEF AfterLanding
  <2>3. Bounds'
    BY <1>2, <2>1 DEF AfterLanding
  <2>4. Shape'
    BY <1>2, <2>1 DEF AfterLanding
  <2> QED BY <2>2, <2>3, <2>4
<1>3. CASE AfterLanding /\ StartFold("threshold", att.epoch) /\ att' = [att EXCEPT !.phase = "folding"]
  <2>1. /\ att' \in Attempt /\ att'.phase = "folding" /\ att'.seen = att.seen /\ att'.owned = att.owned
        /\ att'.mark = att.mark /\ att'.floor = att.floor
    BY <1>3, PhaseFacts DEF Phases
  <2>2. att.epoch \in Nat
    BY DEF Attempt
  <2>3. fold' \in Fold /\ fold'.why = "threshold" /\ fold'.cut = 0 /\ fold'.span = {}
    BY <1>3, <2>2, FoldFacts DEF Folds
  <2> QED BY <1>3, <2>1, <2>3 DEF AfterLanding
<1>4. CASE RunJob
  <2>1. epoch \in Nat /\ Head(jobs) \in Jobs /\ Tail(jobs) \in Seq(Jobs)
    BY <1>4 DEF RunJob
  <2>2. fold' \in Fold /\ fold'.why = "manual" /\ fold'.cut = 0 /\ fold'.span = {}
    BY <1>4, <2>1, FoldFacts DEF RunJob, Folds
  <2>3. /\ att' \in Attempt /\ att'.phase = "folding" /\ att'.seen = {} /\ att'.owned = {}
        /\ att'.mark = 0 /\ att'.floor = 0
    BY <1>4, LullFacts DEF RunJob, Phases
  <2>4. jobState' \in [Jobs -> JobStates]
    BY <1>4 DEF RunJob, JobStates
  <2>5. TypeOK'
    BY <1>4, <2>1, <2>2, <2>3, <2>4 DEF RunJob, JobStates
  <2>6. Bounds'
    BY <1>4, <2>2, <2>3 DEF RunJob
  <2>7. Shape'
    BY <1>4, <2>2, <2>3 DEF RunJob
  <2> QED BY <2>5, <2>6, <2>7
<1>5. CASE Rest
  <2>1. /\ att' \in Attempt /\ att'.phase = "idle" /\ att'.seen = {} /\ att'.owned = {}
        /\ att'.mark = 0 /\ att'.floor = 0
    BY <1>5, LullFacts DEF Rest, Phases
  <2> QED BY <1>5, <2>1 DEF Rest
<1>6. CASE ApplySettings
  <2>1. epoch' \in 1..MaxEpoch
    BY <1>6, LaneAssumption DEF ApplySettings, NextEpoch
  <2> QED BY <1>6, <2>1 DEF ApplySettings
<1>7. CASE ClaimSteers
  <2> DEFINE n == Claimable(pending, members[1], 1)
             c == [k \in 1..n |-> [input |-> pending[k], epoch |-> att.epoch]]
  <2>1. n \in 0..Len(pending)
    BY ClaimableHolds
  <2>2. pending' \in Seq(Inputs)
    BY <1>7, <2>1, SplitHolds DEF ClaimSteers
  <2>3. c \in Seq([input : Inputs, epoch : 1..MaxEpoch])
    <3>1. att.epoch \in 1..MaxEpoch
      BY <1>7 DEF ClaimSteers, Authority
    <3>2. \A k \in 1..n : pending[k] \in Inputs
      BY <2>1, ElementOfSeq
    <3> HIDE DEF n
    <3>3. c \in [1..n -> [input : Inputs, epoch : 1..MaxEpoch]]
      BY <3>1, <3>2
    <3>4. n \in Nat
      BY <2>1
    <3> QED BY <3>3, <3>4, FunctionIsSeq
  <2>4. converting' \in Seq([input : Inputs, epoch : 1..MaxEpoch])
    BY <1>7, <2>3, ConcatProperties DEF ClaimSteers
  <2>5. att.phase = "model" /\ att' = att /\ fold' = fold /\ members' = members
    BY <1>7 DEF ClaimSteers
  <2> QED BY <1>7, <2>2, <2>4, <2>5 DEF ClaimSteers
<1> QED BY <1>1, <1>2, <1>3, <1>4, <1>5, <1>6, <1>7 DEF AfterLanding

\* The history only grows: an event keeps its place.
Grows(l) == log' = l \/ \E e \in Event : log' = Append(l, e) /\ e.anchor <= Len(l)

LEMMA GrowsHolds ==
  ASSUME log \in Seq(Event), Grows(log)
  PROVE  /\ log' \in Seq(Event) /\ Len(log) \in Nat /\ Len(log') \in Nat /\ Len(log') >= Len(log)
         /\ Len(log') <= Len(log) + 1
         /\ \A s \in 1..Len(log) : log'[s] = log[s]
         /\ DOMAIN log = 1..Len(log) /\ DOMAIN log' = 1..Len(log')
         /\ Len(log') = Len(log) + 1 => log'[Len(log) + 1].anchor <= Len(log)
<1>1. CASE log' = log
  BY <1>1, LenProperties
<1>2. ASSUME NEW e \in Event, log' = Append(log, e), e.anchor <= Len(log)
      PROVE  /\ log' \in Seq(Event) /\ Len(log') = Len(log) + 1
             /\ \A s \in 1..Len(log) : log'[s] = log[s]
             /\ log'[Len(log) + 1] = e
  BY <1>2, AppendProperties
<1>3. Len(log) \in Nat /\ DOMAIN log = 1..Len(log)
  BY LenProperties
<1> QED BY <1>1, <1>2, <1>3, LenProperties DEF Grows

LEMMA ProgressGrows ==
  ASSUME TypeOK, Bounds, FailedProgress
  PROVE  Grows(log)
<1>1. MaxOf(att.owned) \in 0..Len(log)
  <2>1. Len(log) \in Nat /\ att.owned \in SUBSET (0..Len(log))
    BY LenProperties DEF TypeOK, Bounds
  <2> QED BY <2>1, MaxOfIn
<1>2. Note(MaxOf(att.owned)) \in Event /\ Note(MaxOf(att.owned)).anchor = MaxOf(att.owned)
  BY <1>1 DEF Note, Event
<1> QED BY <1>1, <1>2 DEF FailedProgress, Grows

\* A turn's end leaves types, bounds and phases in order.
LEMMA OverTyped ==
  ASSUME Typed, NEW o \in Settled, Over(o), Grows(log),
         UNCHANGED <<seq, epoch, closed, pending, converting, jobs, admitEpoch>>,
         boundary' \in 0..Len(log), summarised' \subseteq 1..Len(log),
         fold' = NoFold \/ (fold' = fold /\ ~Folding), att.phase # "idle",
         jobState' \in [Jobs -> JobStates]
  PROVE  Typed'
<1> USE DEF Typed
<1>1. /\ log' \in Seq(Event) /\ Len(log') >= Len(log) /\ Len(log) \in Nat /\ Len(log') \in Nat
  BY GrowsHolds DEF TypeOK
<1>2. /\ att' \in Attempt /\ att'.phase = "pass" /\ att'.seen = {} /\ att'.owned = {}
      /\ att'.mark = 0 /\ att'.floor = 0
  BY LullFacts DEF Over, Phases
<1>3. fold' \in Fold /\ fold'.why = "none" /\ fold'.cut = 0
      /\ \A s \in fold'.span : s \in 1..Len(log)
  BY FoldFacts DEF TypeOK, Bounds, Shape, Folding
<1>4. status' \in [Inputs -> Status] /\ members' = <<>> /\ stopped' \subseteq Inputs
  BY DEF Over, Settle, TypeOK, Status
<1>5. /\ seq' \in [Inputs -> 0..Len(log')] /\ boundary' \in 0..Len(log')
      /\ summarised' \subseteq 1..Len(log')
  BY <1>1 DEF TypeOK
<1>6. TypeOK'
  BY <1>1, <1>2, <1>3, <1>4, <1>5 DEF TypeOK, JobStates
<1>7. Bounds'
  BY <1>1, <1>2, <1>3 DEF Bounds
<1>8. Shape'
  BY <1>2, <1>3, <1>4 DEF Shape, InTurn, Folding
<1> QED BY <1>6, <1>7, <1>8

\* The next attempt of a turn keeps the turn's authority.
LEMMA NextAttemptAdmits ==
  ASSUME Typed, NEW rec \in Attempt, rec.owned = att.owned, NextAttempt(rec), members # <<>>
  PROVE  /\ pending' \in Seq(Inputs) /\ members' \in Seq(Inputs) /\ members' # <<>>
         /\ att'.epoch = rec.epoch /\ att'.misses = rec.misses
         /\ Admits(att', log, seq, pending', members')
<1>1. PICK m \in Seq(Inputs) :
            /\ Parts(pending, m, pending')
            /\ members' = members \o m
            /\ att' = Admission(log, seq, pending', members', rec)
            /\ UNCHANGED <<status, stopped>>
  BY NextAttemptStep DEF Typed, TypeOK
<1>2. pending' \in Seq(Inputs) /\ members' \in Seq(Inputs) /\ members' # <<>>
  <2>1. pending' \in Seq(Inputs) /\ members' \in Seq(Inputs) /\ Len(members') = Len(members) + Len(m)
    BY <1>1, ConcatProperties DEF Parts, Typed, TypeOK
  <2>2. Len(members) \in Nat /\ Len(members) # 0 /\ Len(m) \in Nat
    BY EmptySeq, LenProperties DEF Typed, TypeOK
  <2>3. Len(members') # 0
    BY <2>1, <2>2
  <2> QED BY <2>1, <2>3, EmptySeq
<1>3. log \in Seq(Event) /\ seq \in [Inputs -> 0..Len(log)] /\ rec.owned \subseteq 1..Len(log)
  BY DEF Typed, TypeOK, Bounds
<1> DEFINE a == Admission(log, seq, pending', members', rec)
<1>4. Admits(a, log, seq, pending', members') /\ a.epoch = rec.epoch /\ a.misses = rec.misses
  <2>1. boundary \in 0..Len(log)
    BY DEF Typed, TypeOK
  <2>2. members' \in Seq(Inputs) /\ members' # <<>> /\ pending' \in Seq(Inputs)
    BY <1>2
  <2>3. rec \in Attempt
    OBVIOUS
  <2> QED BY ONLY <1>3, <2>1, <2>2, <2>3, AdmissionHolds
<1>5. att' = a
  BY <1>1
<1> QED BY <1>2, <1>4, <1>5

\* So does a turn's next attempt.
LEMMA NextAttemptTyped ==
  ASSUME Typed, NEW rec \in Attempt, rec.owned = att.owned, NextAttempt(rec), members # <<>>,
         UNCHANGED <<log, seq, epoch, closed, converting, jobs, admitEpoch>>,
         boundary' \in 0..Len(log), summarised' \subseteq 1..Len(log),
         fold' = NoFold \/ (fold' = fold /\ ~Folding),
         jobState' \in [Jobs -> JobStates]
  PROVE  Typed'
<1> USE DEF Typed
<1>1. UNCHANGED <<status, stopped>>
  BY DEF NextAttempt
<1>2. /\ pending' \in Seq(Inputs) /\ members' \in Seq(Inputs) /\ members' # <<>>
      /\ Admits(att', log, seq, pending', members')
  BY NextAttemptAdmits
<1>6. fold' \in Fold /\ fold'.why = "none" /\ fold'.cut = 0
      /\ \A s \in fold'.span : s \in 1..Len(log)
  BY FoldFacts DEF TypeOK, Bounds, Shape, Folding
<1>7. TypeOK'
  BY <1>1, <1>2, <1>6 DEF TypeOK, JobStates, Admits
<1>8. Bounds'
  BY <1>2, <1>6 DEF Bounds, Admits
<1>9. Shape'
  BY <1>2, <1>6 DEF Shape, InTurn, Folding, Admits
<1> QED BY <1>7, <1>8, <1>9

LEMMA AfterFoldTyped ==
  ASSUME Typed, NEW outcome, AfterFold(outcome), Folding,
         UNCHANGED <<seq, epoch, closed, converting, jobs, admitEpoch>>,
         boundary' \in 0..Len(log), summarised' \subseteq 1..Len(log)
  PROVE  Typed' /\ Grows(log)
<1>1. fold' = NoFold /\ jobState' \in [Jobs -> JobStates]
  BY DEF AfterFold, Typed, TypeOK, JobStates
<1>2. CASE /\ fold.why \in {"manual", "threshold"}
           /\ att' = Lull("pass")
           /\ UNCHANGED <<log, status, pending, members, stopped>>
  <2>1. /\ att' \in Attempt /\ att'.phase = "pass" /\ att'.seen = {} /\ att'.owned = {}
        /\ att'.mark = 0 /\ att'.floor = 0
    BY <1>2, LullFacts DEF Phases
  <2>2. fold' \in Fold /\ fold'.why = "none" /\ fold'.cut = 0 /\ fold'.span = {}
    BY <1>1, FoldFacts
  <2>3. members = <<>>
    BY <1>2 DEF Typed, Shape, InTurn, Folding
  <2>4. TypeOK'
    BY <1>1, <1>2, <2>1, <2>2 DEF Typed, TypeOK, JobStates
  <2>5. Bounds'
    BY <1>2, <2>1, <2>2 DEF Typed, Bounds
  <2>6. Shape'
    BY <1>2, <2>1, <2>2, <2>3 DEF Typed, Shape, InTurn, Folding
  <2> QED BY <1>2, <2>4, <2>5, <2>6 DEF Typed, Grows
<1>3. CASE Over("fenced") /\ UNCHANGED <<log, pending>>
  <2>1. Grows(log)
    BY <1>3 DEF Grows
  <2>2. Over("fenced") /\ "fenced" \in Settled /\ att.phase # "idle" /\ pending' = pending
    BY <1>3 DEF Settled, Folding
  <2> QED BY <1>1, <2>1, <2>2, OverTyped
<1>4. CASE FailedProgress /\ Over("error") /\ UNCHANGED pending
  <2>1. Grows(log)
    BY <1>4, ProgressGrows DEF Typed
  <2>2. Over("error") /\ "error" \in Settled /\ att.phase # "idle" /\ pending' = pending
    BY <1>4 DEF Settled, Folding
  <2> QED BY <1>1, <2>1, <2>2, OverTyped
<1>5. CASE fold.why \in {"overflow", "preempt"} /\ NextAttempt(Refolded) /\ UNCHANGED log
  <2>1. members # <<>>
    BY <1>5 DEF Typed, Shape, InTurn
  <2>2. Refolded \in Attempt /\ Refolded.owned = att.owned
    BY DEF Typed, TypeOK, Refolded, Attempt
  <2>3. Grows(log)
    BY <1>5 DEF Grows
  <2> QED BY <1>1, <1>5, <2>1, <2>2, <2>3, NextAttemptTyped
<1> QED BY <1>2, <1>3, <1>4, <1>5 DEF AfterFold

LEMMA FailTyped ==
  ASSUME Typed, Fail, att.phase \in {"setup", "model"},
         UNCHANGED <<epoch, closed, converting, jobs, jobState, admitEpoch, summarised>>
  PROVE  Typed' /\ Grows(log)
<1>1. Grows(log)
  BY ProgressGrows DEF Fail, Typed
<1>2. boundary' \in 0..Len(log) /\ summarised' \subseteq 1..Len(log)
      /\ jobState' \in [Jobs -> JobStates]
  BY DEF Fail, Typed, TypeOK, JobStates
<1>3. /\ Over("error") /\ "error" \in Settled /\ att.phase # "idle" /\ ~Folding
      /\ UNCHANGED <<seq, pending, fold>>
  BY DEF Fail, Settled, Folding
<1> QED BY <1>1, <1>2, <1>3, OverTyped

LEMMA AdvanceTyped ==
  ASSUME Typed, Advance, att.phase \in {"setup", "model"},
         UNCHANGED <<epoch, closed, converting, jobs, jobState, admitEpoch, summarised>>
  PROVE  Typed' /\ UNCHANGED log
<1> DEFINE rec == [att EXCEPT !.misses = @ + 1]
<1>1. rec \in Attempt /\ rec.owned = att.owned
  BY MissFacts DEF Typed, TypeOK
<1>2. boundary' \in 0..Len(log) /\ summarised' \subseteq 1..Len(log)
      /\ jobState' \in [Jobs -> JobStates]
      /\ UNCHANGED <<log, seq, fold>>
  BY DEF Advance, Typed, TypeOK, store, JobStates
<1>3. members # <<>> /\ NextAttempt(rec) /\ ~Folding
  BY DEF Typed, Shape, InTurn, Advance, Folding
<1> HIDE DEF rec
<1> QED BY <1>1, <1>2, <1>3, NextAttemptTyped

LEMMA TurnTyped ==
  ASSUME Typed, Epochs, Fence \/ SetupFails \/ ModelFails \/ JournalFails \/ Land \/ Overflow
  PROVE  Typed' /\ Grows(log)
<1>1. ASSUME Fence \/ JournalFails PROVE Typed' /\ Grows(log)
  <2>1. /\ Over("fenced") \/ Over("error")
        /\ UNCHANGED <<log, seq, boundary, epoch, closed, pending, converting, fold,
                       jobs, jobState, admitEpoch, summarised>>
        /\ att.phase # "idle" /\ ~Folding
    BY <1>1 DEF Fence, JournalFails, store, compact, Folding
  <2>2. boundary' \in 0..Len(log) /\ summarised' \subseteq 1..Len(log) /\ jobState' \in [Jobs -> JobStates]
    BY <2>1 DEF Typed, TypeOK, JobStates
  <2>3. Grows(log) /\ {"fenced", "error"} \subseteq Settled
    BY <2>1 DEF Grows, Settled
  <2> QED BY <2>1, <2>2, <2>3, OverTyped
<1>2. CASE SetupFails
  BY <1>2, FailTyped, AdvanceTyped DEF SetupFails, compact, Grows
<1>3. CASE ModelFails
  BY <1>3, FailTyped, AdvanceTyped DEF ModelFails, compact, Grows
<1>4. CASE Land
  <2> DEFINE e == Reply(MaxOf(ReadBy(att)), ReadBy(att) \ {boundary})
  <2>1. Len(log) \in Nat /\ ReadBy(att) \in SUBSET (0..Len(log)) /\ ReadBy(att) \in SUBSET Nat
    BY LenProperties DEF Typed, TypeOK, ReadBy, View
  <2>2. MaxOf(ReadBy(att)) \in 0..Len(log)
    BY <2>1, MaxOfIn
  <2>3. e \in Event /\ e.anchor <= Len(log)
    BY <2>1, <2>2 DEF Reply, Event
  <2>4. Grows(log)
    BY <1>4, <2>3 DEF Land, Grows
  <2>5. /\ log' \in Seq(Event) /\ Len(log') >= Len(log) /\ Len(log') \in Nat
    BY <2>4, GrowsHolds DEF Typed, TypeOK
  <2>6. /\ att' \in Attempt /\ att'.phase = "landed" /\ att'.seen = att.seen /\ att'.owned = att.owned
        /\ att'.mark = att.mark /\ att'.floor = att.floor
    BY <1>4, PhaseFacts DEF Typed, TypeOK, Land, Phases
  <2>7. status' \in [Inputs -> Status] /\ members' = <<>> /\ stopped' \subseteq Inputs /\ fold' = fold
    BY <1>4 DEF Land, Settle, Typed, TypeOK, Status, Settled
  <2>8. TypeOK'
    BY <1>4, <2>1, <2>5, <2>6, <2>7 DEF Typed, TypeOK, Land, compact
  <2>9. Bounds'
    BY <1>4, <2>1, <2>5, <2>6, <2>7 DEF Typed, Bounds, Land
  <2>10. Shape'
    BY <1>4, <2>6, <2>7 DEF Typed, Shape, InTurn, Folding, Land
  <2> QED BY <2>4, <2>8, <2>9, <2>10 DEF Typed
<1>5. CASE Overflow
  <2>1. CASE Fail
    BY <1>5, <2>1, FailTyped DEF Overflow, compact
  <2>2. CASE att' = [att EXCEPT !.phase = "folding"]
             /\ (\E why \in {"overflow", "preempt"} : StartFold(why, att.epoch))
             /\ UNCHANGED <<store, status, pending, members, stopped>>
    <3>1. /\ att' \in Attempt /\ att'.phase = "folding" /\ att'.seen = att.seen /\ att'.owned = att.owned
          /\ att'.mark = att.mark /\ att'.floor = att.floor
      BY <2>2, PhaseFacts DEF Phases, Typed, TypeOK
    <3>2. att.epoch \in Nat
      BY DEF Attempt, Typed, TypeOK
    <3>3. fold' \in Fold /\ fold'.why \in {"overflow", "preempt"} /\ fold'.cut = 0 /\ fold'.span = {}
      BY <2>2, <3>2, FoldFacts DEF Folds
    <3>4. TypeOK'
      BY <1>5, <2>2, <3>1, <3>3 DEF Typed, TypeOK, Overflow, store, compact
    <3>5. Bounds'
      BY <1>5, <2>2, <3>1, <3>3 DEF Typed, Bounds, Overflow, store
    <3>6. Shape'
      BY <1>5, <2>2, <3>1, <3>3 DEF Typed, Shape, InTurn, Folding, Overflow
    <3>7. Grows(log)
      BY <2>2 DEF Grows, store
    <3> QED BY <3>4, <3>5, <3>6, <3>7 DEF Typed
  <2> QED BY <1>5, <2>1, <2>2 DEF Overflow
<1> QED BY <1>1, <1>2, <1>3, <1>4, <1>5

LEMMA ConvertTyped ==
  ASSUME Typed, Epochs, HeldOnce, StoredOnce, Convert
  PROVE  Typed'
<1> DEFINE i == Head(converting).input
<1>1. /\ converting # <<>> /\ Head(converting) \in [input : Inputs, epoch : 1..MaxEpoch]
      /\ converting' = Tail(converting) /\ converting' \in Seq([input : Inputs, epoch : 1..MaxEpoch])
      /\ Head(converting) = converting[1] /\ 1 \in DOMAIN converting
  BY TailHolds DEF Convert, Typed, TypeOK
<1>2. i \in Inputs /\ seq[i] \in 0..Len(log) /\ Len(log) \in Nat
  BY <1>1, LenProperties DEF Typed, TypeOK
<1>3. UNCHANGED <<log, seq, boundary, epoch, closed, pending, fold, jobs, jobState, admitEpoch, summarised>>
  BY DEF Convert, store, compact
<1>4. CASE UNCHANGED <<members, att>> /\ status' \in [Inputs -> Status] /\ stopped' \subseteq Inputs
  <2>1. TypeOK'
    BY <1>1, <1>3, <1>4 DEF Typed, TypeOK
  <2>2. Bounds' /\ Shape'
    BY <1>3, <1>4 DEF Typed, Bounds, Shape, InTurn, Folding
  <2> QED BY <2>1, <2>2 DEF Typed
<1>5. CASE /\ Head(converting).epoch = epoch
           /\ members' = Append(members, i)
           /\ att' = [att EXCEPT !.owned = @ \cup {seq[i]}, !.mark = MaxOf({@, seq[i]})]
           /\ UNCHANGED <<status, stopped>>
  <2>1. att.phase = "model"
    BY <1>1, <1>5 DEF Epochs
  <2>2. members' \in Seq(Inputs) /\ members' # <<>> /\ members # <<>>
    <3>1. members \in Seq(Inputs)
      BY DEF Typed, TypeOK
    <3>2. members' \in Seq(Inputs) /\ members' # <<>>
      BY <1>2, <1>5, <3>1, AppendHolds
    <3> QED BY <2>1, <3>2 DEF Typed, Shape, InTurn
  <2>3. seq[i] \in 1..Len(log)
    <3>1. i \in Steers
      BY <1>1 DEF Steers
    <3> QED BY <3>1, <1>2 DEF HeldOnce, StoredOnce
  <2>4. att.mark \in 0..Len(log)
    BY DEF Typed, Bounds
  <2>5. MaxOf({att.mark, seq[i]}) \in 0..Len(log)
    BY <1>2, <2>3, <2>4, MaxOfIn
  <2>6. /\ att' \in Attempt /\ att'.phase = "model" /\ att'.seen = att.seen
        /\ att'.owned = att.owned \cup {seq[i]}
        /\ att'.mark = MaxOf({att.mark, seq[i]}) /\ att'.floor = att.floor
    <3>1. att.owned \cup {seq[i]} \in SUBSET Nat /\ MaxOf({att.mark, seq[i]}) \in Nat
      BY <1>2, <2>3, <2>5 DEF Attempt, Typed, TypeOK
    <3>2. att \in Attempt
      BY DEF Typed, TypeOK
    <3> QED BY <1>5, <2>1, <3>1, <3>2 DEF Attempt
  <2>7. TypeOK'
    BY <1>1, <1>3, <1>5, <2>2, <2>6 DEF Typed, TypeOK
  <2>8. Bounds'
    BY <1>3, <2>3, <2>5, <2>6 DEF Typed, Bounds
  <2>9. Shape'
    BY <1>3, <2>1, <2>2, <2>6 DEF Typed, Shape, InTurn, Folding
  <2> QED BY <2>7, <2>8, <2>9 DEF Typed
<1>6. \A o \in {"error", "fenced"} : status' = [status EXCEPT ![i] = o] => status' \in [Inputs -> Status]
  BY DEF Typed, TypeOK, Status, Settled
<1>7. stopped' = stopped \ {i} => stopped' \subseteq Inputs
  BY DEF Typed, TypeOK
<1> QED BY <1>4, <1>5, <1>6, <1>7 DEF Convert

\* The first attempt of a turn, over the history l with the seqs s.
LEMMA StartTurnTyped ==
  ASSUME Typed, NEW l \in Seq(Event), NEW s \in [Inputs -> 0..Len(l)], Len(l) >= Len(log),
         NEW p \in Seq(Inputs), p # <<>>, StartTurn(l, s, p), att.phase \in {"idle", "pass"},
         log' = l, seq' = s, admitEpoch' \in [Inputs -> 0..MaxEpoch],
         UNCHANGED <<boundary, epoch, closed, converting, fold, jobs, jobState, stopped, summarised>>
  PROVE  /\ Typed'
         /\ \E m \in Seq(Inputs) :
            /\ m # <<>> /\ Parts(p, m, pending')
            /\ \/ /\ members' = m
                  /\ att'.epoch = epoch /\ Admits(att', l, s, pending', m)
                  /\ status' = [i \in Inputs |-> IF i \in In(m) THEN "admitted" ELSE status[i]]
               \/ /\ members' = <<>>
                  /\ att' = Lull("pass")
                  /\ status' = Settle(In(m), "error")
<1>1. PICK m \in Seq(Inputs) :
            /\ m # <<>> /\ Parts(p, m, pending')
            /\ \/ /\ members' = m
                  /\ att' = Admission(l, s, pending', m, Fresh(p[1]))
                  /\ status' = [i \in Inputs |-> IF i \in In(m) THEN "admitted" ELSE status[i]]
               \/ /\ members' = <<>>
                  /\ att' = Lull("pass")
                  /\ status' = Settle(In(m), "error")
  BY StartTurnStep
<1>2. pending' \in Seq(Inputs) /\ Len(l) \in Nat /\ Len(log) \in Nat /\ l' = l /\ s' = s
  BY <1>1, LenProperties DEF Parts, Typed, TypeOK
<1>3. /\ fold \in Fold /\ fold.why = "none" /\ fold.cut = 0 /\ \A x \in fold.span : x \in 1..Len(log)
  BY DEF Typed, TypeOK, Bounds, Shape, Folding
<1>4. status' \in [Inputs -> Status]
  BY <1>1 DEF Settle, Settled, Status, Typed, TypeOK
<1>5. ASSUME members' \in Seq(Inputs), att' \in Attempt PROVE TypeOK'
  <2>1. boundary' \in 0..Len(log') /\ summarised' \subseteq 1..Len(log')
    <3>1. boundary' \in 0..Len(log) /\ summarised' \subseteq 1..Len(log) /\ Len(log') >= Len(log)
      BY DEF Typed, TypeOK
    <3>2. Len(log') \in Nat /\ Len(log) \in Nat
      BY <1>2
    <3> QED BY ONLY <3>1, <3>2
  <2>2. log' \in Seq(Event) /\ seq' \in [Inputs -> 0..Len(log')]
    OBVIOUS
  <2> QED BY <1>2, <1>4, <1>5, <2>1, <2>2 DEF Typed, TypeOK
<1>6. CASE /\ members' = m
           /\ att' = Admission(l, s, pending', m, Fresh(p[1]))
           /\ status' = [i \in Inputs |-> IF i \in In(m) THEN "admitted" ELSE status[i]]
  <2> DEFINE rec == Fresh(p[1])
             a == Admission(l, s, pending', m, rec)
  <2>1. rec \in Attempt /\ rec.owned = {} /\ rec.epoch = epoch
    <3>1. epoch \in Nat
      BY DEF Typed, TypeOK
    <3> QED BY <3>1 DEF Fresh, Lull, Attempt, Phases
  <2> HIDE DEF rec
  <2>2. Admits(a, l, s, pending', m) /\ a.epoch = rec.epoch
    <3>1. m # <<>>
      BY <1>1
    <3>2. rec.owned \subseteq 1..Len(l)
      BY <2>1
    <3>3. rec \in Attempt
      BY <2>1
    <3>4. pending' \in Seq(Inputs)
      BY <1>2
    <3>5. boundary \in 0..Len(l)
      BY <1>2 DEF Typed, TypeOK
    <3> QED BY ONLY <3>1, <3>2, <3>3, <3>4, <3>5, AdmissionHolds
  <2>3. att' = a
    BY <1>6 DEF rec
  <2> HIDE DEF a
  <2>4. TypeOK'
    BY <1>5, <1>6, <2>2, <2>3 DEF Admits
  <2>5. Bounds'
    BY <1>2, <1>3, <2>2, <2>3 DEF Typed, Bounds, Admits
  <2>6. Shape'
    BY <1>1, <1>3, <1>6, <2>2, <2>3 DEF Typed, Shape, InTurn, Folding, Admits
  <2> QED BY <1>1, <1>6, <2>1, <2>2, <2>3, <2>4, <2>5, <2>6 DEF Typed
<1>7. CASE members' = <<>> /\ att' = Lull("pass") /\ status' = Settle(In(m), "error")
  <2>1. /\ att' \in Attempt /\ att'.phase = "pass" /\ att'.seen = {} /\ att'.owned = {}
        /\ att'.mark = 0 /\ att'.floor = 0
    BY <1>7, LullFacts DEF Phases
  <2>2. TypeOK'
    BY <1>5, <1>7, <2>1
  <2>3. Bounds'
    BY <1>2, <1>3, <2>1 DEF Typed, Bounds
  <2>4. Shape'
    BY <1>3, <1>7, <2>1 DEF Typed, Shape, InTurn, Folding
  <2> QED BY <1>1, <1>7, <2>2, <2>3, <2>4 DEF Typed
<1> QED BY <1>1, <1>6, <1>7

LEMMA FoldTyped ==
  ASSUME Typed, ReadFold \/ CommitFold \/ LoseFold
  PROVE  Typed' /\ Grows(log)
<1>1. CASE ReadFold \/ LoseFold
  <2>1. CASE AfterFold("noop") \/ AfterFold("failed")
    <3>1. /\ Folding /\ UNCHANGED <<seq, epoch, closed, converting, jobs, admitEpoch>>
          /\ boundary' \in 0..Len(log) /\ summarised' \subseteq 1..Len(log)
      BY <1>1 DEF ReadFold, LoseFold, Typed, TypeOK
    <3> QED BY <2>1, <3>1, AfterFoldTyped
  <2>2. CASE ReadFold /\ ~AfterFold("noop")
    <3>1. PICK b \in 1..Len(log) : b > boundary /\ fold' = [fold EXCEPT !.cut = b, !.span = Span(b)]
      BY <2>2, LenProperties DEF ReadFold, Cuts, Typed, TypeOK
    <3>2. UNCHANGED <<log, status, pending, members, att, stopped, jobState,
                      seq, boundary, epoch, closed, converting, jobs, admitEpoch, summarised>>
      BY <2>2 DEF ReadFold
    <3>3. Span(b) \subseteq 1..Len(log) /\ Len(log) \in Nat
      BY LenProperties DEF Span, Typed, TypeOK
    <3>4. fold' \in Fold /\ fold'.why = fold.why /\ fold'.cut = b /\ fold'.span = Span(b)
      <4>1. fold \in Fold /\ b \in Nat /\ Span(b) \in SUBSET Nat
        BY <3>3 DEF Typed, TypeOK
      <4> QED BY <3>1, <4>1 DEF Fold
    <3>5. TypeOK'
      BY <3>2, <3>4 DEF Typed, TypeOK
    <3>6. Bounds'
      BY <3>1, <3>2, <3>3, <3>4 DEF Typed, Bounds
    <3>7. Shape'
      BY <2>2, <3>2, <3>4 DEF Typed, Shape, InTurn, Folding, ReadFold
    <3>8. Grows(log)
      BY <3>2 DEF Grows
    <3> QED BY <3>5, <3>6, <3>7, <3>8 DEF Typed
  <2> QED BY <1>1, <2>1, <2>2 DEF LoseFold
<1>2. CASE CommitFold
  <2>1. /\ Folding /\ UNCHANGED <<seq, epoch, closed, converting, jobs, admitEpoch>>
        /\ boundary' \in 0..Len(log) /\ summarised' \subseteq 1..Len(log)
    BY <1>2 DEF CommitFold, Typed, TypeOK, Bounds
  <2> QED BY <1>2, <2>1, AfterFoldTyped DEF CommitFold
<1> QED BY <1>1, <1>2

LEMMA OperatorTyped ==
  ASSUME Typed, Stop \/ Shutdown \/ \E j \in Jobs : RequestCompact(j)
  PROVE  Typed' /\ UNCHANGED log
<1>1. ASSUME StopLane, closed' \in BOOLEAN PROVE Typed' /\ UNCHANGED log
  <2>1. epoch' \in 1..MaxEpoch
    BY <1>1, LaneAssumption DEF StopLane, NextEpoch, Typed, TypeOK
  <2>2. /\ UNCHANGED <<log, seq, boundary, converting, members, fold, admitEpoch, summarised>>
        /\ pending' = <<>> /\ jobs' = <<>>
    BY <1>1 DEF StopLane, store
  <2>3. status' \in [Inputs -> Status]
    BY <1>1 DEF StopLane, Settle, Settled, Status, Typed, TypeOK
  <2>4. jobState' \in [Jobs -> JobStates]
    BY <1>1 DEF StopLane, QueuedJobsAnswered, JobStates, Typed, TypeOK
  <2>5. stopped' \subseteq Inputs
    BY <1>1 DEF StopLane
  <2>6. /\ att' \in Attempt /\ att'.phase = att.phase /\ att'.seen = att.seen /\ att'.owned = att.owned
        /\ att'.mark = att.mark /\ att'.floor = att.floor
    BY <1>1 DEF StopLane, Attempt, Typed, TypeOK
  <2>7. TypeOK'
    BY <1>1, <2>1, <2>2, <2>3, <2>4, <2>5, <2>6, EmptySeq DEF Typed, TypeOK, JobStates
  <2>8. Bounds'
    BY <2>2, <2>6 DEF Typed, Bounds
  <2>9. Shape'
    BY <2>2, <2>6 DEF Typed, Shape, InTurn, Folding
  <2> QED BY <2>2, <2>7, <2>8, <2>9 DEF Typed
<1>2. CASE Stop
  BY <1>1, <1>2 DEF Stop, Typed, TypeOK
<1>3. CASE Shutdown
  <2>1. CASE Busy
    BY <1>1, <1>3, <2>1 DEF Shutdown
  <2>2. CASE ~Busy
    <3>1. closed' = TRUE /\ UNCHANGED <<log, seq, boundary, epoch, status, pending, converting, members, att, fold,
                        jobs, jobState, admitEpoch, stopped, summarised>>
      BY <1>3, <2>2 DEF Shutdown, store, lane, compact, history
    <3> QED BY <3>1 DEF Typed, TypeOK, Bounds, Shape, InTurn, Folding
  <2> QED BY <2>1, <2>2
<1>4. ASSUME NEW j \in Jobs, RequestCompact(j) PROVE Typed' /\ UNCHANGED log
  <2>1. UNCHANGED <<log, seq, boundary, epoch, closed, status, pending, converting, members,
                    admitEpoch, stopped, summarised>>
    BY <1>4 DEF RequestCompact, store, history
  <2>2. jobState' \in [Jobs -> JobStates] /\ jobs' \in Seq(Jobs)
    <3>1. jobState \in [Jobs -> JobStates] /\ jobs \in Seq(Jobs)
      BY DEF Typed, TypeOK, JobStates
    <3>2. jobs' \in Seq(Jobs)
      BY <1>4, <3>1, AppendProperties DEF RequestCompact
    <3>3. jobState' = [jobState EXCEPT ![j] = "queued"] \/ jobState' = [jobState EXCEPT ![j] = "running"]
      BY <1>4 DEF RequestCompact
    <3> QED BY <3>1, <3>2, <3>3 DEF JobStates
  <2>3. CASE Running
    <3>1. UNCHANGED <<att, fold>>
      BY <1>4, <2>3 DEF RequestCompact
    <3> QED BY <2>1, <2>2, <3>1 DEF Typed, TypeOK, Bounds, Shape, InTurn, Folding, JobStates
  <2>4. CASE ~Running
    <3>1. att.phase = "idle" /\ att' = Lull("folding") /\ StartFold("manual", epoch) /\ epoch \in Nat
      BY <1>4, <2>4 DEF RequestCompact, Running, Typed, TypeOK
    <3>2. /\ att' \in Attempt /\ att'.phase = "folding" /\ att'.seen = {} /\ att'.owned = {}
          /\ att'.mark = 0 /\ att'.floor = 0
      BY <3>1, LullFacts DEF Phases
    <3>3. fold' \in Fold /\ fold'.why = "manual" /\ fold'.cut = 0 /\ fold'.span = {}
      BY <3>1, FoldFacts DEF Folds
    <3>4. TypeOK'
      BY <2>1, <2>2, <3>2, <3>3 DEF Typed, TypeOK, JobStates
    <3>5. Bounds'
      BY <2>1, <3>2, <3>3 DEF Typed, Bounds
    <3>6. Shape'
      BY <2>1, <3>1, <3>2, <3>3 DEF Typed, Shape, InTurn, Folding
    <3> QED BY <2>1, <3>4, <3>5, <3>6 DEF Typed
  <2> QED BY <2>3, <2>4
<1> QED BY <1>2, <1>3, <1>4

\* A step of the history alone.
LEMMA HistoryTyped ==
  ASSUME Typed, log' \in Seq(Event), Len(log') >= Len(log), seq' \in [Inputs -> 0..Len(log')],
         status' \in [Inputs -> Status], admitEpoch' \in [Inputs -> 0..MaxEpoch],
         pending' \in Seq(Inputs), att.phase = "idle" => pending' = <<>>,
         UNCHANGED <<boundary, epoch, closed, converting, members, att, fold, jobs, jobState, stopped, summarised>>
  PROVE  Typed'
<1>1. Len(log) \in Nat /\ Len(log') \in Nat
  BY LenProperties DEF Typed, TypeOK
<1>2. boundary' \in 0..Len(log') /\ summarised' \subseteq 1..Len(log')
  <2>1. boundary' \in 0..Len(log) /\ summarised' \subseteq 1..Len(log)
    BY DEF Typed, TypeOK
  <2> QED BY <1>1, <2>1
<1>3. TypeOK'
  BY <1>2 DEF Typed, TypeOK
<1>4. Bounds'
  <2>1. /\ att.seen \cup att.owned \cup fold.span \subseteq 1..Len(log)
        /\ {att.mark, att.floor, fold.cut} \subseteq 0..Len(log)
        /\ fold.cut # 0 => boundary < fold.cut
    BY DEF Typed, Bounds
  <2> QED BY <1>1, <2>1 DEF Bounds
<1>5. Shape'
  BY DEF Typed, Shape, InTurn, Folding
<1> QED BY <1>3, <1>4, <1>5 DEF Typed

LEMMA AdmitTyped ==
  ASSUME Typed, NEW i \in Inputs, NEW l \in Seq(Event), NEW s \in [Inputs -> 0..Len(l)],
         Len(l) >= Len(log), Admit(i, l, s), log' = l, seq' = s,
         UNCHANGED <<boundary, epoch, closed, converting, fold, jobs, jobState, stopped, summarised>>
  PROVE  Typed'
<1>1. CASE closed
  <2>1. /\ status' = [status EXCEPT ![i] = "fenced"]
        /\ UNCHANGED <<pending, members, att, admitEpoch>>
    BY <1>1 DEF Admit
  <2>2. status' \in [Inputs -> Status]
    BY <2>1 DEF Typed, TypeOK, Status, Settled
  <2>3. pending' \in Seq(Inputs) /\ admitEpoch' \in [Inputs -> 0..MaxEpoch]
        /\ (att.phase = "idle" => pending' = <<>>)
    BY <2>1 DEF Typed, TypeOK, Shape
  <2> QED BY <2>1, <2>2, <2>3, HistoryTyped
<1>2. CASE ~closed
  <2>1. admitEpoch' \in [Inputs -> 0..MaxEpoch]
    <3>1. epoch \in 0..MaxEpoch
      BY LaneAssumption DEF Typed, TypeOK
    <3>2. admitEpoch' = [admitEpoch EXCEPT ![i] = epoch]
      BY <1>2 DEF Admit
    <3> QED BY <3>1, <3>2 DEF Typed, TypeOK
  <2>2. CASE Running
    <3>1. /\ pending' = Append(pending, i)
          /\ status' = [status EXCEPT ![i] = "admitted"]
          /\ UNCHANGED <<members, att>>
      BY <1>2, <2>2 DEF Admit, Enqueue
    <3>2. pending' \in Seq(Inputs)
      BY <3>1, AppendProperties DEF Typed, TypeOK
    <3>3. status' \in [Inputs -> Status] /\ att.phase # "idle"
      BY <2>2, <3>1 DEF Typed, TypeOK, Status, Running
    <3> QED BY <2>1, <3>1, <3>2, <3>3, HistoryTyped
  <2>3. CASE ~Running
    <3>1. StartTurn(l, s, <<i>>) /\ att.phase \in {"idle", "pass"}
      BY <1>2, <2>3 DEF Admit, Running
    <3>2. <<i>> \in Seq(Inputs) /\ <<i>> # <<>>
      OBVIOUS
    <3> QED BY <2>1, <3>1, <3>2, StartTurnTyped
  <2> QED BY <2>2, <2>3
<1> QED BY <1>1, <1>2

\* A stored input has the last seq.
LEMMA StoreGrows ==
  ASSUME TypeOK, NEW i \in Inputs, log' = Append(log, User), seq' = [seq EXCEPT ![i] = Len(log) + 1]
  PROVE  /\ Grows(log) /\ log' \in Seq(Event) /\ Len(log) \in Nat /\ Len(log') = Len(log) + 1
         /\ log'[Len(log) + 1] = User
         /\ seq' \in [Inputs -> 0..Len(log')]
<1>1. User \in Event /\ User.anchor <= Len(log) /\ Len(log) \in Nat
  BY LenProperties DEF User, Event, TypeOK
<1>2. log' \in Seq(Event) /\ Len(log') = Len(log) + 1 /\ log'[Len(log) + 1] = User
  BY <1>1, AppendProperties DEF TypeOK
<1>3. Grows(log)
  BY <1>1 DEF Grows
<1>4. seq' \in [Inputs -> 0..Len(log')]
  <2>1. seq \in [Inputs -> 0..Len(log)]
    BY DEF TypeOK
  <2>2. \A j \in Inputs : seq'[j] \in 0..(Len(log) + 1)
    BY <1>1, <2>1
  <2>3. seq' = [j \in Inputs |-> seq'[j]]
    BY <2>1
  <2> QED BY <1>2, <2>2, <2>3
<1> QED BY <1>1, <1>2, <1>3, <1>4

LEMMA IntakeTyped ==
  ASSUME Typed, Intake \/ NextTurn
  PROVE  Typed' /\ Grows(log)
<1>1. CASE AppendNote
  <2>1. Note(0) \in Event /\ Note(0).anchor <= Len(log) /\ Len(log) \in Nat
    BY LenProperties DEF Note, Event, Typed, TypeOK
  <2>2. Grows(log)
    BY <1>1, <2>1 DEF AppendNote, Grows
  <2>3. log' \in Seq(Event) /\ Len(log') >= Len(log) /\ Len(log') \in Nat
    BY <2>2, GrowsHolds DEF Typed, TypeOK
  <2>4. UNCHANGED <<seq, boundary, epoch, closed, status, pending, converting, members, att, fold,
                    jobs, jobState, admitEpoch, stopped, summarised>>
    BY <1>1 DEF AppendNote, lane, compact, history
  <2>5. seq' \in [Inputs -> 0..Len(log')]
    <3>1. seq \in [Inputs -> 0..Len(log)] /\ seq' = seq
      BY <2>4 DEF Typed, TypeOK
    <3>2. \A j \in Inputs : seq'[j] \in 0..Len(log')
      BY <2>1, <2>3, <3>1
    <3> QED BY <3>1, <3>2
  <2>6. /\ status' \in [Inputs -> Status] /\ admitEpoch' \in [Inputs -> 0..MaxEpoch]
        /\ pending' \in Seq(Inputs) /\ (att.phase = "idle" => pending' = <<>>)
    BY <2>4 DEF Typed, TypeOK, Shape
  <2> QED BY <2>2, <2>3, <2>4, <2>5, <2>6, HistoryTyped
<1>2. ASSUME NEW i \in Inputs, StoreTrigger(i) PROVE Typed' /\ Grows(log)
  <2>1. UNCHANGED <<boundary, epoch, closed, pending, converting, members, att, fold,
                    jobs, jobState, admitEpoch, stopped, summarised>>
    BY <1>2 DEF StoreTrigger, lane, compact, history
  <2>2. /\ Grows(log) /\ log' \in Seq(Event) /\ Len(log) \in Nat /\ Len(log') = Len(log) + 1
        /\ seq' \in [Inputs -> 0..Len(log')]
    BY <1>2, StoreGrows DEF StoreTrigger, Typed
  <2>3. status' \in [Inputs -> Status]
    BY <1>2 DEF StoreTrigger, Status, Typed, TypeOK
  <2>4. /\ admitEpoch' \in [Inputs -> 0..MaxEpoch] /\ pending' \in Seq(Inputs)
        /\ (att.phase = "idle" => pending' = <<>>)
    BY <2>1 DEF Typed, TypeOK, Shape
  <2>5. Len(log') >= Len(log)
    BY <2>2
  <2> QED BY <2>1, <2>2, <2>3, <2>4, <2>5, HistoryTyped
<1>3. ASSUME NEW i \in Inputs, Submit(i) PROVE Typed' /\ Grows(log)
  <2>1. /\ Admit(i, log', seq')
        /\ UNCHANGED <<boundary, epoch, closed, converting, fold, jobs, jobState, stopped, summarised>>
    BY <1>3 DEF Submit, compact
  <2>2. /\ Grows(log) /\ log' \in Seq(Event) /\ Len(log) \in Nat /\ Len(log') = Len(log) + 1
        /\ seq' \in [Inputs -> 0..Len(log')]
    <3>1. log' = Append(log, User) /\ seq' = [seq EXCEPT ![i] = Len(log')]
      BY <1>3 DEF Submit, SeqOfLast
    <3>2. Len(log') = Len(log) + 1
      <4>1. User \in Event
        BY DEF User, Event
      <4> QED BY <3>1, <4>1, AppendProperties DEF Typed, TypeOK
    <3> QED BY <3>1, <3>2, StoreGrows DEF Typed
  <2>3. Len(log') >= Len(log)
    BY <2>2
  <2> QED BY <2>1, <2>2, <2>3, AdmitTyped
<1>4. ASSUME NEW i \in Inputs, SubmitPersisted(i) PROVE Typed' /\ Grows(log)
  <2>1. /\ Admit(i, log, seq) /\ log' = log /\ seq' = seq
        /\ UNCHANGED <<boundary, epoch, closed, converting, fold, jobs, jobState, stopped, summarised>>
    BY <1>4 DEF SubmitPersisted, compact, store
  <2>2. Grows(log) /\ log \in Seq(Event) /\ seq \in [Inputs -> 0..Len(log)] /\ Len(log) >= Len(log)
    BY <2>1, LenProperties DEF Grows, Typed, TypeOK
  <2> QED BY <2>1, <2>2, AdmitTyped
<1>5. CASE NextTurn
  <2>1. /\ StartTurn(log, seq, pending) /\ log' = log /\ seq' = seq /\ pending # <<>> /\ att.phase = "pass"
        /\ UNCHANGED <<boundary, epoch, closed, converting, fold, jobs, jobState, admitEpoch, stopped, summarised>>
    BY <1>5 DEF NextTurn, compact, store, history
  <2>2. /\ Grows(log) /\ log \in Seq(Event) /\ seq \in [Inputs -> 0..Len(log)] /\ Len(log) >= Len(log)
        /\ pending \in Seq(Inputs) /\ admitEpoch' \in [Inputs -> 0..MaxEpoch]
    BY <2>1, LenProperties DEF Grows, Typed, TypeOK
  <2> QED BY <2>1, <2>2, StartTurnTyped
<1> QED BY <1>1, <1>2, <1>3, <1>4, <1>5 DEF Intake

LEMMA InitTyped == Init => Typed
<1> SUFFICES ASSUME Init PROVE Typed
  OBVIOUS
<1>1. Lull("idle") \in Attempt /\ Lull("idle").phase = "idle" /\ Lull("idle").seen = {}
      /\ Lull("idle").owned = {} /\ Lull("idle").mark = 0 /\ Lull("idle").floor = 0
  BY LullFacts DEF Phases
<1>2. NoFold \in Fold /\ NoFold.why = "none" /\ NoFold.cut = 0 /\ NoFold.span = {}
  BY FoldFacts
<1>3. Len(<<>>) = 0 /\ epoch \in 1..MaxEpoch
  BY LaneAssumption DEF Init
<1>4. TypeOK
  <2>1. /\ log = <<>> /\ pending = <<>> /\ converting = <<>> /\ members = <<>> /\ jobs = <<>>
        /\ boundary = 0 /\ closed = FALSE /\ stopped = {} /\ summarised = {}
        /\ att = Lull("idle") /\ fold = NoFold
    BY DEF Init
  <2>2. seq \in [Inputs -> 0..Len(log)] /\ status \in [Inputs -> Status]
        /\ jobState \in [Jobs -> {"new", "queued", "running", "resolved", "rejected"}]
    BY <1>3, <2>1 DEF Init, Status
  <2>3. admitEpoch \in [Inputs -> 0..MaxEpoch]
    BY LaneAssumption DEF Init
  <2>4. boundary \in 0..Len(log)
    BY <1>3, <2>1
  <2>5. /\ log \in Seq(Event) /\ pending \in Seq(Inputs) /\ members \in Seq(Inputs) /\ jobs \in Seq(Jobs)
        /\ converting \in Seq([input : Inputs, epoch : 1..MaxEpoch])
    BY <2>1, EmptySeq
  <2>6. /\ closed \in BOOLEAN /\ stopped \subseteq Inputs /\ summarised \subseteq 1..Len(log)
        /\ att \in Attempt /\ fold \in Fold
    BY <1>1, <1>2, <2>1
  <2> QED BY <1>3, <2>2, <2>3, <2>4, <2>5, <2>6 DEF TypeOK
<1>5. Bounds
  BY <1>1, <1>2, <1>3 DEF Init, Bounds
<1>6. Shape
  BY <1>1, <1>2 DEF Init, Shape, InTurn, Folding
<1> QED BY <1>4, <1>5, <1>6 DEF Typed

LEMMA NextTyped ==
  ASSUME Typed, Epochs, HeldOnce, StoredOnce, [Next]_vars
  PROVE  Typed' /\ Grows(log)
<1>1. CASE EnterModel \/ AfterLanding \/ RunJob \/ Rest \/ ApplySettings \/ ClaimSteers
  <2>1. log' = log
    BY <1>1 DEF EnterModel, AfterLanding, RunJob, Rest, ApplySettings, ClaimSteers, store
  <2> QED BY <1>1, <2>1, QuietTyped DEF Grows
<1>2. CASE Convert
  BY <1>2, ConvertTyped DEF Convert, store, Grows
<1>3. CASE Stop \/ Shutdown \/ \E j \in Jobs : RequestCompact(j)
  BY <1>3, OperatorTyped DEF Grows
<1>4. CASE UNCHANGED vars
  BY <1>4 DEF vars, store, lane, compact, history, Grows, Typed, TypeOK, Bounds, Shape, InTurn, Folding
<1> QED BY <1>1, <1>2, <1>3, <1>4, TurnTyped, FoldTyped, IntakeTyped DEF Next, Turn, Drain, Operator, Done

-----------------------------------------------------------------------------
(* How inputs move.  A step leaves them where they are, ends a turn, lets the *)
(* queue join the turn, begins one, or is one of the four actions below that  *)
(* are about inputs themselves.                                               *)

\* The attempt has read what it had.
SameReads == /\ att'.seen = att.seen /\ att'.owned = att.owned
             /\ att'.mark = att.mark /\ att'.floor = att.floor

\* No claimed steer can join any more.
NoSteers == \A k \in DOMAIN converting : converting[k].epoch # epoch

\* No input moves; authority may, and an attempt that has members keeps what it has read.
Still ==
    /\ UNCHANGED <<seq, pending, converting, members, status, admitEpoch, stopped>>
    /\ epoch' \in {epoch, epoch + 1}
    /\ att'.epoch \in {0, att.epoch} /\ (members # <<>> => att'.epoch = att.epoch /\ SameReads)
    /\ NoSteers \/ (att'.phase = att.phase /\ att'.epoch = att.epoch)

\* A turn is over: its members are settled.
Ends(o) ==
    /\ UNCHANGED <<seq, epoch, pending, converting, admitEpoch>>
    /\ members' = <<>> /\ status' = Settle(In(members), o) /\ stopped' = stopped \ In(members)
    /\ att'.epoch \in {0, att.epoch} /\ NoSteers
    /\ o = "fenced" => ~Authority
    /\ o = "completed" => Land

\* The next attempt of a turn takes the front of the queue in.
Joins ==
    /\ UNCHANGED <<log, seq, epoch, converting, status, admitEpoch, stopped>>
    /\ Admits(att', log, seq, pending', members')
    /\ \E m \in Seq(Inputs) : Parts(pending, m, pending') /\ members' = members \o m
    /\ att'.epoch = att.epoch /\ NoSteers
    /\ Authority \/ Fallbacks # 0

\* What is left of the queue p when a turn begins with its first inputs m.
Begun(p, m) ==
    /\ m \in Seq(Inputs) /\ m # <<>> /\ Parts(p, m, pending')
    /\ \/ /\ members' = m /\ att'.epoch = epoch /\ Admits(att', log', seq', pending', m)
          /\ status' = [i \in Inputs |-> IF i \in In(m) THEN "admitted" ELSE status[i]]
       \/ /\ members' = <<>> /\ att'.epoch = 0
          /\ status' = Settle(In(m), "error")

\* The drain loop claims the front of the queue.
Begins ==
    /\ UNCHANGED <<seq, epoch, converting, admitEpoch, stopped>>
    /\ members = <<>> /\ NoSteers
    /\ \E m \in Seq(Inputs) : Begun(pending, m)

\* An input is submitted: refused by a lane that is closed, queued, or claimed at once.
Arrives(i) ==
    /\ UNCHANGED <<epoch, converting, stopped>>
    /\ \/ status[i] = "new" /\ i \notin Late /\ seq' = [seq EXCEPT ![i] = Len(log) + 1] /\ log' = Append(log, User)
       \/ status[i] = "stored" /\ seq' = seq
    /\ \/ /\ status' = [status EXCEPT ![i] = "fenced"]
          /\ UNCHANGED <<pending, members, att, admitEpoch>>
       \/ /\ admitEpoch' = [admitEpoch EXCEPT ![i] = epoch]
          /\ \/ /\ pending' = Append(pending, i)
                /\ status' = [status EXCEPT ![i] = "admitted"]
                /\ UNCHANGED <<members, att>>
             \/ /\ pending = <<>> /\ members = <<>> /\ NoSteers
                /\ \E m \in Seq(Inputs) : Begun(<<i>>, m)

LEMMA AwayNoSteers ==
  ASSUME Epochs, att.phase # "model" \/ ~Authority \/ ~Steering
  PROVE  NoSteers
  BY DEF Epochs, NoSteers, Authority, Steering

LEMMA OverEnds ==
  ASSUME NEW o \in Settled, Over(o), NoSteers,
         UNCHANGED <<seq, epoch, pending, converting, admitEpoch>>,
         o = "fenced" => ~Authority, o # "completed"
  PROVE  Ends(o)
<1>1. att'.epoch = 0
  BY LullFacts DEF Over, Phases
<1> QED BY <1>1 DEF Over, Ends

LEMMA NextAttemptJoins ==
  ASSUME pending \in Seq(Inputs), members \in Seq(Inputs), NEW rec, NextAttempt(rec), NoSteers,
         UNCHANGED <<log, seq, epoch, converting, admitEpoch>>, att'.epoch = att.epoch,
         Admits(att', log, seq, pending', members'),
         Authority \/ Fallbacks # 0
  PROVE  Joins
  BY NextAttemptStep DEF Joins

\* The fields a step leaves when it leaves the attempt's epoch and the lane's inputs.
LEMMA QuietMoves ==
  ASSUME Typed, Epochs,
         EnterModel \/ AfterLanding \/ RunJob \/ Rest \/ ApplySettings \/ AppendNote
           \/ (\E j \in Jobs : RequestCompact(j)) \/ (Shutdown /\ ~Busy) \/ UNCHANGED vars
  PROVE  Still
<1>1. att \in Attempt /\ (~InTurn => members = <<>>)
  BY DEF Typed, TypeOK, Shape
<1>2. CASE EnterModel
  <2>1. att.phase = "setup" /\ att'.epoch = att.epoch /\ SameReads
    BY <1>1, <1>2, PhaseFacts DEF EnterModel, Phases, SameReads
  <2>2. NoSteers
    BY <2>1, AwayNoSteers
  <2> QED BY <1>2, <2>1, <2>2 DEF EnterModel, Still, store, history
<1>3. CASE AfterLanding
  <2>1. att.phase = "landed"
    BY <1>3 DEF AfterLanding
  <2>2. members = <<>> /\ NoSteers
    BY <1>1, <2>1, AwayNoSteers DEF InTurn, Typed, Shape, Folding
  <2>3. att'.epoch \in {0, att.epoch}
    <3>1. att' = Lull("pass") \/ att' = [att EXCEPT !.phase = "folding"]
      BY <1>3 DEF AfterLanding
    <3>2. Lull("pass").epoch = 0
      BY LullFacts DEF Phases
    <3>3. [att EXCEPT !.phase = "folding"].epoch = att.epoch
      BY <1>1, PhaseFacts DEF Phases
    <3> QED BY <3>1, <3>2, <3>3
  <2> QED BY <1>3, <2>2, <2>3 DEF AfterLanding, Still, store, history
<1>4. CASE RunJob \/ Rest
  <2>1. att.phase = "pass" /\ att'.epoch = 0
    BY <1>4, LullFacts DEF RunJob, Rest, Phases
  <2>2. members = <<>> /\ NoSteers
    BY <1>1, <2>1, AwayNoSteers DEF InTurn, Typed, Shape, Folding
  <2> QED BY <1>4, <2>1, <2>2 DEF RunJob, Rest, Still, store, history
<1>5. CASE ApplySettings
  BY <1>5 DEF ApplySettings, NextEpoch, Still, SameReads, store, lane, history
<1>6. CASE AppendNote \/ UNCHANGED vars
  BY <1>6 DEF AppendNote, Still, SameReads, vars, store, lane, history
<1>7. ASSUME NEW j \in Jobs, RequestCompact(j) PROVE Still
  <2>1. UNCHANGED <<seq, epoch, status, pending, converting, members, admitEpoch, stopped>>
    BY <1>7 DEF RequestCompact, store, history
  <2>2. CASE att' = att
    BY <2>1, <2>2 DEF Still, SameReads
  <2>3. CASE ~Running /\ att' = Lull("folding")
    <3>1. att.phase = "idle" /\ att'.epoch = 0
      BY <2>3, LullFacts DEF Running, Phases
    <3>2. members = <<>> /\ NoSteers
      BY <1>1, <3>1, AwayNoSteers DEF InTurn, Typed, Shape, Folding
    <3> QED BY <2>1, <3>1, <3>2 DEF Still
  <2> QED BY <1>7, <2>2, <2>3 DEF RequestCompact
<1>8. CASE Shutdown /\ ~Busy
  BY <1>8 DEF Shutdown, Still, SameReads, store, lane, history
<1> QED BY <1>2, <1>3, <1>4, <1>5, <1>6, <1>7, <1>8

LEMMA AdvanceJoins ==
  ASSUME Typed, Advance, att.phase \in {"setup", "model"}, NoSteers,
         UNCHANGED <<epoch, converting, admitEpoch>>
  PROVE  Joins
<1> DEFINE rec == [att EXCEPT !.misses = @ + 1]
<1>1. rec \in Attempt /\ rec.owned = att.owned /\ rec.epoch = att.epoch /\ Fallbacks # 0
  <2>1. att \in Attempt /\ Fallbacks # 0
    BY LaneAssumption DEF Advance, Typed, TypeOK, Attempt
  <2> QED BY <2>1, MissFacts
<1> HIDE DEF rec
<1>2. NextAttempt(rec) /\ UNCHANGED <<log, seq, fold>> /\ members # <<>>
  BY DEF Advance, store, rec, Typed, Shape, InTurn
<1>3. pending \in Seq(Inputs) /\ members \in Seq(Inputs)
  BY DEF Typed, TypeOK
<1>4. att'.epoch = att.epoch /\ Admits(att', log, seq, pending', members')
  BY <1>1, <1>2, NextAttemptAdmits
<1> QED BY <1>1, <1>2, <1>3, <1>4, NextAttemptJoins

LEMMA TurnMoves ==
  ASSUME Typed, Epochs, Fence \/ SetupFails \/ ModelFails \/ JournalFails \/ Land \/ Overflow
  PROVE  Still \/ Joins \/ \E o \in Settled : Ends(o)
<1>0. NoSteers
  BY AwayNoSteers DEF Fence, SetupFails, ModelFails, JournalFails, Land, Overflow
<1>1. ASSUME Fail, UNCHANGED <<epoch, converting, admitEpoch>> PROVE Ends("error")
  <2>1. /\ Over("error") /\ UNCHANGED <<seq, epoch, pending, converting, admitEpoch>>
        /\ "error" \in Settled
    BY <1>1 DEF Fail, Settled
  <2> QED BY <1>0, <2>1, OverEnds
<1>2. CASE Fence
  <2>1. /\ Over("fenced") /\ ~Authority /\ UNCHANGED <<seq, epoch, pending, converting, admitEpoch>>
        /\ "fenced" \in Settled
    BY <1>2 DEF Fence, store, Settled
  <2> QED BY <1>0, <2>1, OverEnds
<1>3. CASE JournalFails
  <2>1. /\ Over("error") /\ UNCHANGED <<seq, epoch, pending, converting, admitEpoch>>
        /\ "error" \in Settled
    BY <1>3 DEF JournalFails, store, Settled
  <2> QED BY <1>0, <2>1, OverEnds
<1>4. CASE SetupFails \/ ModelFails
  <2>1. (Advance \/ Fail) /\ att.phase \in {"setup", "model"} /\ UNCHANGED <<epoch, converting, admitEpoch>>
    BY <1>4 DEF SetupFails, ModelFails
  <2> QED BY <1>0, <1>1, <2>1, AdvanceJoins DEF Settled
<1>5. CASE Land
  <2>1. att'.epoch = att.epoch
    BY <1>5, PhaseFacts DEF Land, Phases, Typed, TypeOK
  <2> QED BY <1>0, <1>5, <2>1 DEF Land, Ends, Settled
<1>6. CASE Overflow
  <2>1. CASE Fail
    BY <1>1, <1>6, <2>1 DEF Overflow, Settled
  <2>2. CASE att' = [att EXCEPT !.phase = "folding"] /\ UNCHANGED <<store, status, pending, members, stopped>>
    <3>1. att'.epoch = att.epoch /\ SameReads
      BY <2>2, PhaseFacts DEF Phases, Typed, TypeOK, SameReads
    <3> QED BY <1>0, <1>6, <2>2, <3>1 DEF Overflow, Still, store
  <2> QED BY <1>6, <2>1, <2>2 DEF Overflow
<1> QED BY <1>2, <1>3, <1>4, <1>5, <1>6 DEF Settled

LEMMA FoldMoves ==
  ASSUME Typed, Epochs, ReadFold \/ CommitFold \/ LoseFold
  PROVE  Still \/ Joins \/ \E o \in Settled : Ends(o)
<1>1. Folding /\ NoSteers /\ UNCHANGED <<seq, epoch, converting, admitEpoch>>
  BY AwayNoSteers DEF ReadFold, CommitFold, LoseFold, Folding
<1>2. ASSUME NEW outcome, AfterFold(outcome) PROVE Still \/ Joins \/ Ends("fenced") \/ Ends("error")
  <2>1. CASE /\ fold.why \in {"manual", "threshold"} /\ att' = Lull("pass")
             /\ UNCHANGED <<log, status, pending, members, stopped>>
    <3>1. members = <<>>
      BY <1>1, <2>1 DEF Typed, Shape, InTurn, Folding
    <3>2. att'.epoch = 0
      BY <2>1, LullFacts DEF Phases
    <3> QED BY <1>1, <2>1, <3>1, <3>2 DEF Still
  <2>2. CASE ~Authority /\ Over("fenced") /\ UNCHANGED <<log, pending>>
    <3>1. "fenced" \in Settled /\ UNCHANGED pending
      BY <2>2 DEF Settled
    <3> QED BY <1>1, <2>2, <3>1, OverEnds
  <2>3. CASE Over("error") /\ UNCHANGED pending
    <3>1. "error" \in Settled
      BY DEF Settled
    <3> QED BY <1>1, <2>3, <3>1, OverEnds
  <2>4. CASE fold.why \in {"overflow", "preempt"} /\ Authority /\ NextAttempt(Refolded) /\ UNCHANGED log
    <3>1. members # <<>>
      BY <2>4 DEF Typed, Shape, InTurn
    <3>2. Refolded \in Attempt /\ Refolded.owned = att.owned /\ Refolded.epoch = att.epoch
      BY DEF Typed, TypeOK, Refolded, Attempt
    <3>3. att'.epoch = att.epoch /\ Admits(att', log, seq, pending', members')
      BY <2>4, <3>1, <3>2, NextAttemptAdmits
    <3>4. pending \in Seq(Inputs) /\ members \in Seq(Inputs)
      BY DEF Typed, TypeOK
    <3> QED BY <1>1, <2>4, <3>3, <3>4, NextAttemptJoins
  <2> QED BY <1>2, <2>1, <2>2, <2>3, <2>4 DEF AfterFold
<1>3. CASE UNCHANGED <<status, pending, members, att, stopped>>
  BY <1>1, <1>3 DEF Still, SameReads
<1> QED BY <1>2, <1>3 DEF ReadFold, CommitFold, LoseFold, Settled

LEMMA IntakeMoves ==
  ASSUME Typed, Epochs, NextTurn \/ \E i \in Inputs : Submit(i) \/ SubmitPersisted(i)
  PROVE  Begins \/ \E i \in Inputs : Arrives(i)
<1>0. boundary \in 0..Len(log')
  <2>1. log' = log \/ log' = Append(log, User)
    BY DEF NextTurn, Submit, SubmitPersisted, store
  <2>2. User \in Event /\ log \in Seq(Event) /\ boundary \in 0..Len(log)
    BY DEF Typed, TypeOK, User, Event
  <2>3. Len(log) \in Nat /\ Len(Append(log, User)) = Len(log) + 1
    BY <2>2, AppendProperties, LenProperties
  <2> QED BY <2>1, <2>2, <2>3
<1>1. ASSUME NEW l \in Seq(Event), NEW s \in [Inputs -> 0..Len(l)], NEW p \in Seq(Inputs), p # <<>>,
             StartTurn(l, s, p), log' = l, seq' = s
      PROVE  \E m \in Seq(Inputs) : Begun(p, m)
  <2> DEFINE rec == Fresh(p[1])
  <2>1. rec \in Attempt /\ rec.owned = {} /\ rec.epoch = epoch
    <3>1. epoch \in Nat
      BY DEF Typed, TypeOK
    <3> QED BY <3>1 DEF Fresh, Lull, Attempt, Phases
  <2> HIDE DEF rec
  <2>2. PICK m \in Seq(Inputs) :
            /\ m # <<>> /\ Parts(p, m, pending')
            /\ \/ /\ members' = m
                  /\ att' = Admission(l, s, pending', m, rec)
                  /\ status' = [i \in Inputs |-> IF i \in In(m) THEN "admitted" ELSE status[i]]
               \/ /\ members' = <<>>
                  /\ att' = Lull("pass")
                  /\ status' = Settle(In(m), "error")
    BY <1>1, StartTurnStep DEF rec
  <2>3. /\ Admission(l, s, pending', m, rec).epoch = rec.epoch
        /\ Admits(Admission(l, s, pending', m, rec), l, s, pending', m)
    <3>1. m # <<>> /\ pending' \in Seq(Inputs) /\ rec \in Attempt /\ rec.owned \subseteq 1..Len(l)
      BY <2>1, <2>2 DEF Parts
    <3>2. boundary \in 0..Len(l)
      BY <1>0, <1>1
    <3> QED BY ONLY <3>1, <3>2, AdmissionHolds, l \in Seq(Event), s \in [Inputs -> 0..Len(l)], m \in Seq(Inputs)
  <2>4. Lull("pass").epoch = 0
    BY LullFacts DEF Phases
  <2>5. log' = l /\ seq' = s
    BY <1>1
  <2> QED BY <2>1, <2>2, <2>3, <2>4, <2>5 DEF Begun
<1>2. ~Running \/ att.phase = "pass" => NoSteers /\ members = <<>>
  BY AwayNoSteers DEF Running, Typed, Shape, InTurn, Folding
<1>3. CASE NextTurn
  <2>1. log \in Seq(Event) /\ seq \in [Inputs -> 0..Len(log)] /\ pending \in Seq(Inputs)
    BY DEF Typed, TypeOK
  <2>2. StartTurn(log, seq, pending) /\ pending # <<>> /\ log' = log /\ seq' = seq
    BY <1>3 DEF NextTurn, store
  <2>3. \E m \in Seq(Inputs) : Begun(pending, m)
    BY <1>1, <2>1, <2>2
  <2> QED BY <1>2, <1>3, <2>2, <2>3 DEF NextTurn, Begins, history
<1>4. ASSUME NEW i \in Inputs, NEW l \in Seq(Event), NEW s \in [Inputs -> 0..Len(l)],
             Admit(i, l, s), log' = l, seq' = s, UNCHANGED <<epoch, converting, stopped>>,
             \/ status[i] = "new" /\ i \notin Late /\ seq' = [seq EXCEPT ![i] = Len(log) + 1] /\ log' = Append(log, User)
             \/ status[i] = "stored" /\ seq' = seq
      PROVE  Arrives(i)
  <2>1. CASE closed
    BY <1>4, <2>1 DEF Admit, Arrives
  <2>2. CASE ~closed /\ Running
    BY <1>4, <2>2 DEF Admit, Arrives, Enqueue
  <2>3. CASE ~closed /\ ~Running
    <3>1. StartTurn(l, s, <<i>>) /\ admitEpoch' = [admitEpoch EXCEPT ![i] = epoch]
      BY <1>4, <2>3 DEF Admit
    <3>2. <<i>> \in Seq(Inputs) /\ <<i>> # <<>>
      OBVIOUS
    <3>3. \E m \in Seq(Inputs) : Begun(<<i>>, m)
      BY <1>1, <1>4, <3>1, <3>2
    <3>4. pending = <<>>
      BY <2>3 DEF Running, Typed, Shape
    <3> QED BY <1>2, <1>4, <2>3, <3>1, <3>3, <3>4 DEF Arrives
  <2> QED BY <2>1, <2>2, <2>3
<1>5. ASSUME NEW i \in Inputs, Submit(i) PROVE Arrives(i)
  <2>1. /\ log' = Append(log, User) /\ seq' = [seq EXCEPT ![i] = Len(log')]
        /\ Admit(i, log', seq') /\ UNCHANGED <<epoch, converting, stopped>>
        /\ status[i] = "new" /\ i \notin Late
    BY <1>5 DEF Submit, SeqOfLast
  <2>2. Len(log') = Len(log) + 1
    <3>1. User \in Event
      BY DEF User, Event
    <3> QED BY <2>1, <3>1, AppendProperties DEF Typed, TypeOK
  <2>3. log' \in Seq(Event) /\ seq' \in [Inputs -> 0..Len(log')]
    BY <2>1, <2>2, StoreGrows DEF Typed
  <2> QED BY <1>4, <2>1, <2>2, <2>3
<1>6. ASSUME NEW i \in Inputs, SubmitPersisted(i) PROVE Arrives(i)
  <2>1. log \in Seq(Event) /\ seq \in [Inputs -> 0..Len(log)]
    BY DEF Typed, TypeOK
  <2> QED BY <1>4, <1>6, <2>1 DEF SubmitPersisted, store
<1> QED BY <1>3, <1>5, <1>6

\* How the lane's inputs move in a step.
LEMMA Moves ==
  ASSUME Typed, Epochs, [Next]_vars
  PROVE  \/ Still \/ Joins \/ Begins \/ (\E o \in Settled : Ends(o))
         \/ (\E i \in Inputs : Arrives(i) \/ StoreTrigger(i))
         \/ ClaimSteers \/ Convert \/ StopLane
  BY QuietMoves, TurnMoves, FoldMoves, IntakeMoves
     DEF Next, Turn, Drain, Operator, Intake, Done, Stop, Shutdown

-----------------------------------------------------------------------------
(* Where an input is. *)

LEMMA HeldTypes ==
  ASSUME TypeOK
  PROVE  /\ pending \in Seq(Inputs) /\ members \in Seq(Inputs)
         /\ In(pending) \subseteq Inputs /\ In(members) \subseteq Inputs
         /\ Steers \subseteq Inputs /\ Current \subseteq Steers
<1>1. pending \in Seq(Inputs) /\ members \in Seq(Inputs)
      /\ converting \in Seq([input : Inputs, epoch : 1..MaxEpoch])
  BY DEF TypeOK
<1>2. /\ \A k \in DOMAIN pending : pending[k] \in Inputs
      /\ \A k \in DOMAIN members : members[k] \in Inputs
      /\ \A k \in DOMAIN converting : converting[k] \in [input : Inputs, epoch : 1..MaxEpoch]
  BY <1>1, ElementOfSeq, LenProperties
<1> QED BY <1>1, <1>2 DEF In, Steers, Current

\* The conversion at the head of the line is the one that returns.
LEMMA ConvertSteers ==
  ASSUME Typed, HeldOnce, Convert
  PROVE  /\ converting # <<>> /\ 1 \in DOMAIN converting /\ Head(converting) = converting[1]
         /\ Head(converting).input \in Steers
         /\ Head(converting).epoch = epoch => Head(converting).input \in Current
         /\ Steers' = Steers \ {Head(converting).input}
         /\ Current' = Current \ {Head(converting).input}
         /\ \A k \in DOMAIN converting' : k + 1 \in DOMAIN converting /\ converting'[k] = converting[k + 1]
         /\ \A k \in DOMAIN converting' : k \in Nat
<1> DEFINE i == Head(converting).input
<1>1. /\ converting # <<>> /\ Head(converting) = converting[1] /\ 1 \in DOMAIN converting
      /\ DOMAIN converting' = 1..(Len(converting) - 1) /\ DOMAIN converting = 1..Len(converting)
      /\ Len(converting) \in Nat
      /\ \A k \in DOMAIN converting' : k + 1 \in DOMAIN converting /\ converting'[k] = converting[k + 1]
  BY TailHolds DEF Convert, Typed, TypeOK
<1>2. ASSUME NEW k \in DOMAIN converting, k # 1
      PROVE  k - 1 \in DOMAIN converting' /\ converting'[k - 1] = converting[k]
  BY <1>1, <1>2
<1>3. \A j, k \in DOMAIN converting : converting[j].input = converting[k].input => j = k
  BY DEF HeldOnce
<1>4. epoch' = epoch
  BY DEF Convert
<1>5. \A k \in DOMAIN converting' : converting'[k].input \in Steers \ {i}
  BY <1>1, <1>3 DEF Steers
<1>6. \A k \in DOMAIN converting : converting[k].input # i => converting[k].input \in Steers'
  BY <1>1, <1>2 DEF Steers
<1>7. \A k \in DOMAIN converting' : converting'[k].epoch = epoch => converting'[k].input \in Current \ {i}
  BY <1>1, <1>3 DEF Current
<1>8. \A k \in DOMAIN converting : converting[k].input # i /\ converting[k].epoch = epoch => converting[k].input \in Current'
  BY <1>1, <1>2, <1>4 DEF Current
<1>9. Steers' = Steers \ {i}
  BY <1>5, <1>6 DEF Steers
<1>10. Current' = Current \ {i}
  BY <1>4, <1>7, <1>8 DEF Current
<1>11. i \in Steers /\ (Head(converting).epoch = epoch => i \in Current)
  BY <1>1 DEF Steers, Current
<1>12. \A k \in DOMAIN converting' : k \in Nat
  BY <1>1
<1> QED BY <1>1, <1>9, <1>10, <1>11, <1>12

\* Claimed steers line up behind the others, in the order of the queue.
LEMMA ClaimsSteers ==
  ASSUME Typed, HeldOnce, ClaimSteers
  PROVE  \E m \in Seq(Inputs) :
            /\ Parts(pending, m, pending')
            /\ Steers' = Steers \cup In(m) /\ Current' = Current \cup In(m)
            /\ DOMAIN converting = 1..Len(converting) /\ Len(converting) \in Nat
            /\ DOMAIN m = 1..Len(m) /\ Len(m) \in Nat
            /\ DOMAIN converting' = 1..(Len(converting) + Len(m))
            /\ \A k \in 1..Len(converting) : converting'[k] = converting[k]
            /\ \A k \in 1..Len(m) : converting'[Len(converting) + k] = [input |-> m[k], epoch |-> epoch]
<1> DEFINE n == Claimable(pending, members[1], 1)
           m == Take(pending, n)
           c == [k \in 1..n |-> [input |-> pending[k], epoch |-> att.epoch]]
<1>1. n \in 0..Len(pending) /\ Len(pending) \in Nat /\ pending \in Seq(Inputs) /\ att.epoch = epoch
  BY ClaimableHolds DEF Typed, TypeOK, ClaimSteers, Authority
<1>2. m \in Seq(Inputs) /\ Len(m) = n /\ DOMAIN m = 1..n /\ \A k \in 1..n : m[k] = pending[k]
  <2> HIDE DEF n
  <2>1. m \in Seq(Inputs) /\ Len(m) = n /\ \A k \in 1..n : m[k] = pending[k]
    BY <1>1, SplitHolds
  <2> QED BY <2>1, LenProperties
<1>3. Parts(pending, m, pending')
  BY <1>1, SplitParts DEF ClaimSteers
<1>4. converting' = converting \o c
  BY DEF ClaimSteers
<1>5. epoch' = epoch
  BY DEF ClaimSteers
<1>6. n \in Nat
  BY <1>1
<1> HIDE DEF n
<1>7. c \in Seq([input : Inputs, epoch : 1..MaxEpoch]) /\ Len(c) = n
  <2>1. \A k \in 1..n : pending[k] \in Inputs
    BY <1>1, ElementOfSeq
  <2>2. epoch \in 1..MaxEpoch
    BY DEF Typed, TypeOK
  <2>3. c \in [1..n -> [input : Inputs, epoch : 1..MaxEpoch]]
    BY <1>1, <2>1, <2>2
  <2>4. c \in Seq([input : Inputs, epoch : 1..MaxEpoch])
    BY <1>6, <2>3, FunctionIsSeq
  <2>5. DOMAIN c = 1..n
    OBVIOUS
  <2>6. Len(c) = n
    BY <1>6, <2>4, <2>5, LenProperties
  <2> QED BY <2>4, <2>6
<1>8. /\ Len(converting) \in Nat /\ DOMAIN converting = 1..Len(converting)
      /\ Len(converting') = Len(converting) + n /\ DOMAIN converting' = 1..(Len(converting) + n)
      /\ \A k \in 1..(Len(converting) + n) :
            converting'[k] = IF k <= Len(converting) THEN converting[k] ELSE c[k - Len(converting)]
  <2>1. converting \in Seq([input : Inputs, epoch : 1..MaxEpoch])
    BY DEF Typed, TypeOK
  <2> HIDE DEF c
  <2>2. /\ converting' \in Seq([input : Inputs, epoch : 1..MaxEpoch])
        /\ Len(converting') = Len(converting) + n
        /\ \A k \in 1..(Len(converting) + n) :
            converting'[k] = IF k <= Len(converting) THEN converting[k] ELSE c[k - Len(converting)]
    BY <1>4, <1>7, <2>1, ConcatProperties
  <2> QED BY <2>1, <2>2, LenProperties
<1>9. \A k \in 1..Len(converting) : converting'[k] = converting[k]
  <2> HIDE DEF c
  <2> QED BY <1>6, <1>8
<1>10. ASSUME NEW k \in 1..n PROVE converting'[Len(converting) + k] = [input |-> m[k], epoch |-> epoch]
  <2>1. converting'[Len(converting) + k] = c[k]
    <3>1. Len(converting) + k \in 1..(Len(converting) + n) /\ ~(Len(converting) + k <= Len(converting))
          /\ (Len(converting) + k) - Len(converting) = k
      BY <1>6, <1>8
    <3> HIDE DEF c
    <3> QED BY <1>8, <3>1
  <2>2. c[k] = [input |-> pending[k], epoch |-> att.epoch]
    OBVIOUS
  <2> QED BY <1>1, <1>2, <2>1, <2>2
<1> HIDE DEF c, m
<1>11. \A k \in DOMAIN converting' : k \in 1..Len(converting) \/ \E j \in 1..n : k = Len(converting) + j
  <2> SUFFICES ASSUME NEW k \in DOMAIN converting', k \notin 1..Len(converting)
               PROVE  \E j \in 1..n : k = Len(converting) + j
    OBVIOUS
  <2>1. k - Len(converting) \in 1..n /\ k = Len(converting) + (k - Len(converting))
    BY <1>6, <1>8
  <2> QED BY <2>1
<1>12. \A j \in 1..n : Len(converting) + j \in DOMAIN converting'
  BY <1>6, <1>8
<1>13. \A j \in 1..Len(converting) : j \in DOMAIN converting'
  BY <1>6, <1>8
<1>14. ASSUME NEW k \in 1..n
       PROVE  converting'[Len(converting) + k].input = m[k] /\ converting'[Len(converting) + k].epoch = epoch
  <2>1. converting'[Len(converting) + k] = [input |-> m[k], epoch |-> epoch]
    BY <1>10
  <2> QED BY <2>1
<1>15. \A k \in 1..n : m[k] \in In(m)
  BY <1>2 DEF In
<1>16. Steers' = Steers \cup In(m)
  <2>1. ASSUME NEW k \in DOMAIN converting' PROVE converting'[k].input \in Steers \cup In(m)
    <3>1. CASE k \in 1..Len(converting)
      BY <1>8, <1>9, <3>1 DEF Steers
    <3>2. CASE \E j \in 1..n : k = Len(converting) + j
      BY <1>14, <1>15, <3>2
    <3> QED BY <1>11, <3>1, <3>2
  <2>2. \A k \in DOMAIN converting : converting[k].input \in Steers'
    BY <1>8, <1>9, <1>13 DEF Steers
  <2>3. ASSUME NEW k \in DOMAIN m PROVE m[k] \in Steers'
    <3>1. k \in 1..n
      BY <1>2
    <3>2. Len(converting) + k \in DOMAIN converting' /\ converting'[Len(converting) + k].input = m[k]
      BY <1>12, <1>14, <3>1
    <3>3. \A x \in DOMAIN converting' : converting'[x].input \in Steers'
      BY DEF Steers
    <3>4. converting'[Len(converting) + k].input \in Steers'
      BY <3>2, <3>3
    <3> QED BY <3>2, <3>4
  <2> QED BY <2>1, <2>2, <2>3 DEF Steers, In
<1>17. Current' = Current \cup In(m)
  <2>1. ASSUME NEW k \in DOMAIN converting', converting'[k].epoch = epoch
        PROVE  converting'[k].input \in Current \cup In(m)
    <3>1. CASE k \in 1..Len(converting)
      BY <1>8, <1>9, <2>1, <3>1 DEF Current
    <3>2. CASE \E j \in 1..n : k = Len(converting) + j
      BY <1>14, <1>15, <3>2
    <3> QED BY <1>11, <3>1, <3>2
  <2>2. \A k \in DOMAIN converting : converting[k].epoch = epoch => converting[k].input \in Current'
    BY <1>5, <1>8, <1>9, <1>13 DEF Current
  <2>3. ASSUME NEW k \in DOMAIN m PROVE m[k] \in Current'
    <3>1. k \in 1..n
      BY <1>2
    <3>2. /\ Len(converting) + k \in DOMAIN converting' /\ converting'[Len(converting) + k].input = m[k]
          /\ converting'[Len(converting) + k].epoch = epoch
      BY <1>12, <1>14, <3>1
    <3>3. \A x \in DOMAIN converting' : converting'[x].epoch = epoch' => converting'[x].input \in Current'
      BY DEF Current
    <3>4. converting'[Len(converting) + k].input \in Current'
      BY <1>5, <3>2, <3>3
    <3> QED BY <3>2, <3>4
  <2> QED BY <1>5, <2>1, <2>2, <2>3 DEF Current, In
<1> QED BY <1>2, <1>3, <1>6, <1>8, <1>9, <1>10, <1>16, <1>17

\* Every kind of step leaves each admitted input in one place.
LEMMA HeldKept ==
  ASSUME Typed, HeldOnce, Epochs, [Next]_vars
  PROVE  HeldOnce'
<1> DEFINE Apart == \A j, k \in DOMAIN converting : converting[j].input = converting[k].input => j = k
           Where == \A i \in Inputs : status[i] = "admitted" <=> i \in In(pending) \cup Steers \cup In(members)
<1>0. /\ pending \in Seq(Inputs) /\ members \in Seq(Inputs)
      /\ In(pending) \subseteq Inputs /\ In(members) \subseteq Inputs /\ Steers \subseteq Inputs
  BY HeldTypes DEF Typed
<1>1. /\ Distinct(pending) /\ Distinct(members) /\ Apart
      /\ In(pending) \cap In(members) = {}
      /\ Steers \cap (In(pending) \cup In(members)) = {}
      /\ Where
  BY DEF HeldOnce
<1>2. status \in [Inputs -> Status]
  BY DEF Typed, TypeOK
<1>3. ASSUME Distinct(pending'), Distinct(members'), Apart',
             In(pending') \cap In(members') = {},
             Steers' \cap (In(pending') \cup In(members')) = {},
             \A i \in Inputs : status'[i] = "admitted" <=> i \in In(pending') \cup Steers' \cup In(members')
      PROVE  HeldOnce'
  BY <1>3 DEF HeldOnce, In, Distinct
<1>4. converting' = converting => Steers' = Steers /\ Apart'
  BY <1>1 DEF Steers
<1> HIDE DEF Apart
<1>5. CASE Still
  BY <1>1, <1>3, <1>4, <1>5 DEF Still
<1>6. ASSUME NEW o \in Settled, Ends(o) PROVE HeldOnce'
  <2>1. /\ pending' = pending /\ members' = <<>> /\ Steers' = Steers /\ Apart'
        /\ status' = Settle(In(members), o)
    BY <1>4, <1>6 DEF Ends
  <2>2. In(members') = {} /\ Distinct(members')
    BY <2>1, EmptyHolds
  <2>3. \A i \in Inputs : status'[i] = "admitted" <=> status[i] = "admitted" /\ i \notin In(members)
    BY <1>2, <2>1 DEF Settle, Settled
  <2> QED BY <1>1, <1>3, <2>1, <2>2, <2>3
<1>7. CASE Joins
  <2>1. PICK m \in Seq(Inputs) : Parts(pending, m, pending') /\ members' = members \o m
    BY <1>7 DEF Joins
  <2>2. /\ In(pending) = In(m) \cup In(pending')
        /\ Distinct(m) /\ Distinct(pending') /\ In(m) \cap In(pending') = {}
    BY <1>1, <2>1 DEF Parts
  <2>3. In(members') = In(members) \cup In(m) /\ Distinct(members')
    BY <1>0, <1>1, <2>1, <2>2, ConcatHolds
  <2>4. status' = status /\ Steers' = Steers /\ Apart'
    BY <1>4, <1>7 DEF Joins
  <2> QED BY <1>1, <1>3, <2>2, <2>3, <2>4
<1>8. ASSUME NEW p, NEW m, Begun(p, m), Distinct(p), In(p) \subseteq Inputs,
             In(p) \cap Steers = {}, converting' = converting,
             \A i \in Inputs \ In(p) : status[i] = "admitted" <=> i \in Steers,
             \A i \in In(p) \ In(m) : status[i] = "admitted"
      PROVE  HeldOnce'
  <2>1. /\ In(p) = In(m) \cup In(pending')
        /\ Distinct(m) /\ Distinct(pending') /\ In(m) \cap In(pending') = {}
    BY <1>8 DEF Begun, Parts
  <2>2. Steers' = Steers /\ Apart'
    BY <1>4, <1>8
  <2>3. CASE /\ members' = m
             /\ status' = [i \in Inputs |-> IF i \in In(m) THEN "admitted" ELSE status[i]]
    <3>1. \A i \in Inputs : status'[i] = "admitted" <=> i \in In(m) \/ status[i] = "admitted"
      BY <2>3
    <3> QED BY <1>3, <1>8, <2>1, <2>2, <2>3, <3>1
  <2>4. CASE members' = <<>> /\ status' = Settle(In(m), "error")
    <3>1. \A i \in Inputs : status'[i] = "admitted" <=> i \notin In(m) /\ status[i] = "admitted"
      BY <2>4 DEF Settle
    <3>2. In(members') = {} /\ Distinct(members')
      BY <2>4, EmptyHolds
    <3> QED BY <1>3, <1>8, <2>1, <2>2, <3>1, <3>2
  <2> QED BY <1>8, <2>3, <2>4 DEF Begun
<1>9. CASE Begins
  <2>1. PICK m \in Seq(Inputs) : Begun(pending, m)
    BY <1>9 DEF Begins
  <2>2. members = <<>> /\ In(members) = {} /\ converting' = converting
    BY <1>9, EmptyHolds DEF Begins
  <2> QED BY <1>0, <1>1, <1>8, <2>1, <2>2
<1>10. ASSUME NEW i \in Inputs, Arrives(i) PROVE HeldOnce'
  <2>1. status[i] # "admitted" /\ i \notin In(pending) \cup Steers \cup In(members)
        /\ converting' = converting
    BY <1>1, <1>10 DEF Arrives
  <2>2. Steers' = Steers /\ Apart'
    BY <1>4, <2>1
  <2>3. CASE status' = [status EXCEPT ![i] = "fenced"] /\ UNCHANGED <<pending, members>>
    <3>1. \A j \in Inputs : status'[j] = "admitted" <=> j # i /\ status[j] = "admitted"
      BY <1>2, <2>3
    <3> QED BY <1>1, <1>3, <2>1, <2>2, <2>3, <3>1
  <2>4. CASE pending' = Append(pending, i) /\ status' = [status EXCEPT ![i] = "admitted"] /\ UNCHANGED members
    <3>1. \A j \in Inputs : status'[j] = "admitted" <=> j = i \/ status[j] = "admitted"
      BY <1>2, <2>4
    <3>2. In(pending') = In(pending) \cup {i} /\ Distinct(pending')
      BY <1>0, <1>1, <2>1, <2>4, AppendHolds
    <3> QED BY <1>1, <1>3, <2>1, <2>2, <2>4, <3>1, <3>2
  <2>5. ASSUME NEW m \in Seq(Inputs), Begun(<<i>>, m), pending = <<>>, members = <<>> PROVE HeldOnce'
    <3>1. In(<<i>>) = {i} /\ Distinct(<<i>>)
      BY DEF In, Distinct
    <3>2. In(pending) = {} /\ In(members) = {}
      BY <2>5, EmptyHolds
    <3>3. m[1] \in In(m)
      BY <2>5, EmptySeq, LenProperties DEF Begun, In
    <3>4. In(m) = {i}
      BY <2>5, <3>1, <3>3 DEF Begun, Parts
    <3> QED BY <1>1, <1>8, <2>1, <2>5, <3>1, <3>2, <3>4
  <2> QED BY <1>10, <2>3, <2>4, <2>5 DEF Arrives
<1>11. ASSUME NEW i \in Inputs, StoreTrigger(i) PROVE HeldOnce'
  <2>1. /\ status[i] = "new" /\ status' = [status EXCEPT ![i] = "stored"]
        /\ UNCHANGED <<pending, converting, members>>
    BY <1>11 DEF StoreTrigger, lane
  <2>2. \A j \in Inputs : status'[j] = "admitted" <=> status[j] = "admitted"
    BY <1>2, <2>1
  <2> QED BY <1>1, <1>3, <1>4, <2>1, <2>2
<1>12. CASE ClaimSteers
  <2>1. PICK m \in Seq(Inputs) :
            /\ Parts(pending, m, pending')
            /\ Steers' = Steers \cup In(m) /\ Current' = Current \cup In(m)
            /\ DOMAIN converting = 1..Len(converting) /\ Len(converting) \in Nat
            /\ DOMAIN m = 1..Len(m) /\ Len(m) \in Nat
            /\ DOMAIN converting' = 1..(Len(converting) + Len(m))
            /\ \A k \in 1..Len(converting) : converting'[k] = converting[k]
            /\ \A k \in 1..Len(m) : converting'[Len(converting) + k] = [input |-> m[k], epoch |-> epoch]
    BY <1>12, ClaimsSteers
  <2>2. /\ In(pending) = In(m) \cup In(pending')
        /\ Distinct(m) /\ Distinct(pending') /\ In(m) \cap In(pending') = {}
    BY <1>1, <2>1 DEF Parts
  <2>3. UNCHANGED <<status, members>>
    BY <1>12 DEF ClaimSteers
  <2>4. \A k \in 1..Len(converting) : converting'[k].input = converting[k].input /\ converting[k].input \in Steers
    BY <2>1 DEF Steers
  <2>5. ASSUME NEW k \in DOMAIN converting', k \notin 1..Len(converting)
        PROVE  /\ k - Len(converting) \in DOMAIN m /\ converting'[k].input = m[k - Len(converting)]
               /\ m[k - Len(converting)] \in In(m)
    <3>1. k - Len(converting) \in 1..Len(m) /\ k = Len(converting) + (k - Len(converting))
      BY <2>1, <2>5
    <3>2. converting'[k] = [input |-> m[k - Len(converting)], epoch |-> epoch]
      BY <2>1, <3>1
    <3> QED BY <2>1, <3>1, <3>2 DEF In
  <2>6. ASSUME NEW j \in DOMAIN converting', NEW k \in DOMAIN converting',
               converting'[j].input = converting'[k].input
        PROVE  j = k
    <3>1. CASE j \in 1..Len(converting) /\ k \in 1..Len(converting)
      BY <1>1, <2>1, <2>4, <2>6, <3>1 DEF Apart
    <3>2. CASE j \in 1..Len(converting) /\ k \notin 1..Len(converting)
      BY <1>1, <2>2, <2>4, <2>5, <2>6, <3>2
    <3>3. CASE j \notin 1..Len(converting) /\ k \in 1..Len(converting)
      BY <1>1, <2>2, <2>4, <2>5, <2>6, <3>3
    <3>4. CASE j \notin 1..Len(converting) /\ k \notin 1..Len(converting)
      <4>1. j - Len(converting) = k - Len(converting)
        BY <2>2, <2>5, <2>6, <3>4 DEF Distinct
      <4> QED BY <2>1, <4>1
    <3> QED BY <3>1, <3>2, <3>3, <3>4
  <2>7. Apart'
    BY <2>6 DEF Apart
  <2> QED BY <1>1, <1>3, <2>1, <2>2, <2>3, <2>7
<1>13. CASE Convert
  <2> DEFINE i == Head(converting).input
  <2>1. /\ i \in Steers /\ Steers' = Steers \ {i}
        /\ \A k \in DOMAIN converting' : k \in Nat /\ k + 1 \in DOMAIN converting /\ converting'[k] = converting[k + 1]
    BY <1>13, ConvertSteers
  <2>2. Apart'
    <3>1. ASSUME NEW j \in DOMAIN converting', NEW k \in DOMAIN converting',
                 converting'[j].input = converting'[k].input
          PROVE  j = k
      <4>1. j + 1 = k + 1 /\ j \in Nat /\ k \in Nat
        BY <1>1, <2>1, <3>1 DEF Apart
      <4> QED BY <4>1
    <3> QED BY <3>1 DEF Apart
  <2>3. i \in Inputs /\ pending' = pending
    BY <1>0, <1>13, <2>1 DEF Convert
  <2> HIDE DEF i
  <2>4. CASE members' = Append(members, i) /\ UNCHANGED status
    <3>1. In(members') = In(members) \cup {i} /\ Distinct(members')
      BY <1>0, <1>1, <2>1, <2>3, <2>4, AppendHolds
    <3> QED BY <1>1, <1>3, <2>1, <2>2, <2>3, <2>4, <3>1
  <2>5. CASE members' = members /\ \E o \in {"error", "fenced"} : status' = [status EXCEPT ![i] = o]
    <3>1. \A j \in Inputs : status'[j] = "admitted" <=> j # i /\ status[j] = "admitted"
      BY <1>2, <2>5
    <3> QED BY <1>1, <1>3, <2>1, <2>2, <2>3, <2>5, <3>1
  <2> QED BY <1>13, <2>4, <2>5 DEF Convert, i
<1>14. CASE StopLane
  <2>1. /\ pending' = <<>> /\ UNCHANGED <<converting, members>>
        /\ status' = Settle(In(pending), "fenced")
    BY <1>14 DEF StopLane, Dropped
  <2>2. In(pending') = {} /\ Distinct(pending')
    BY <2>1, EmptyHolds
  <2>3. \A j \in Inputs : status'[j] = "admitted" <=> j \notin In(pending) /\ status[j] = "admitted"
    BY <2>1 DEF Settle
  <2> QED BY <1>1, <1>3, <1>4, <2>1, <2>2, <2>3
<1> QED BY <1>5, <1>6, <1>7, <1>9, <1>10, <1>11, <1>12, <1>13, <1>14, Moves

\* An attempt that another one's authority overtakes has no steers to take in.
LEMMA EpochsKept ==
  ASSUME Typed, HeldOnce, Epochs, [Next]_vars
  PROVE  Epochs'
<1>1. epoch \in Nat /\ att.epoch \in Nat /\ att.epoch <= epoch
  BY DEF Typed, TypeOK, Attempt, Epochs
<1>2. /\ \A i \in Inputs : admitEpoch[i] <= epoch /\ admitEpoch[i] \in Nat
      /\ \A k \in DOMAIN converting : converting[k].epoch <= epoch /\ converting[k].epoch \in Nat
      /\ \A k \in DOMAIN converting : converting[k].epoch = epoch => att.phase = "model" /\ att.epoch = epoch
  <2>1. \A k \in DOMAIN converting : converting[k].epoch \in Nat
    <3>1. converting \in Seq([input : Inputs, epoch : 1..MaxEpoch])
      BY DEF Typed, TypeOK
    <3>2. \A k \in DOMAIN converting : converting[k] \in [input : Inputs, epoch : 1..MaxEpoch]
      BY <3>1, ElementOfSeq, LenProperties
    <3> QED BY <3>2
  <2>2. \A i \in Inputs : admitEpoch[i] \in Nat
    BY DEF Typed, TypeOK
  <2> QED BY <2>1, <2>2 DEF Epochs, Authority
<1>3. ASSUME att'.epoch <= epoch', \A i \in Inputs : admitEpoch'[i] <= epoch',
             \A k \in DOMAIN converting' :
                 /\ converting'[k].epoch <= epoch'
                 /\ converting'[k].epoch = epoch' => att'.phase = "model" /\ att'.epoch = epoch'
      PROVE  Epochs'
  BY <1>3 DEF Epochs, Authority
<1>4. CASE Still
  <2>1. /\ att'.epoch \in {0, att.epoch} /\ epoch' \in {epoch, epoch + 1}
        /\ UNCHANGED <<admitEpoch, converting>>
    BY <1>4 DEF Still
  <2>2. \A k \in DOMAIN converting : converting[k].epoch # epoch \/ (att'.phase = att.phase /\ att'.epoch = att.epoch)
    BY <1>4 DEF Still, NoSteers
  <2> QED BY <1>1, <1>2, <1>3, <2>1, <2>2
<1>5. ASSUME NEW o \in Settled, Ends(o) PROVE Epochs'
  BY <1>1, <1>2, <1>3, <1>5 DEF Ends, NoSteers
<1>6. CASE Joins
  BY <1>1, <1>2, <1>3, <1>6 DEF Joins, NoSteers
<1>7. CASE Begins
  <2>1. att'.epoch \in {0, epoch} /\ UNCHANGED <<epoch, converting, admitEpoch>> /\ NoSteers
    BY <1>7 DEF Begins, Begun
  <2> QED BY <1>1, <1>2, <1>3, <2>1 DEF NoSteers
<1>8. ASSUME NEW i \in Inputs, Arrives(i) PROVE Epochs'
  <2>1. /\ UNCHANGED <<epoch, converting>>
        /\ admitEpoch' = admitEpoch \/ admitEpoch' = [admitEpoch EXCEPT ![i] = epoch]
        /\ att' = att \/ (NoSteers /\ att'.epoch \in {0, epoch})
    BY <1>8 DEF Arrives, Begun
  <2>2. \A j \in Inputs : admitEpoch'[j] <= epoch
    <3>1. admitEpoch \in [Inputs -> 0..MaxEpoch]
      BY DEF Typed, TypeOK
    <3>2. \A j \in Inputs : admitEpoch'[j] = admitEpoch[j] \/ admitEpoch'[j] = epoch
      BY <2>1, <3>1
    <3> QED BY <1>1, <1>2, <3>2
  <2> QED BY <1>1, <1>2, <1>3, <2>1, <2>2 DEF NoSteers
<1>9. ASSUME NEW i \in Inputs, StoreTrigger(i) PROVE Epochs'
  <2>1. UNCHANGED <<epoch, converting, admitEpoch, att>>
    BY <1>9 DEF StoreTrigger, lane, history
  <2> QED BY <1>1, <1>2, <1>3, <2>1
<1>10. CASE ClaimSteers
  <2>1. PICK m \in Seq(Inputs) :
            /\ DOMAIN converting = 1..Len(converting) /\ Len(converting) \in Nat
            /\ DOMAIN m = 1..Len(m) /\ Len(m) \in Nat
            /\ DOMAIN converting' = 1..(Len(converting) + Len(m))
            /\ \A k \in 1..Len(converting) : converting'[k] = converting[k]
            /\ \A k \in 1..Len(m) : converting'[Len(converting) + k] = [input |-> m[k], epoch |-> epoch]
    BY <1>10, ClaimsSteers
  <2>2. UNCHANGED <<epoch, admitEpoch, att>> /\ att.phase = "model" /\ att.epoch = epoch
    BY <1>10 DEF ClaimSteers, history, Authority
  <2>3. ASSUME NEW k \in DOMAIN converting' PROVE converting'[k].epoch <= epoch
    <3>1. CASE k \in 1..Len(converting)
      BY <1>2, <2>1, <3>1
    <3>2. CASE k \notin 1..Len(converting)
      <4>1. k - Len(converting) \in 1..Len(m) /\ k = Len(converting) + (k - Len(converting))
        BY <2>1, <3>2
      <4>2. converting'[k] = [input |-> m[k - Len(converting)], epoch |-> epoch]
        BY <2>1, <4>1
      <4> QED BY <1>1, <4>2
    <3> QED BY <3>1, <3>2
  <2> QED BY <1>1, <1>2, <1>3, <2>2, <2>3
<1>11. CASE Convert
  <2>1. \A k \in DOMAIN converting' : k + 1 \in DOMAIN converting /\ converting'[k] = converting[k + 1]
    BY <1>11, ConvertSteers
  <2>2. UNCHANGED <<epoch, admitEpoch>> /\ att'.phase = att.phase /\ att'.epoch = att.epoch
    <3>1. att \in Attempt
      BY DEF Typed, TypeOK
    <3> QED BY <1>11, <3>1 DEF Convert, Attempt
  <2> QED BY <1>1, <1>2, <1>3, <2>1, <2>2
<1>12. CASE StopLane
  <2>1. /\ epoch' = epoch + 1 /\ UNCHANGED <<converting, admitEpoch>> /\ att'.epoch = att.epoch
    <3>1. att \in Attempt
      BY DEF Typed, TypeOK
    <3> QED BY <1>12, <3>1 DEF StopLane, NextEpoch, Attempt
  <2> QED BY <1>1, <1>2, <1>3, <2>1
<1> QED BY <1>4, <1>5, <1>6, <1>7, <1>8, <1>9, <1>10, <1>11, <1>12, Moves

\* What a step does to the status of an input, and what it stores.
Progress(j) ==
    \/ status'[j] = status[j]
    \/ status[j] \in {"stored", "admitted"} /\ status'[j] \in {"admitted"} \cup Settled

LEMMA Stores ==
  ASSUME Typed, HeldOnce, Epochs, [Next]_vars
  PROVE  \/ seq' = seq /\ \A j \in Inputs : Progress(j)
         \/ \E i \in Inputs :
               /\ status[i] = "new" /\ status'[i] # "new" /\ (status'[i] = "stored" => i \in Late)
               /\ seq' = [seq EXCEPT ![i] = Len(log) + 1] /\ log' = Append(log, User)
               /\ \A j \in Inputs \ {i} : Progress(j)
<1>0. /\ \A i \in In(pending) \cup Steers \cup In(members) : i \in Inputs /\ status[i] = "admitted"
      /\ status \in [Inputs -> Status]
  <2>1. In(pending) \subseteq Inputs /\ In(members) \subseteq Inputs /\ Steers \subseteq Inputs
    BY HeldTypes DEF Typed
  <2> QED BY <2>1 DEF HeldOnce, Typed, TypeOK
<1>1. ASSUME NEW S, S \subseteq In(pending) \cup Steers \cup In(members), NEW o \in Settled, status' = Settle(S, o)
      PROVE  \A j \in Inputs : Progress(j)
  BY <1>0, <1>1 DEF Settle, Progress
<1>2. CASE Still \/ Joins \/ ClaimSteers
  BY <1>2 DEF Still, Joins, ClaimSteers, store, Progress
<1>3. ASSUME NEW o \in Settled, Ends(o) PROVE seq' = seq /\ \A j \in Inputs : Progress(j)
  <2>1. In(members) \subseteq In(pending) \cup Steers \cup In(members)
    OBVIOUS
  <2> QED BY <1>1, <1>3, <2>1 DEF Ends
<1>4. CASE StopLane
  <2>1. In(pending) \subseteq In(pending) \cup Steers \cup In(members) /\ "fenced" \in Settled
    BY DEF Settled
  <2> QED BY <1>1, <1>4, <2>1 DEF StopLane, Dropped, store
<1>5. ASSUME NEW p, NEW m, Begun(p, m), In(p) \subseteq Inputs
      PROVE  \A j \in Inputs : status'[j] = status[j] \/ (j \in In(p) /\ status'[j] \in {"admitted", "error"})
  BY <1>5 DEF Begun, Parts, Settle
<1>6. CASE Begins
  <2>1. PICK m \in Seq(Inputs) : Begun(pending, m)
    BY <1>6 DEF Begins
  <2> QED BY <1>0, <1>5, <1>6, <2>1 DEF Begins, Progress, Settled
<1>7. CASE Convert
  <2>1. Head(converting).input \in Steers
    BY <1>7, ConvertSteers
  <2>2. seq' = seq /\ \/ status' = status
                      \/ \E o \in {"error", "fenced"} : status' = [status EXCEPT ![Head(converting).input] = o]
    BY <1>7 DEF Convert, store
  <2> QED BY <1>0, <2>1, <2>2 DEF Progress, Settled
<1>8. ASSUME NEW i \in Inputs, StoreTrigger(i)
      PROVE  /\ status[i] = "new" /\ status'[i] # "new" /\ (status'[i] = "stored" => i \in Late)
             /\ seq' = [seq EXCEPT ![i] = Len(log) + 1] /\ log' = Append(log, User)
             /\ \A j \in Inputs \ {i} : Progress(j)
  BY <1>0, <1>8 DEF StoreTrigger, Progress
<1>9. ASSUME NEW i \in Inputs, Arrives(i)
      PROVE  \/ seq' = seq /\ \A j \in Inputs : Progress(j)
             \/ /\ status[i] = "new" /\ status'[i] # "new" /\ (status'[i] = "stored" => i \in Late)
                /\ seq' = [seq EXCEPT ![i] = Len(log) + 1] /\ log' = Append(log, User)
                /\ \A j \in Inputs \ {i} : Progress(j)
  <2>1. (\A j \in Inputs \ {i} : status'[j] = status[j]) /\ status'[i] \in {"admitted", "fenced", "error"}
    <3>1. CASE \E o \in {"fenced", "admitted"} : status' = [status EXCEPT ![i] = o]
      BY <1>0, <3>1
    <3>2. ASSUME NEW m \in Seq(Inputs), Begun(<<i>>, m)
          PROVE  (\A j \in Inputs \ {i} : status'[j] = status[j]) /\ status'[i] \in {"admitted", "error"}
      <4>1. In(<<i>>) = {i}
        BY DEF In
      <4>2. m[1] \in In(m)
        BY <3>2, EmptySeq, LenProperties DEF Begun, In
      <4>3. In(m) = {i}
        BY <3>2, <4>1, <4>2 DEF Begun, Parts
      <4> QED BY <3>2, <4>3 DEF Begun, Settle
    <3> QED BY <1>9, <3>1, <3>2 DEF Arrives
  <2>2. \/ status[i] = "new" /\ seq' = [seq EXCEPT ![i] = Len(log) + 1] /\ log' = Append(log, User)
        \/ status[i] = "stored" /\ seq' = seq
    BY <1>9 DEF Arrives
  <2> QED BY <2>1, <2>2 DEF Progress, Settled
<1> QED BY <1>2, <1>3, <1>4, <1>6, <1>7, <1>8, <1>9, Moves

LEMMA StoredKept ==
  ASSUME Typed, HeldOnce, Epochs, StoredOnce, [Next]_vars
  PROVE  StoredOnce'
<1>1. Grows(log) /\ log \in Seq(Event) /\ seq \in [Inputs -> 0..Len(log)]
  BY NextTyped DEF Typed, TypeOK
<1>2. /\ Len(log) \in Nat /\ Len(log') \in Nat /\ Len(log') <= Len(log) + 1 /\ Len(log') >= Len(log)
      /\ \A s \in 1..Len(log) : log'[s] = log[s]
      /\ Len(log') = Len(log) + 1 => log'[Len(log) + 1].anchor <= Len(log)
  BY <1>1, GrowsHolds
<1>8. \A s \in DOMAIN log' : s \in 1..Len(log') /\ (s \in 1..Len(log) => s \in DOMAIN log)
  BY <1>1, GrowsHolds
<1>3. log' \in Seq(Event)
  BY <1>1, GrowsHolds
<1>4. \A s \in DOMAIN log' : log'[s].anchor < s
  <2> SUFFICES ASSUME NEW s \in DOMAIN log' PROVE log'[s].anchor < s
    OBVIOUS
  <2>1. log'[s].anchor \in Nat
    <3>1. log'[s] \in Event
      BY <1>3, <1>8, ElementOfSeq
    <3> QED BY <3>1 DEF Event
  <2>2. CASE s \in 1..Len(log)
    BY <1>2, <1>8, <2>2 DEF StoredOnce
  <2>3. CASE s \notin 1..Len(log)
    <3>1. s = Len(log) + 1 /\ Len(log') = Len(log) + 1
      <4>1. s \in 1..Len(log')
        BY <1>8
      <4> QED BY <1>2, <2>3, <4>1
    <3> QED BY <1>2, <2>1, <3>1
  <2> QED BY <2>2, <2>3
<1>5. \A i \in Inputs : seq[i] # 0 => seq[i] \in 1..Len(log) /\ log'[seq[i]] = User
  <2> SUFFICES ASSUME NEW i \in Inputs, seq[i] # 0 PROVE seq[i] \in 1..Len(log) /\ log'[seq[i]] = User
    OBVIOUS
  <2>1. seq[i] \in 0..Len(log) /\ log[seq[i]] = User
    BY <1>1 DEF StoredOnce
  <2>2. seq[i] \in 1..Len(log)
    BY <1>2, <2>1
  <2> QED BY <1>2, <2>1, <2>2
<1>6. CASE seq' = seq /\ \A j \in Inputs : Progress(j)
  <2>1. \A i \in Inputs : status'[i] = "new" <=> status[i] = "new"
    BY <1>6 DEF Progress, Settled
  <2>2. \A i \in Inputs : status'[i] = "stored" => status[i] = "stored"
    BY <1>6 DEF Progress, Settled
  <2> QED BY <1>4, <1>5, <1>6, <2>1, <2>2 DEF StoredOnce
<1>7. ASSUME NEW i \in Inputs,
             status[i] = "new", status'[i] # "new", status'[i] = "stored" => i \in Late,
             seq' = [seq EXCEPT ![i] = Len(log) + 1], log' = Append(log, User),
             \A j \in Inputs \ {i} : Progress(j)
      PROVE  StoredOnce'
  <2>1. /\ \A j \in Inputs \ {i} : status'[j] = "new" <=> status[j] = "new"
        /\ \A j \in Inputs \ {i} : status'[j] = "stored" => status[j] = "stored"
    BY <1>7 DEF Progress, Settled
  <2>2. /\ seq'[i] = Len(log) + 1 /\ seq'[i] # 0
        /\ \A j \in Inputs \ {i} : seq'[j] = seq[j] /\ seq[j] # Len(log) + 1
    <3>1. seq'[i] = Len(log) + 1 /\ \A j \in Inputs \ {i} : seq'[j] = seq[j] /\ seq[j] \in 0..Len(log)
      BY <1>1, <1>7
    <3> QED BY <1>2, <3>1
  <2>3. log'[seq'[i]] = User
    <3>1. User \in Event
      BY DEF User, Event
    <3> QED BY <1>1, <1>7, <2>2, <3>1, AppendProperties
  <2>4. \A j \in Inputs : seq'[j] = 0 <=> status'[j] = "new"
    BY <1>7, <2>1, <2>2 DEF StoredOnce
  <2>5. \A j \in Inputs : status'[j] = "stored" => j \in Late
    BY <1>7, <2>1 DEF StoredOnce
  <2>6. \A j, k \in Inputs : seq'[j] # 0 /\ seq'[j] = seq'[k] => j = k
    <3> SUFFICES ASSUME NEW j \in Inputs, NEW k \in Inputs, seq'[j] # 0, seq'[j] = seq'[k] PROVE j = k
      OBVIOUS
    <3>1. CASE j # i /\ k # i
      BY <2>2, <3>1 DEF StoredOnce
    <3>2. CASE j = i \/ k = i
      BY <2>2, <3>2
    <3> QED BY <3>1, <3>2
  <2>7. \A j \in Inputs : seq'[j] # 0 => log'[seq'[j]] = User
    BY <1>5, <2>2, <2>3
  <2> QED BY <1>4, <2>4, <2>5, <2>6, <2>7 DEF StoredOnce
<1> QED BY <1>6, <1>7, Stores

LEMMA EpochTypes ==
  ASSUME Typed, Epochs
  PROVE  /\ epoch \in Nat /\ att.epoch \in Nat /\ att.epoch <= epoch
         /\ \A i \in Inputs : admitEpoch[i] \in Nat /\ admitEpoch[i] <= epoch
         /\ \A k \in DOMAIN converting : converting[k].epoch \in Nat /\ converting[k].epoch <= epoch
         /\ NoSteers => Current = {}
<1>1. epoch \in Nat /\ att.epoch \in Nat /\ att.epoch <= epoch
  BY DEF Typed, TypeOK, Attempt, Epochs
<1>2. \A i \in Inputs : admitEpoch[i] \in Nat /\ admitEpoch[i] <= epoch
  <2>1. \A i \in Inputs : admitEpoch[i] \in Nat
    BY DEF Typed, TypeOK
  <2> QED BY <2>1 DEF Epochs
<1>3. \A k \in DOMAIN converting : converting[k].epoch \in Nat /\ converting[k].epoch <= epoch
  <2>1. converting \in Seq([input : Inputs, epoch : 1..MaxEpoch])
    BY DEF Typed, TypeOK
  <2>2. \A k \in DOMAIN converting : converting[k] \in [input : Inputs, epoch : 1..MaxEpoch]
    BY <2>1, ElementOfSeq, LenProperties
  <2> QED BY <2>2 DEF Epochs
<1>4. NoSteers => Current = {}
  BY DEF NoSteers, Current
<1> QED BY <1>1, <1>2, <1>3, <1>4

\* A new epoch leaves no steer its authority.
LEMMA CurrentMoves ==
  ASSUME Typed, Epochs, converting' = converting
  PROVE  /\ epoch' = epoch => Current' = Current
         /\ epoch' = epoch + 1 => Current' = {} /\ \A k \in DOMAIN converting' : converting'[k].epoch # epoch'
<1>1. epoch' = epoch => Current' = Current
  BY DEF Current
<1>2. ASSUME epoch' = epoch + 1 PROVE \A k \in DOMAIN converting' : converting'[k].epoch # epoch'
  BY <1>2, EpochTypes
<1>3. ASSUME epoch' = epoch + 1 PROVE Current' = {}
  <2>1. \A k \in DOMAIN converting' : converting'[k].epoch # epoch'
    BY <1>2, <1>3
  <2> QED BY <2>1 DEF Current
<1> QED BY <1>1, <1>2, <1>3

\* Only the arriving input can begin a turn of its own.
LEMMA ArrivesAlone ==
  ASSUME NEW i, NEW m, Begun(<<i>>, m)
  PROVE  In(m) = {i} /\ In(pending') = {} /\ Distinct(<<i>>) /\ In(<<i>>) = {i}
<1>1. In(<<i>>) = {i} /\ Distinct(<<i>>)
  BY DEF In, Distinct
<1>2. m[1] \in In(m)
  BY EmptySeq, LenProperties DEF Begun, In
<1> QED BY <1>1, <1>2 DEF Begun, Parts

LEMMA StoppedKept ==
  ASSUME Typed, HeldOnce, Epochs, StoppedStale, [Next]_vars
  PROVE  StoppedStale'
<1>0. /\ In(pending) \subseteq Inputs /\ In(members) \subseteq Inputs /\ stopped \subseteq Inputs
      /\ epoch \in Nat /\ att.epoch \in Nat /\ att.epoch <= epoch
      /\ status \in [Inputs -> Status]
  BY HeldTypes, EpochTypes DEF Typed, TypeOK
<1>1. \A i \in stopped :
        /\ status[i] = "admitted" /\ i \notin In(pending) /\ i \notin Current
        /\ i \in In(members) => att.epoch # epoch
  BY DEF StoppedStale, Authority
<1>2. ASSUME \A i \in stopped' :
                /\ status'[i] = "admitted" /\ i \notin In(pending') /\ i \notin Current'
                /\ i \in In(members') => att'.epoch # epoch'
      PROVE  StoppedStale'
  BY <1>2 DEF StoppedStale, Authority, In
<1>3. CASE Still
  <2>1. /\ UNCHANGED <<pending, members, status, stopped>> /\ epoch' \in {epoch, epoch + 1}
        /\ members # <<>> => att'.epoch = att.epoch
        /\ epoch' = epoch => Current' = Current
        /\ epoch' = epoch + 1 => Current' = {}
    BY <1>3, CurrentMoves DEF Still
  <2>2. \A i \in In(members) : members # <<>>
    BY EmptyHolds
  <2> QED BY <1>0, <1>1, <1>2, <2>1, <2>2
<1>4. ASSUME NEW o \in Settled, Ends(o) PROVE StoppedStale'
  <2>1. /\ pending' = pending /\ In(members') = {} /\ stopped' = stopped \ In(members)
        /\ status' = Settle(In(members), o) /\ Current' = Current
    BY <1>4, CurrentMoves, EmptyHolds DEF Ends
  <2>2. \A i \in stopped' : status'[i] = status[i]
    BY <1>0, <2>1 DEF Settle
  <2> QED BY <1>1, <1>2, <2>1, <2>2
<1>5. CASE Joins
  <2>1. PICK m \in Seq(Inputs) : Parts(pending, m, pending') /\ members' = members \o m
    BY <1>5 DEF Joins
  <2>2. In(pending) = In(m) \cup In(pending') /\ In(members') = In(members) \cup In(m)
    BY <2>1, ConcatHolds, HeldTypes DEF Parts, Typed
  <2>3. UNCHANGED <<status, stopped, epoch>> /\ att'.epoch = att.epoch /\ Current' = Current
    BY <1>5, CurrentMoves DEF Joins
  <2> QED BY <1>1, <1>2, <2>2, <2>3
<1>6. CASE Begins
  <2>1. PICK m \in Seq(Inputs) : Begun(pending, m)
    BY <1>6 DEF Begins
  <2>2. /\ In(pending) = In(m) \cup In(pending') /\ In(members') \subseteq In(m)
        /\ \A i \in Inputs : i \notin In(m) => status'[i] = status[i]
    BY <2>1, EmptyHolds DEF Begun, Parts, Settle
  <2>3. UNCHANGED <<stopped, epoch>> /\ Current' = Current
    BY <1>6, CurrentMoves DEF Begins
  <2> QED BY <1>0, <1>1, <1>2, <2>2, <2>3
<1>7. ASSUME NEW i \in Inputs, Arrives(i) PROVE StoppedStale'
  <2>1. i \notin stopped /\ UNCHANGED <<stopped, epoch>> /\ Current' = Current
    BY <1>1, <1>7, CurrentMoves DEF Arrives
  <2>2. CASE UNCHANGED <<pending, members, att>> /\ status' = [status EXCEPT ![i] = "fenced"]
    <3>1. \A j \in Inputs : j # i => status'[j] = status[j]
      BY <1>0, <2>2
    <3> QED BY <1>0, <1>1, <1>2, <2>1, <2>2, <3>1
  <2>3. CASE pending' = Append(pending, i) /\ UNCHANGED <<members, att>> /\ status' = [status EXCEPT ![i] = "admitted"]
    <3>1. \A j \in Inputs : j # i => status'[j] = status[j]
      BY <1>0, <2>3
    <3>2. In(pending') = In(pending) \cup {i}
      BY <2>3, AppendHolds, HeldTypes DEF Typed
    <3> QED BY <1>0, <1>1, <1>2, <2>1, <2>3, <3>1, <3>2
  <2>4. ASSUME NEW m \in Seq(Inputs), Begun(<<i>>, m) PROVE StoppedStale'
    <3>1. In(m) = {i} /\ In(pending') = {}
      BY <2>4, ArrivesAlone
    <3>2. In(members') \subseteq {i} /\ \A j \in Inputs : j # i => status'[j] = status[j]
      BY <2>4, <3>1, EmptyHolds DEF Begun, Settle
    <3> QED BY <1>0, <1>1, <1>2, <2>1, <3>1, <3>2
  <2> QED BY <1>7, <2>2, <2>3, <2>4 DEF Arrives
<1>8. ASSUME NEW i \in Inputs, StoreTrigger(i) PROVE StoppedStale'
  <2>1. /\ UNCHANGED <<stopped, epoch, pending, members, att>> /\ Current' = Current
        /\ i \notin stopped /\ \A j \in Inputs : j # i => status'[j] = status[j]
    BY <1>0, <1>1, <1>8, CurrentMoves DEF StoreTrigger, lane, history
  <2> QED BY <1>0, <1>1, <1>2, <2>1
<1>9. CASE ClaimSteers
  <2>1. PICK m \in Seq(Inputs) : Parts(pending, m, pending') /\ Current' = Current \cup In(m)
    BY <1>9, ClaimsSteers
  <2>2. UNCHANGED <<stopped, epoch, status, members, att>> /\ In(pending) = In(m) \cup In(pending')
    BY <1>9, <2>1 DEF ClaimSteers, Parts, history
  <2> QED BY <1>1, <1>2, <2>1, <2>2
<1>10. CASE Convert
  <2> DEFINE i == Head(converting).input
  <2>1. Current' = Current \ {i} /\ (Head(converting).epoch = epoch => i \in Current) /\ i \in Steers
    BY <1>10, ConvertSteers
  <2>2. i \in Inputs /\ UNCHANGED <<pending, epoch>> /\ att'.epoch = att.epoch
    <3>1. Steers \subseteq Inputs /\ att \in Attempt
      BY HeldTypes DEF Typed, TypeOK
    <3> QED BY <1>10, <2>1, <3>1 DEF Convert, Attempt
  <2> HIDE DEF i
  <2>3. CASE i \in Current /\ members' = Append(members, i) /\ UNCHANGED <<status, stopped>>
    <3>1. In(members') = In(members) \cup {i}
      BY <2>2, <2>3, AppendHolds, HeldTypes DEF Typed
    <3> QED BY <1>1, <1>2, <2>1, <2>2, <2>3, <3>1
  <2>4. CASE /\ members' = members /\ stopped' = stopped \ {i}
             /\ \E o \in {"error", "fenced"} : status' = [status EXCEPT ![i] = o]
    <3>1. \A j \in Inputs : j # i => status'[j] = status[j]
      BY <1>0, <2>4
    <3> QED BY <1>0, <1>1, <1>2, <2>1, <2>2, <2>4, <3>1
  <2> QED BY <1>10, <2>1, <2>3, <2>4 DEF Convert, i
<1>11. CASE StopLane
  <2>1. /\ In(pending') = {} /\ epoch' = epoch + 1 /\ converting' = converting
        /\ stopped' = {i \in Inputs : status'[i] = "admitted"} /\ att'.epoch = att.epoch
    <3>1. att \in Attempt
      BY DEF Typed, TypeOK
    <3> QED BY <1>11, <3>1, EmptyHolds DEF StopLane, NextEpoch, Attempt
  <2>2. Current' = {}
    BY <2>1, CurrentMoves
  <2> QED BY <1>0, <1>2, <2>1, <2>2
<1> QED BY <1>3, <1>4, <1>5, <1>6, <1>7, <1>8, <1>9, <1>10, <1>11, Moves

LEMMA AuthorityKept ==
  ASSUME Typed, HeldOnce, Epochs, Fallbacks = 0, UnderAuthority, [Next]_vars
  PROVE  UnderAuthority'
<1>0. /\ In(pending) \subseteq Inputs /\ In(members) \subseteq Inputs /\ Steers \subseteq Inputs
      /\ epoch \in Nat /\ att.epoch \in Nat
      /\ \A i \in Inputs : admitEpoch[i] <= epoch
  BY HeldTypes, EpochTypes DEF Typed
<1>1. /\ \A i \in In(members) : admitEpoch[i] <= att.epoch
      /\ \A k \in DOMAIN converting : converting[k].input \in Steers /\ admitEpoch[converting[k].input] <= converting[k].epoch
  BY DEF UnderAuthority, Steers
<1>2. ASSUME \A i \in In(members') : admitEpoch'[i] <= att'.epoch,
             \A k \in DOMAIN converting' : admitEpoch'[converting'[k].input] <= converting'[k].epoch
      PROVE  UnderAuthority'
  BY <1>2 DEF UnderAuthority, In
<1>3. CASE Still
  <2>1. /\ UNCHANGED <<members, converting, admitEpoch>>
        /\ members # <<>> => att'.epoch = att.epoch
    BY <1>3 DEF Still
  <2>2. \A i \in In(members) : members # <<>>
    BY EmptyHolds
  <2> QED BY <1>1, <1>2, <2>1, <2>2
<1>4. ASSUME NEW o \in Settled, Ends(o) PROVE UnderAuthority'
  <2>1. In(members') = {} /\ UNCHANGED <<converting, admitEpoch>>
    BY <1>4, EmptyHolds DEF Ends
  <2> QED BY <1>1, <1>2, <2>1
<1>5. CASE Joins
  <2>1. PICK m \in Seq(Inputs) : Parts(pending, m, pending') /\ members' = members \o m
    BY <1>5 DEF Joins
  <2>2. In(pending) = In(m) \cup In(pending') /\ In(members') = In(members) \cup In(m)
    BY <2>1, ConcatHolds, HeldTypes DEF Parts, Typed
  <2>3. UNCHANGED <<converting, admitEpoch>> /\ att'.epoch = epoch
    BY <1>5 DEF Joins, Authority
  <2> QED BY <1>0, <1>1, <1>2, <2>2, <2>3
<1>6. ASSUME NEW p, NEW m, Begun(p, m), In(p) \subseteq Inputs
      PROVE  \A i \in In(members') : i \in Inputs /\ att'.epoch = epoch
  BY <1>6, EmptyHolds DEF Begun, Parts
<1>7. CASE Begins
  <2>1. PICK m \in Seq(Inputs) : Begun(pending, m)
    BY <1>7 DEF Begins
  <2>2. UNCHANGED <<converting, admitEpoch>>
    BY <1>7 DEF Begins
  <2> QED BY <1>0, <1>1, <1>2, <1>6, <2>1, <2>2
<1>8. ASSUME NEW i \in Inputs, Arrives(i) PROVE UnderAuthority'
  <2>1. i \notin In(members) /\ i \notin Steers /\ converting' = converting
    BY <1>8 DEF Arrives, HeldOnce
  <2>2. CASE UNCHANGED <<members, att, admitEpoch>>
    BY <1>1, <1>2, <2>1, <2>2
  <2>3. CASE admitEpoch' = [admitEpoch EXCEPT ![i] = epoch]
    <3>1. /\ \A j \in Inputs : j # i => admitEpoch'[j] = admitEpoch[j]
          /\ \A j \in Inputs : admitEpoch'[j] <= epoch
      <4>1. admitEpoch \in [Inputs -> 0..MaxEpoch]
        BY DEF Typed, TypeOK
      <4>2. \A j \in Inputs : admitEpoch'[j] = IF j = i THEN epoch ELSE admitEpoch[j]
        BY <2>3, <4>1
      <4> QED BY <1>0, <4>2
    <3>2. CASE UNCHANGED <<members, att>>
      BY <1>0, <1>1, <1>2, <2>1, <3>1, <3>2
    <3>3. ASSUME NEW m \in Seq(Inputs), Begun(<<i>>, m) PROVE UnderAuthority'
      <4>1. In(<<i>>) \subseteq Inputs
        BY <3>3, ArrivesAlone
      <4> QED BY <1>0, <1>1, <1>2, <1>6, <2>1, <3>1, <3>3, <4>1
    <3> QED BY <1>8, <3>2, <3>3 DEF Arrives
  <2> QED BY <1>8, <2>2, <2>3 DEF Arrives
<1>9. ASSUME NEW i \in Inputs, StoreTrigger(i) PROVE UnderAuthority'
  <2>1. UNCHANGED <<members, att, converting, admitEpoch>>
    BY <1>9 DEF StoreTrigger, lane, history
  <2> QED BY <1>1, <1>2, <2>1
<1>10. CASE ClaimSteers
  <2>1. PICK m \in Seq(Inputs) :
            /\ Parts(pending, m, pending')
            /\ DOMAIN converting = 1..Len(converting) /\ Len(converting) \in Nat
            /\ DOMAIN m = 1..Len(m) /\ Len(m) \in Nat
            /\ DOMAIN converting' = 1..(Len(converting) + Len(m))
            /\ \A k \in 1..Len(converting) : converting'[k] = converting[k]
            /\ \A k \in 1..Len(m) : converting'[Len(converting) + k] = [input |-> m[k], epoch |-> epoch]
    BY <1>10, ClaimsSteers
  <2>2. UNCHANGED <<admitEpoch, att, members>>
    BY <1>10 DEF ClaimSteers, history
  <2>3. ASSUME NEW k \in DOMAIN converting' PROVE admitEpoch[converting'[k].input] <= converting'[k].epoch
    <3>1. CASE k \in 1..Len(converting)
      BY <1>1, <2>1, <3>1
    <3>2. CASE k \notin 1..Len(converting)
      <4>1. k - Len(converting) \in 1..Len(m) /\ k = Len(converting) + (k - Len(converting))
        BY <2>1, <3>2
      <4>2. converting'[k] = [input |-> m[k - Len(converting)], epoch |-> epoch]
        BY <2>1, <4>1
      <4>3. m[k - Len(converting)] \in Inputs
        BY <4>1, ElementOfSeq
      <4> QED BY <1>0, <4>2, <4>3
    <3> QED BY <3>1, <3>2
  <2> QED BY <1>1, <1>2, <2>2, <2>3
<1>11. CASE Convert
  <2> DEFINE i == Head(converting).input
  <2>1. /\ \A k \in DOMAIN converting' : k + 1 \in DOMAIN converting /\ converting'[k] = converting[k + 1]
        /\ i \in Steers /\ Head(converting) = converting[1] /\ 1 \in DOMAIN converting
    BY <1>11, ConvertSteers
  <2>2. admitEpoch' = admitEpoch /\ att'.epoch = att.epoch
    <3>1. att \in Attempt
      BY DEF Typed, TypeOK
    <3> QED BY <1>11, <3>1 DEF Convert, Attempt
  <2>3. \A j \in In(members') : j \in In(members) \/ (j = i /\ Head(converting).epoch = epoch)
    <3>1. CASE members' = Append(members, i) /\ Head(converting).epoch = epoch
      <4>1. In(members') = In(members) \cup {i}
        BY <1>0, <2>1, <3>1, AppendHolds, HeldTypes DEF Typed
      <4> QED BY <3>1, <4>1
    <3> QED BY <1>11, <3>1 DEF Convert
  <2>4. Head(converting).epoch = epoch => att.epoch = epoch
    BY <2>1 DEF Epochs, Authority
  <2> QED BY <1>0, <1>1, <1>2, <2>1, <2>2, <2>3, <2>4
<1>12. CASE StopLane
  <2>1. UNCHANGED <<members, converting, admitEpoch>> /\ att'.epoch = att.epoch
    <3>1. att \in Attempt
      BY DEF Typed, TypeOK
    <3> QED BY <1>12, <3>1 DEF StopLane, Attempt
  <2> QED BY <1>1, <1>2, <2>1
<1> QED BY <1>3, <1>4, <1>5, <1>7, <1>8, <1>9, <1>10, <1>11, <1>12, Moves

\* Only a new seq is written, beyond all others.
LEMMA SeqMoves ==
  ASSUME Typed, HeldOnce, Epochs, StoredOnce, [Next]_vars
  PROVE  /\ seq \in [Inputs -> Nat] /\ seq' \in [Inputs -> Nat]
         /\ \A j \in Inputs : seq[j] <= Len(log) /\ Len(log) \in Nat
         /\ \A j \in In(pending) \cup Steers \cup In(members) : j \in Inputs /\ seq'[j] = seq[j] /\ seq[j] # 0
         /\ \A j \in Inputs : seq'[j] # seq[j] => seq'[j] = Len(log) + 1 /\ status[j] = "new"
         /\ \A j \in Inputs : seq[j] # 0 => seq'[j] = seq[j]
<1>1. seq \in [Inputs -> 0..Len(log)] /\ Len(log) \in Nat
  BY LenProperties DEF Typed, TypeOK
<1>2. seq' \in [Inputs -> Nat]
  <2>1. seq' \in [Inputs -> 0..Len(log')] /\ log' \in Seq(Event)
    BY NextTyped DEF Typed, TypeOK
  <2>2. Len(log') \in Nat
    BY <2>1, LenProperties
  <2> QED BY <2>1, <2>2
<1>3. seq' = seq \/ \E i \in Inputs : status[i] = "new" /\ seq' = [seq EXCEPT ![i] = Len(log) + 1]
  BY Stores
<1>4. \A j \in Inputs : seq'[j] # seq[j] => seq'[j] = Len(log) + 1 /\ status[j] = "new"
  BY <1>1, <1>3
<1>5. \A j \in Inputs : seq[j] # 0 => seq'[j] = seq[j]
  BY <1>4 DEF StoredOnce
<1>6. \A j \in In(pending) \cup Steers \cup In(members) : j \in Inputs /\ status[j] = "admitted"
  <2>1. In(pending) \subseteq Inputs /\ In(members) \subseteq Inputs /\ Steers \subseteq Inputs
    BY HeldTypes DEF Typed
  <2> QED BY <2>1 DEF HeldOnce
<1>7. \A j \in In(pending) \cup Steers \cup In(members) : j \in Inputs /\ seq'[j] = seq[j] /\ seq[j] # 0
  BY <1>5, <1>6 DEF StoredOnce
<1> QED BY <1>1, <1>2, <1>4, <1>5, <1>7

\* The line of the operator's messages: turn, steers, queue.
LEMMA LineKept ==
  ASSUME Typed, HeldOnce, Epochs, StoredOnce, InLine, [Next]_vars
  PROVE  InLine'
<1>0. /\ pending \in Seq(Inputs) /\ members \in Seq(Inputs)
      /\ In(pending) \subseteq Inputs /\ In(members) \subseteq Inputs /\ Steers \subseteq Inputs
      /\ Current \subseteq Steers
  BY HeldTypes DEF Typed
<1>1. /\ seq' \in [Inputs -> Nat]
      /\ \A j \in Inputs : seq[j] <= Len(log) /\ Len(log) \in Nat
      /\ \A j \in In(pending) \cup Steers \cup In(members) : seq'[j] = seq[j]
  BY SeqMoves
<1>2. Ordered(pending, seq')
  <2>1. \A k \in DOMAIN pending : pending[k] \in In(pending)
    BY DEF In
  <2> QED BY <1>1, <2>1 DEF InLine, Ordered
<1>3. \A j, k \in DOMAIN converting :
          j < k /\ converting[j].epoch = epoch /\ converting[k].epoch = epoch /\ converting[k].input \notin Late
              => seq'[converting[j].input] < seq'[converting[k].input]
  <2>1. \A k \in DOMAIN converting : converting[k].input \in Steers
    BY DEF Steers
  <2> QED BY <1>1, <2>1 DEF InLine
<1>4. /\ \A i \in In(members), j \in (In(pending) \cup Current) \ Late : seq'[i] < seq'[j]
      /\ \A i \in Current, j \in In(pending) \ Late : seq'[i] < seq'[j]
  BY <1>0, <1>1 DEF InLine
<1> DEFINE Steered == \A j, k \in DOMAIN converting' :
              j < k /\ converting'[j].epoch = epoch' /\ converting'[k].epoch = epoch' /\ converting'[k].input \notin Late
                  => seq'[converting'[j].input] < seq'[converting'[k].input]
<1>5. ASSUME Ordered(pending', seq'), Steered,
             \A i \in In(members'), j \in (In(pending') \cup Current') \ Late : seq'[i] < seq'[j],
             \A i \in Current', j \in In(pending') \ Late : seq'[i] < seq'[j]
      PROVE  InLine'
  BY <1>5 DEF InLine, Ordered, In
<1>6. converting' = converting /\ epoch' = epoch => Steered /\ Current' = Current
  BY <1>3, CurrentMoves
<1>7. converting' = converting /\ epoch' = epoch + 1 => Steered /\ Current' = {}
  BY CurrentMoves
<1>8. NoSteers => Current = {}
  BY EpochTypes
<1> HIDE DEF Steered
<1>9. CASE Still
  <2>1. UNCHANGED <<pending, members, converting>> /\ (epoch' = epoch \/ epoch' = epoch + 1)
    BY <1>9 DEF Still
  <2> QED BY <1>2, <1>4, <1>5, <1>6, <1>7, <2>1
<1>10. ASSUME NEW o \in Settled, Ends(o) PROVE InLine'
  <2>1. UNCHANGED <<pending, converting, epoch>> /\ In(members') = {}
    BY <1>10, EmptyHolds DEF Ends
  <2> QED BY <1>2, <1>4, <1>5, <1>6, <2>1
<1>11. CASE Joins
  <2>1. PICK m \in Seq(Inputs) : Parts(pending, m, pending') /\ members' = members \o m
    BY <1>11 DEF Joins
  <2>2. In(pending) = In(m) \cup In(pending') /\ In(members') = In(members) \cup In(m)
    BY <2>1, ConcatHolds, <1>0 DEF Parts
  <2>3. Ordered(pending', seq') /\ \A i \in In(m), j \in In(pending') \ Late : seq'[i] < seq'[j]
    BY <1>1, <1>2, <2>1 DEF Parts
  <2>4. converting' = converting /\ epoch' = epoch /\ NoSteers
    BY <1>11 DEF Joins
  <2>5. Current' = {} /\ Steered
    BY <1>6, <1>8, <2>4
  <2> QED BY <1>4, <1>5, <2>2, <2>3, <2>5
<1>12. CASE Begins
  <2>1. PICK m \in Seq(Inputs) : Begun(pending, m)
    BY <1>12 DEF Begins
  <2>2. In(members') \subseteq In(m) /\ Parts(pending, m, pending')
    BY <2>1, EmptyHolds DEF Begun
  <2>3. Ordered(pending', seq') /\ \A i \in In(m), j \in In(pending') \ Late : seq'[i] < seq'[j]
    BY <1>1, <1>2, <2>2 DEF Parts
  <2>4. Current' = {} /\ Steered
    BY <1>6, <1>8, <1>12 DEF Begins
  <2> QED BY <1>5, <2>2, <2>3, <2>4
<1>13. ASSUME NEW i \in Inputs, Arrives(i) PROVE InLine'
  <2>1. converting' = converting /\ epoch' = epoch /\ Current' = Current /\ Steered
    BY <1>6, <1>13 DEF Arrives
  <2>2. CASE UNCHANGED <<pending, members>>
    BY <1>2, <1>4, <1>5, <2>1, <2>2
  <2>3. CASE pending' = Append(pending, i) /\ members' = members
    <3>1. In(pending') = In(pending) \cup {i}
      BY <1>0, <2>3, AppendHolds
    <3>2. i \notin Late => \A j \in In(pending) \cup Steers \cup In(members) : seq'[j] < seq'[i]
      <4> SUFFICES ASSUME i \notin Late, NEW j \in In(pending) \cup Steers \cup In(members)
                   PROVE  seq'[j] < seq'[i]
        OBVIOUS
      <4>1. seq' = [seq EXCEPT ![i] = Len(log) + 1]
        BY <1>13 DEF Arrives, StoredOnce
      <4>2. seq'[i] = Len(log) + 1
        BY <4>1 DEF Typed, TypeOK
      <4>3. seq'[j] = seq[j] /\ j \in Inputs /\ seq[j] <= Len(log) /\ Len(log) \in Nat
        BY <1>0, <1>1
      <4>4. seq'[j] \in Nat
        BY <1>1, <4>3
      <4> QED BY <4>2, <4>3, <4>4
    <3>3. Ordered(pending', seq')
      <4>1. /\ \A k \in 1..Len(pending) : pending'[k] = pending[k]
            /\ pending'[Len(pending) + 1] = i /\ Len(pending) \in Nat
            /\ \A k \in DOMAIN pending' : k \in 1..(Len(pending) + 1)
            /\ \A k \in 1..Len(pending) : k \in DOMAIN pending /\ pending[k] \in In(pending)
        <5>1. pending' \in Seq(Inputs) /\ Len(pending') = Len(pending) + 1
          BY <1>0, <2>3, AppendProperties
        <5>2. DOMAIN pending' = 1..(Len(pending) + 1) /\ DOMAIN pending = 1..Len(pending)
          BY <1>0, <5>1, LenProperties
        <5> QED BY <1>0, <2>3, <5>2, AppendProperties, LenProperties DEF In
      <4>2. ASSUME NEW j \in DOMAIN pending', NEW k \in DOMAIN pending', j < k, pending'[k] \notin Late
            PROVE  seq'[pending'[j]] < seq'[pending'[k]]
        <5>1. j \in 1..Len(pending)
          BY <4>1, <4>2
        <5>2. CASE k \in 1..Len(pending)
          BY <1>2, <4>1, <4>2, <5>1, <5>2 DEF Ordered
        <5>3. CASE k = Len(pending) + 1
          BY <3>2, <4>1, <4>2, <5>1, <5>3
        <5> QED BY <4>1, <5>2, <5>3
      <4> QED BY <4>2 DEF Ordered
    <3> QED BY <1>0, <1>4, <1>5, <2>1, <2>3, <3>1, <3>2, <3>3
  <2>4. ASSUME NEW m \in Seq(Inputs), Begun(<<i>>, m), NoSteers PROVE InLine'
    <3>1. In(pending') = {}
      BY <2>4, ArrivesAlone
    <3>2. pending' \in Seq(Inputs) /\ \A k \in DOMAIN pending' : pending'[k] \in In(pending')
      BY <2>4 DEF Begun, Parts, In
    <3>3. Ordered(pending', seq')
      BY <3>1, <3>2 DEF Ordered
    <3> QED BY <1>5, <1>8, <2>1, <2>4, <3>1, <3>3
  <2> QED BY <1>13, <2>2, <2>3, <2>4 DEF Arrives
<1>14. ASSUME NEW i \in Inputs, StoreTrigger(i) PROVE InLine'
  <2>1. UNCHANGED <<pending, members, converting, epoch>>
    BY <1>14 DEF StoreTrigger, lane
  <2> QED BY <1>2, <1>4, <1>5, <1>6, <2>1
<1>15. CASE ClaimSteers
  <2>1. PICK m \in Seq(Inputs) :
            /\ Parts(pending, m, pending')
            /\ Steers' = Steers \cup In(m) /\ Current' = Current \cup In(m)
            /\ DOMAIN converting = 1..Len(converting) /\ Len(converting) \in Nat
            /\ DOMAIN m = 1..Len(m) /\ Len(m) \in Nat
            /\ DOMAIN converting' = 1..(Len(converting) + Len(m))
            /\ \A k \in 1..Len(converting) : converting'[k] = converting[k]
            /\ \A k \in 1..Len(m) : converting'[Len(converting) + k] = [input |-> m[k], epoch |-> epoch]
    BY <1>15, ClaimsSteers
  <2>2. UNCHANGED <<epoch, members>> /\ NoSteers
    BY <1>15, AwayNoSteers DEF ClaimSteers
  <2>3. In(pending) = In(m) \cup In(pending')
    BY <2>1 DEF Parts
  <2>4. /\ Ordered(m, seq') /\ Ordered(pending', seq')
        /\ \A i \in In(m), j \in In(pending') \ Late : seq'[i] < seq'[j]
    BY <1>1, <1>2, <2>1 DEF Parts
  <2>5. ASSUME NEW k \in DOMAIN converting', converting'[k].epoch = epoch
        PROVE  /\ k - Len(converting) \in DOMAIN m /\ converting'[k].input = m[k - Len(converting)]
               /\ k \in Nat
    <3>1. k \notin 1..Len(converting)
      BY <2>1, <2>2, <2>5 DEF NoSteers
    <3>2. k - Len(converting) \in 1..Len(m) /\ k = Len(converting) + (k - Len(converting)) /\ k \in Nat
      BY <2>1, <3>1
    <3>3. converting'[k] = [input |-> m[k - Len(converting)], epoch |-> epoch]
      BY <2>1, <3>2
    <3> QED BY <2>1, <3>2, <3>3
  <2>6. Steered
    <3>1. ASSUME NEW j \in DOMAIN converting', NEW k \in DOMAIN converting', j < k,
                 converting'[j].epoch = epoch, converting'[k].epoch = epoch, converting'[k].input \notin Late
          PROVE  seq'[converting'[j].input] < seq'[converting'[k].input]
      <4>1. j - Len(converting) \in DOMAIN m /\ converting'[j].input = m[j - Len(converting)] /\ j \in Nat
        BY <2>5, <3>1
      <4>2. k - Len(converting) \in DOMAIN m /\ converting'[k].input = m[k - Len(converting)] /\ k \in Nat
        BY <2>5, <3>1
      <4>3. j - Len(converting) < k - Len(converting)
        <5>1. Len(converting) \in Nat
          BY <2>1
        <5> QED BY ONLY <5>1, <4>1, <4>2, j < k
      <4> QED BY <2>4, <3>1, <4>1, <4>2, <4>3 DEF Ordered
    <3> QED BY <2>2, <3>1 DEF Steered
  <2>7. Current = {}
    BY <1>8, <2>2
  <2> QED BY <1>4, <1>5, <2>1, <2>2, <2>3, <2>4, <2>6, <2>7
<1>16. CASE Convert
  <2> DEFINE i == Head(converting).input
  <2>1. /\ 1 \in DOMAIN converting /\ Head(converting) = converting[1] /\ i \in Steers
        /\ Head(converting).epoch = epoch => i \in Current
        /\ Current' = Current \ {i}
        /\ \A k \in DOMAIN converting' : k \in Nat /\ k + 1 \in DOMAIN converting /\ converting'[k] = converting[k + 1]
    BY <1>16, ConvertSteers
  <2>2. epoch' = epoch /\ pending' = pending /\ converting' = Tail(converting)
    BY <1>16 DEF Convert
  <2>3. Steered
    <3>1. ASSUME NEW j \in DOMAIN converting', NEW k \in DOMAIN converting', j < k,
                 converting'[j].epoch = epoch, converting'[k].epoch = epoch, converting'[k].input \notin Late
          PROVE  seq'[converting'[j].input] < seq'[converting'[k].input]
      <4>1. j + 1 < k + 1
        BY <2>1, <3>1
      <4> QED BY <1>3, <2>1, <3>1, <4>1
    <3> QED BY <2>2, <3>1 DEF Steered
  <2>4. ASSUME Head(converting).epoch = epoch, NEW j \in Current', j \notin Late
        PROVE  seq'[i] < seq'[j]
    <3>1. PICK k \in DOMAIN converting' : converting'[k].epoch = epoch /\ converting'[k].input = j
      BY <2>2, <2>4 DEF Current
    <3>2. k + 1 \in DOMAIN converting /\ converting[k + 1].epoch = epoch /\ converting[k + 1].input = j /\ 1 < k + 1
      <4>1. k \in Nat /\ k \in 1..Len(converting')
        <5>1. DOMAIN converting' = 1..Len(converting')
          <6>1. converting' \in Seq([input : Inputs, epoch : 1..MaxEpoch])
            BY NextTyped DEF Typed, TypeOK
          <6> QED BY <6>1, LenProperties
        <5> QED BY <2>1, <5>1
      <4> QED BY <2>1, <3>1, <4>1
    <3> QED BY <1>3, <2>1, <2>4, <3>2
  <2>5. CASE Head(converting).epoch = epoch /\ members' = Append(members, i)
    <3>1. In(members') = In(members) \cup {i}
      BY <1>0, <2>1, <2>5, AppendHolds
    <3> QED BY <1>2, <1>4, <1>5, <2>1, <2>2, <2>3, <2>4, <2>5, <3>1
  <2>6. CASE members' = members
    BY <1>2, <1>4, <1>5, <2>1, <2>2, <2>3, <2>6
  <2> QED BY <1>16, <2>5, <2>6 DEF Convert
<1>17. CASE StopLane
  <2>1. pending' = <<>> /\ In(pending') = {} /\ epoch' = epoch + 1 /\ converting' = converting
    BY <1>17, EmptyHolds DEF StopLane, NextEpoch
  <2>2. Ordered(pending', seq')
    <3>1. \A k \in DOMAIN pending' : pending'[k] \in In(pending')
      BY DEF In
    <3> QED BY <2>1, <3>1 DEF Ordered
  <2> QED BY <1>5, <1>7, <2>1, <2>2
<1> QED BY <1>9, <1>10, <1>11, <1>12, <1>13, <1>14, <1>15, <1>16, <1>17, Moves

-----------------------------------------------------------------------------
(* What folds hide and what answers have read. *)

\* Where the fold goes on, the boundary stays; it moves to a cut that was chosen before.
LEMMA FoldSteps ==
  ASSUME Typed, [Next]_vars
  PROVE  \/ /\ boundary' = boundary /\ summarised' = summarised
            /\ fold'.cut = 0 \/ (fold'.cut = fold.cut /\ fold'.span = fold.span)
         \/ /\ boundary' = boundary /\ summarised' = summarised /\ Folding
            /\ UNCHANGED <<log, seq, pending, converting, members, att, epoch>>
            /\ \E b \in Cuts(Ceiling(IF fold.why \in {"overflow", "preempt"} THEN att.floor ELSE 0)) :
                  fold'.cut = b /\ fold'.span = Span(b)
         \/ /\ Folding /\ fold.cut # 0 /\ boundary' = fold.cut
            /\ summarised' = summarised \cup fold.span /\ fold'.cut = 0
<1>1. fold \in Fold /\ epoch \in Nat /\ att.epoch \in Nat
  BY DEF Typed, TypeOK, Attempt
<1>2. \A outcome : AfterFold(outcome) => fold'.cut = 0
  BY FoldFacts DEF AfterFold
<1>3. \A why \in Folds, ep \in Nat : StartFold(why, ep) => fold'.cut = 0
  BY FoldFacts
<1>4. CASE ReadFold
  <2>1. boundary' = boundary /\ summarised' = summarised /\ Folding
    BY <1>4 DEF ReadFold
  <2>2. CASE AfterFold("noop")
    BY <1>2, <2>1, <2>2
  <2>3. CASE ~AfterFold("noop")
    <3>1. /\ UNCHANGED <<log, seq, pending, converting, members, att, epoch>>
          /\ \E b \in Cuts(Ceiling(IF fold.why \in {"overflow", "preempt"} THEN att.floor ELSE 0)) :
                  fold' = [fold EXCEPT !.cut = b, !.span = Span(b)]
      BY <1>4, <2>3 DEF ReadFold
    <3>2. \A b : fold' = [fold EXCEPT !.cut = b, !.span = Span(b)] => fold'.cut = b /\ fold'.span = Span(b)
      BY <1>1 DEF Fold
    <3> QED BY <2>1, <3>1, <3>2
  <2> QED BY <2>2, <2>3
<1>5. CASE CommitFold
  BY <1>2, <1>5 DEF CommitFold
<1>6. CASE LoseFold
  BY <1>2, <1>6 DEF LoseFold
<1>7. CASE EnterModel \/ Fence \/ JournalFails \/ ClaimSteers \/ Convert \/ Land
  BY <1>7 DEF EnterModel, Fence, JournalFails, ClaimSteers, Convert, Land, store, history
<1>8. CASE SetupFails \/ ModelFails
  BY <1>8 DEF SetupFails, ModelFails, Advance, Fail, store
<1>9. CASE AfterLanding
  <2>1. UNCHANGED fold \/ StartFold("threshold", att.epoch)
    BY <1>9 DEF AfterLanding
  <2>2. boundary' = boundary /\ summarised' = summarised
    BY <1>9 DEF AfterLanding, store, history
  <2>3. "threshold" \in Folds
    BY DEF Folds
  <2> QED BY <1>1, <1>3, <2>1, <2>2, <2>3
<1>10. CASE Overflow
  <2>1. boundary' = boundary /\ summarised' = summarised
    BY <1>10 DEF Overflow, Fail, store
  <2>2. UNCHANGED fold \/ \E why \in {"overflow", "preempt"} : StartFold(why, att.epoch)
    BY <1>10 DEF Overflow, Fail
  <2>3. {"overflow", "preempt"} \subseteq Folds
    BY DEF Folds
  <2> QED BY <1>1, <1>3, <2>1, <2>2, <2>3
<1>11. CASE RunJob
  <2>1. boundary' = boundary /\ summarised' = summarised /\ StartFold("manual", epoch) /\ "manual" \in Folds
    BY <1>11 DEF RunJob, store, history, Folds
  <2> QED BY <1>1, <1>3, <2>1
<1>12. CASE NextTurn \/ Rest \/ ApplySettings \/ AppendNote \/ UNCHANGED vars
  BY <1>12 DEF NextTurn, Rest, ApplySettings, AppendNote, vars, store, lane, history
<1>13. ASSUME NEW j \in Jobs, RequestCompact(j)
       PROVE  boundary' = boundary /\ summarised' = summarised /\ (fold' = fold \/ fold'.cut = 0)
  <2>1. boundary' = boundary /\ summarised' = summarised /\ (fold' = fold \/ StartFold("manual", epoch)) /\ "manual" \in Folds
    BY <1>13 DEF RequestCompact, store, history, Folds
  <2> QED BY <1>1, <1>3, <2>1
<1>14. CASE Stop \/ Shutdown
  BY <1>14 DEF Stop, Shutdown, StopLane, store, lane, history
<1>15. ASSUME NEW i \in Inputs, Submit(i) \/ StoreTrigger(i) \/ SubmitPersisted(i)
       PROVE  boundary' = boundary /\ summarised' = summarised /\ fold' = fold
  BY <1>15 DEF Submit, StoreTrigger, SubmitPersisted, store, lane, history
<1> QED BY <1>4, <1>5, <1>6, <1>7, <1>8, <1>9, <1>10, <1>11, <1>12, <1>13, <1>14, <1>15
        DEF Next, Turn, Drain, Operator, Intake, Done

\* What waits in a line of the operator's messages waited there before, or has just come.
LEMMA WaitingMoves ==
  ASSUME Typed, HeldOnce, Epochs, StoredOnce, [Next]_vars
  PROVE  \A i \in Waiting' : i \in Inputs /\ ((i \in Waiting /\ seq'[i] = seq[i]) \/ seq'[i] = Len(log) + 1)
<1>0. /\ pending \in Seq(Inputs) /\ members \in Seq(Inputs)
      /\ In(pending) \subseteq Inputs /\ In(members) \subseteq Inputs /\ Current \subseteq Inputs
  BY HeldTypes DEF Typed
<1>1. \A i \in Waiting : i \in Inputs /\ seq'[i] = seq[i]
  <2>1. Current \subseteq Steers
    BY HeldTypes DEF Typed
  <2> QED BY <2>1, SeqMoves DEF Waiting
<1>2. SUFFICES \A i \in Waiting' : i \in Waiting \/ (i \in Inputs /\ seq'[i] = Len(log) + 1)
  BY <1>1
<1> DEFINE now == In(pending) \cup Current \cup In(members)
<1>3. \A i \in Waiting' : i \in In(pending') \cup Current' \cup In(members') /\ i \notin Late
  BY DEF Waiting, In
<1>4. ASSUME In(pending') \cup Current' \cup In(members') \subseteq now
      PROVE  \A i \in Waiting' : i \in Waiting
  BY <1>3, <1>4 DEF Waiting
<1>5. converting' = converting /\ epoch' = epoch => Current' = Current
  BY CurrentMoves
<1>6. CASE Still
  <2>1. UNCHANGED <<pending, members, converting>> /\ epoch' \in {epoch, epoch + 1}
    BY <1>6 DEF Still
  <2>2. Current' \subseteq Current
    BY <2>1, CurrentMoves
  <2> QED BY <1>4, <2>1, <2>2
<1>7. ASSUME NEW o \in Settled, Ends(o) PROVE \A i \in Waiting' : i \in Waiting
  <2>1. pending' = pending /\ In(members') = {} /\ Current' = Current
    BY <1>5, <1>7, EmptyHolds DEF Ends
  <2> QED BY <1>4, <2>1
<1>8. CASE Joins
  <2>1. PICK m \in Seq(Inputs) : Parts(pending, m, pending') /\ members' = members \o m
    BY <1>8 DEF Joins
  <2>2. In(pending) = In(m) \cup In(pending') /\ In(members') = In(members) \cup In(m)
    BY <1>0, <2>1, ConcatHolds DEF Parts
  <2>3. Current' = Current
    BY <1>5, <1>8 DEF Joins
  <2> QED BY <1>4, <2>2, <2>3
<1>9. CASE Begins
  <2>1. PICK m \in Seq(Inputs) : Begun(pending, m)
    BY <1>9 DEF Begins
  <2>2. In(pending) = In(m) \cup In(pending') /\ In(members') \subseteq In(m)
    BY <2>1, EmptyHolds DEF Begun, Parts
  <2>3. Current' = Current
    BY <1>5, <1>9 DEF Begins
  <2> QED BY <1>4, <2>2, <2>3
<1>10. ASSUME NEW i \in Inputs, Arrives(i)
       PROVE  \A j \in Waiting' : j \in Waiting \/ (j \in Inputs /\ seq'[j] = Len(log) + 1)
  <2>1. Current' = Current
    BY <1>5, <1>10 DEF Arrives
  <2>2. In(pending') \cup In(members') \subseteq In(pending) \cup In(members) \cup {i}
    <3>1. CASE UNCHANGED <<pending, members>>
      BY <3>1
    <3>2. CASE pending' = Append(pending, i) /\ members' = members
      BY <1>0, <3>2, AppendHolds
    <3>3. ASSUME NEW m \in Seq(Inputs), Begun(<<i>>, m)
          PROVE  In(pending') \cup In(members') \subseteq In(pending) \cup In(members) \cup {i}
      <4>1. In(m) = {i} /\ In(pending') = {}
        BY <3>3, ArrivesAlone
      <4> QED BY <3>3, <4>1, EmptyHolds DEF Begun
    <3> QED BY <1>10, <3>1, <3>2, <3>3 DEF Arrives
  <2>3. i \notin Late => seq'[i] = Len(log) + 1
    <3>1. i \notin Late => seq' = [seq EXCEPT ![i] = Len(log) + 1]
      BY <1>10 DEF Arrives, StoredOnce
    <3> QED BY <3>1 DEF Typed, TypeOK
  <2> QED BY <1>0, <1>3, <2>1, <2>2, <2>3 DEF Waiting
<1>11. ASSUME NEW i \in Inputs, StoreTrigger(i) PROVE \A j \in Waiting' : j \in Waiting
  <2>1. UNCHANGED <<pending, members, converting, epoch>>
    BY <1>11 DEF StoreTrigger, lane
  <2> QED BY <1>4, <1>5, <2>1
<1>12. CASE ClaimSteers
  <2>1. PICK m \in Seq(Inputs) : Parts(pending, m, pending') /\ Current' = Current \cup In(m)
    BY <1>12, ClaimsSteers
  <2>2. members' = members /\ In(pending) = In(m) \cup In(pending')
    BY <1>12, <2>1 DEF ClaimSteers, Parts
  <2> QED BY <1>4, <2>1, <2>2
<1>13. CASE Convert
  <2> DEFINE i == Head(converting).input
  <2>1. Current' = Current \ {i} /\ (Head(converting).epoch = epoch => i \in Current) /\ pending' = pending
    BY <1>13, ConvertSteers DEF Convert
  <2>2. In(members') \subseteq In(members) \cup Current
    <3>1. CASE members' = members
      BY <3>1
    <3>2. CASE members' = Append(members, i) /\ i \in Current
      BY <1>0, <3>2, AppendHolds
    <3> QED BY <1>13, <2>1, <3>1, <3>2 DEF Convert
  <2> QED BY <1>4, <2>1, <2>2
<1>14. CASE StopLane
  <2>1. In(pending') = {} /\ members' = members /\ epoch' = epoch + 1 /\ converting' = converting
    BY <1>14, EmptyHolds DEF StopLane, NextEpoch
  <2>2. Current' = {}
    BY <2>1, CurrentMoves
  <2> QED BY <1>4, <2>1, <2>2
<1> QED BY <1>6, <1>7, <1>8, <1>9, <1>10, <1>11, <1>12, <1>13, <1>14, Moves

\* A fold's cut stays below everything that waits.
LEMMA CutSpares ==
  ASSUME Typed, HeldOnce, Epochs, StoredOnce, Spared, Folding,
         NEW b \in Cuts(Ceiling(IF fold.why \in {"overflow", "preempt"} THEN att.floor ELSE 0))
  PROVE  /\ b \in Nat /\ \A i \in Waiting : b < seq[i]
         /\ \A i \in In(pending) : b < seq[i]
<1> DEFINE floor == IF fold.why \in {"overflow", "preempt"} THEN att.floor ELSE 0
           waiting == Seqs(In(pending)) \cup ({floor} \ {0})
<1>1. /\ In(pending) \subseteq Inputs /\ In(members) \subseteq Inputs
      /\ \A i \in In(pending) \cup In(members) : seq[i] \in Nat /\ seq[i] # 0
      /\ floor \in Nat /\ Len(log) \in Nat
  <2>1. seq \in [Inputs -> 0..Len(log)] /\ Len(log) \in Nat /\ att \in Attempt
    BY LenProperties DEF Typed, TypeOK
  <2>2. In(pending) \subseteq Inputs /\ In(members) \subseteq Inputs
    BY HeldTypes DEF Typed
  <2>3. \A i \in In(pending) \cup In(members) : seq[i] # 0
    BY <2>2 DEF HeldOnce, StoredOnce
  <2> QED BY <2>1, <2>2, <2>3 DEF Attempt
<1>2. waiting \in SUBSET Nat /\ 0 \notin waiting
  BY <1>1 DEF Seqs
<1>3. b \in Nat
  BY LenProperties DEF Cuts, Typed, TypeOK
<1>4. ASSUME NEW w \in waiting PROVE b < w
  <2>1. MinOf(waiting) \in waiting /\ MinOf(waiting) <= w
    BY <1>2, <1>4, MinOfIn
  <2>2. Ceiling(floor) = MinOf(waiting)
    BY <1>4 DEF Ceiling
  <2>3. b < MinOf(waiting)
    BY <1>2, <2>1, <2>2 DEF Cuts
  <2>4. w \in Nat /\ MinOf(waiting) \in Nat
    BY <1>2, <1>4, <2>1
  <2> HIDE DEF waiting
  <2> QED BY ONLY <1>3, <2>1, <2>3, <2>4
<1>5. \A i \in In(pending) : b < seq[i]
  BY <1>4 DEF Seqs
<1>6. Current = {}
  BY AwayNoSteers, EpochTypes DEF Folding
<1>7. ASSUME NEW i \in In(members), i \notin Late PROVE b < seq[i]
  <2>1. InTurn
    BY <1>7, EmptyHolds DEF Typed, Shape
  <2>2. floor = att.floor /\ att.floor # 0 /\ att.floor <= seq[i]
    BY <1>7, <2>1 DEF Spared, Waiting, InTurn, Folding
  <2>3. b < floor
    BY <1>4, <2>2
  <2> QED BY <1>1, <1>3, <1>7, <2>2, <2>3
<1> QED BY <1>3, <1>5, <1>6, <1>7 DEF Waiting

LEMMA SparedKept ==
  ASSUME Typed, HeldOnce, Epochs, StoredOnce, InLine, Spared, [Next]_vars
  PROVE  Spared'
<1>1. Typed' /\ HeldOnce' /\ StoredOnce' /\ InLine'
  BY NextTyped, HeldKept, StoredKept, LineKept
<1>2. /\ Len(log) \in Nat /\ boundary \in 0..Len(log) /\ fold.cut \in 0..Len(log) /\ att.floor \in 0..Len(log)
      /\ \A i \in Inputs : seq[i] \in 0..Len(log)
  BY LenProperties DEF Typed, TypeOK, Bounds
<1>3. \A i \in Waiting' : i \in Inputs /\ ((i \in Waiting /\ seq'[i] = seq[i]) \/ seq'[i] = Len(log) + 1)
  BY WaitingMoves
<1>4. \A i \in Waiting : i \in Inputs /\ seq[i] > boundary /\ seq[i] > fold.cut
  <2>1. Waiting \subseteq Inputs
    BY HeldTypes DEF Waiting, Typed
  <2> QED BY <2>1 DEF Spared
<1>5. \A i \in Waiting' : seq'[i] > boundary' /\ seq'[i] > fold'.cut
  <2>1. CASE /\ boundary' = boundary
             /\ fold'.cut = 0 \/ (fold'.cut = fold.cut /\ fold'.span = fold.span)
    BY <1>2, <1>3, <1>4, <2>1
  <2>2. CASE boundary' = fold.cut /\ fold'.cut = 0
    BY <1>2, <1>3, <1>4, <2>2
  <2>3. ASSUME boundary' = boundary, Folding, UNCHANGED <<log, seq, pending, converting, members, att, epoch>>,
               NEW b \in Cuts(Ceiling(IF fold.why \in {"overflow", "preempt"} THEN att.floor ELSE 0)),
               fold'.cut = b
        PROVE  \A i \in Waiting' : seq'[i] > boundary' /\ seq'[i] > fold'.cut
    <3>1. Waiting' = Waiting
      <4>1. Current' = Current
        BY <2>3, CurrentMoves
      <4> QED BY <2>3, <4>1 DEF Waiting
    <3>2. b \in Nat /\ \A i \in Waiting : b < seq[i]
      BY <2>3, CutSpares
    <3> QED BY <1>2, <1>4, <2>3, <3>1, <3>2
  <2> QED BY <2>1, <2>2, <2>3, FoldSteps
<1>6. InTurn' <=> members' # <<>>
  BY <1>1 DEF Typed, Shape
<1>7. InTurn <=> members # <<>>
  BY DEF Typed, Shape
<1>8. ASSUME NEW l, NEW s, NEW p, Admits(att', l, s, p, members'), s = seq'
      PROVE  att'.floor # 0 /\ \A i \in Waiting' : seq'[i] >= att'.floor
  <2>1. PICK i \in In(members') : att'.floor = seq'[i]
    BY <1>8 DEF Admits
  <2>2. \A j \in In(members') : att'.floor <= seq'[j]
    BY <1>8 DEF Admits
  <2>3. /\ \A j \in In(members') : j \in Inputs
        /\ \A j \in In(pending') \cup Current' : j \in Inputs
        /\ \A j \in Inputs : seq'[j] \in Nat
    <3>1. \A x : x \in In(members') => x \in Inputs
      <4>1. members' \in Seq(Inputs)
        BY <1>1 DEF Typed, TypeOK
      <4> QED BY <4>1, ElementOfSeq, LenProperties DEF In
    <3>2. \A x : x \in In(pending') => x \in Inputs
      <4>1. pending' \in Seq(Inputs)
        BY <1>1 DEF Typed, TypeOK
      <4> QED BY <4>1, ElementOfSeq, LenProperties DEF In
    <3>3. \A x : x \in Current' => x \in Inputs
      <4>1. converting' \in Seq([input : Inputs, epoch : 1..MaxEpoch])
        BY <1>1 DEF Typed, TypeOK
      <4>2. \A k \in DOMAIN converting' : converting'[k] \in [input : Inputs, epoch : 1..MaxEpoch]
        BY <4>1, ElementOfSeq, LenProperties
      <4> QED BY <4>2 DEF Current
    <3>4. seq' \in [Inputs -> Nat]
      BY SeqMoves
    <3> QED BY <3>1, <3>2, <3>3, <3>4
  <2>4. seq'[i] # 0
    <3>1. i \in Inputs /\ status'[i] = "admitted"
      BY <1>1, <2>1, <2>3 DEF HeldOnce, In
    <3> QED BY <1>1, <3>1 DEF StoredOnce
  <2>5. \A j \in (In(pending') \cup Current') \ Late : seq'[i] < seq'[j]
    BY <1>1, <2>1 DEF InLine, In
  <2>6. \A j \in Waiting' : j \in (In(pending') \cup Current') \ Late \/ j \in In(members')
    BY DEF Waiting, In
  <2> QED BY <2>1, <2>2, <2>3, <2>4, <2>5, <2>6
<1>9. ASSUME members # <<>>, att'.floor = att.floor
      PROVE  att'.floor # 0 /\ \A i \in Waiting' : seq'[i] >= att'.floor
  <2>1. att.floor # 0 /\ \A i \in Waiting : seq[i] >= att.floor
    BY <1>7, <1>9 DEF Spared
  <2> QED BY <1>2, <1>3, <1>9, <2>1
<1>10. members' # <<>> => att'.floor # 0 /\ \A i \in Waiting' : seq'[i] >= att'.floor
  <2>1. CASE Still
    BY <1>9, <2>1 DEF Still, SameReads
  <2>2. ASSUME NEW o \in Settled, Ends(o) PROVE members' = <<>>
    BY <2>2 DEF Ends
  <2>3. CASE Joins
    BY <1>8, <2>3 DEF Joins
  <2>4. ASSUME NEW p, NEW m, Begun(p, m), members' # <<>>
        PROVE  att'.floor # 0 /\ \A i \in Waiting' : seq'[i] >= att'.floor
    <3>1. Admits(att', log', seq', pending', members')
      BY <2>4 DEF Begun
    <3> QED BY <1>8, <3>1
  <2>5. CASE Begins
    BY <2>4, <2>5 DEF Begins
  <2>6. ASSUME NEW i \in Inputs, Arrives(i)
        PROVE  members' # <<>> => att'.floor # 0 /\ \A j \in Waiting' : seq'[j] >= att'.floor
    <3>1. CASE UNCHANGED <<members, att>>
      BY <1>9, <3>1
    <3> QED BY <2>4, <2>6, <3>1 DEF Arrives
  <2>7. ASSUME NEW i \in Inputs, StoreTrigger(i) PROVE UNCHANGED <<members, att>>
    BY <2>7 DEF StoreTrigger, lane
  <2>8. CASE ClaimSteers
    BY <1>9, <2>8 DEF ClaimSteers
  <2>9. att \in Attempt
    BY DEF Typed, TypeOK
  <2>10. CASE Convert
    <3>1. att'.floor = att.floor
      BY <2>9, <2>10 DEF Convert, Attempt
    <3>2. CASE members' = members
      BY <1>9, <3>1, <3>2
    <3>3. CASE Head(converting).epoch = epoch
      <4>1. att.phase = "model"
        BY <2>10, <3>3, ConvertSteers DEF Epochs
      <4>2. members # <<>>
        BY <1>7, <4>1 DEF InTurn
      <4> QED BY <1>9, <3>1, <4>2
    <3> QED BY <2>10, <3>2, <3>3 DEF Convert
  <2>11. CASE StopLane
    <3>1. att'.floor = att.floor /\ members' = members
      BY <2>9, <2>11 DEF StopLane, Attempt
    <3> QED BY <1>9, <3>1
  <2> QED BY <1>9, <2>1, <2>2, <2>3, <2>5, <2>6, <2>7, <2>8, <2>10, <2>11, Moves
<1> QED BY <1>5, <1>6, <1>10 DEF Spared

LEMMA CeilingType ==
  ASSUME Typed
  PROVE  Ceiling(IF fold.why \in {"overflow", "preempt"} THEN att.floor ELSE 0) \in Nat
<1> DEFINE floor == IF fold.why \in {"overflow", "preempt"} THEN att.floor ELSE 0
           waiting == Seqs(In(pending)) \cup ({floor} \ {0})
<1>1. floor \in Nat
  BY DEF Typed, TypeOK, Attempt
<1>2. waiting \in SUBSET Nat
  <2>1. \A i \in In(pending) : seq[i] \in Nat
    <3>1. In(pending) \subseteq Inputs
      BY HeldTypes DEF Typed
    <3> QED BY <3>1, LenProperties DEF Typed, TypeOK
  <2> QED BY <1>1, <2>1 DEF Seqs
<1>3. Ceiling(floor) = IF waiting = {} THEN 0 ELSE MinOf(waiting)
  BY DEF Ceiling
<1>4. waiting # {} => MinOf(waiting) \in Nat
  <2> HIDE DEF waiting
  <2>1. waiting # {} => MinOf(waiting) \in waiting
    BY <1>2, MinOfIn
  <2> QED BY <1>2, <2>1
<1> QED BY <1>3, <1>4

LEMMA SummarisedKept ==
  ASSUME Typed, HeldOnce, Epochs, StoredOnce, Summarised, [Next]_vars
  PROVE  Summarised'
<1>1. /\ Len(log) \in Nat /\ boundary \in 0..Len(log) /\ fold.cut \in 0..Len(log)
      /\ \A i \in Inputs : seq[i] \in 0..Len(log)
  BY LenProperties DEF Typed, TypeOK, Bounds
<1>2. \A i \in Inputs : seq'[i] = seq[i] \/ seq'[i] = Len(log) + 1
  BY SeqMoves
<1>3. \A i \in Inputs : seq[i] # 0 =>
        /\ seq[i] <= boundary => seq[i] \in summarised
        /\ seq[i] <= fold.cut => seq[i] <= boundary \/ seq[i] \in fold.span
  BY DEF Summarised
<1>4. ASSUME \A i \in Inputs : seq'[i] # 0 =>
        /\ seq'[i] <= boundary' => seq'[i] \in summarised'
        /\ seq'[i] <= fold'.cut => seq'[i] <= boundary' \/ seq'[i] \in fold'.span
      PROVE  Summarised'
  BY <1>4 DEF Summarised
<1>5. CASE /\ boundary' = boundary /\ summarised' = summarised
           /\ fold'.cut = 0 \/ (fold'.cut = fold.cut /\ fold'.span = fold.span)
  BY <1>1, <1>2, <1>3, <1>4, <1>5
<1>6. CASE /\ fold.cut # 0 /\ boundary' = fold.cut
           /\ summarised' = summarised \cup fold.span /\ fold'.cut = 0
  BY <1>1, <1>2, <1>3, <1>4, <1>6
<1>7. ASSUME boundary' = boundary, summarised' = summarised, seq' = seq, NEW c \in Nat, NEW b \in Cuts(c),
             fold'.cut = b, fold'.span = Span(b)
      PROVE  Summarised'
  <2>1. /\ b \in DOMAIN log /\ b > boundary /\ Complete(log, {s \in DOMAIN log : c = 0 \/ s < c}, b)
        /\ c = 0 \/ b < c
    BY <1>7 DEF Cuts
  <2>2. \A s \in DOMAIN log : s \in Nat /\ log[s].anchor \in Nat /\ log[s].anchor < s /\ Key(log, s) \in Nat /\ Key(log, s) <= s
    <3>1. ASSUME NEW s \in DOMAIN log PROVE s \in Nat /\ log[s].anchor \in Nat
      <4>1. log \in Seq(Event) /\ s \in 1..Len(log)
        BY <3>1, LenProperties DEF Typed, TypeOK
      <4>2. log[s] \in Event
        BY <4>1, ElementOfSeq
      <4> QED BY <4>1, <4>2 DEF Event
    <3> QED BY <3>1 DEF StoredOnce, Key
  <2>3. ASSUME NEW i \in Inputs, seq[i] # 0, seq[i] <= b, ~(seq[i] <= boundary)
        PROVE  seq[i] \in Span(b)
    <3> DEFINE s == seq[i]
    <3>1. s \in DOMAIN log /\ s \in Nat /\ Key(log, s) = s
      <4>1. s \in 1..Len(log)
        BY <1>1, <2>3
      <4>2. s \in DOMAIN log
        BY <4>1, LenProperties DEF Typed, TypeOK
      <4> QED BY <4>1, <4>2, <2>3 DEF StoredOnce, Key, User
    <3> HIDE DEF s
    <3>2. s = b \/ Before(log, s, b)
      <4> SUFFICES ASSUME s # b, ~Before(log, s, b) PROVE FALSE
        OBVIOUS
      <4>1. s < b
        BY <2>2, <2>1, <2>3, <3>1 DEF s
      <4>2. Key(log, b) < s
        BY <2>1, <2>2, <3>1, <4>1 DEF Before
      <4>3. Before(log, b, s)
        BY <3>1, <4>2 DEF Before
      <4>4. c = 0 \/ s < c
        <5>1. b \in Nat
          BY <2>1, <2>2
        <5> QED BY <2>1, <4>1, <5>1, <3>1
      <4>5. Key(log, s) > b
        BY <2>1, <3>1, <4>3, <4>4 DEF Complete
      <4> QED BY <2>1, <2>2, <3>1, <4>1, <4>5
    <3>3. boundary # 0 => Before(log, boundary, s)
      <4> SUFFICES ASSUME boundary # 0 PROVE Key(log, boundary) < Key(log, s)
        BY DEF Before
      <4>1. boundary \in DOMAIN log
        <5>1. boundary \in 1..Len(log)
          BY <1>1
        <5> QED BY <5>1, LenProperties DEF Typed, TypeOK
      <4> QED BY <1>1, <2>2, <2>3, <3>1, <4>1 DEF s
    <3> QED BY <3>1, <3>2, <3>3 DEF Span, s
  <2> QED BY <1>3, <1>4, <1>7, <2>3
<1> QED BY <1>5, <1>6, <1>7, FoldSteps, CeilingType

LEMMA BoundaryGrows ==
  ASSUME Typed, [Next]_vars
  PROVE  boundary \in Nat /\ boundary' \in Nat /\ boundary <= boundary'
<1>1. boundary \in Nat /\ fold.cut \in Nat /\ (fold.cut # 0 => boundary < fold.cut)
  BY DEF Typed, TypeOK, Bounds, Fold
<1>2. boundary' = boundary \/ (fold.cut # 0 /\ boundary' = fold.cut)
  BY FoldSteps
<1> QED BY <1>1, <1>2

\* The attempt has read, or will read before it lands, what it answers for.
LEMMA ReadAheadKept ==
  ASSUME Typed, HeldOnce, Epochs, StoredOnce, ReadAhead, [Next]_vars
  PROVE  ReadAhead'
<1>1. Typed' /\ HeldOnce' /\ StoredOnce'
  BY NextTyped, HeldKept, StoredKept
<1>2. /\ boundary \in Nat /\ boundary' \in Nat /\ boundary <= boundary'
      /\ \A i \in In(members) : i \in Inputs /\ seq'[i] = seq[i] /\ seq[i] \in Nat
  BY BoundaryGrows, SeqMoves
<1>3. \A i \in In(members) : seq[i] > boundary => seq[i] \in att.seen \cup att.owned /\ seq[i] <= att.mark
  BY DEF ReadAhead
<1>4. ASSUME \A i \in In(members') :
        seq'[i] > boundary' => seq'[i] \in att'.seen \cup att'.owned /\ seq'[i] <= att'.mark
      PROVE  ReadAhead'
  BY <1>4 DEF ReadAhead, In
<1>5. ASSUME members' = members, SameReads \/ members = <<>> PROVE ReadAhead'
  <2>1. members = <<>> => In(members) = {}
    BY EmptyHolds
  <2> QED BY <1>2, <1>3, <1>4, <1>5, <2>1 DEF SameReads
<1>6. ASSUME Admits(att', log', seq', pending', members') PROVE ReadAhead'
  <2>1. /\ \A i : i \in In(members') => i \in Inputs
        /\ \A i : i \in In(pending') => i \in Inputs
    <3>1. members' \in Seq(Inputs) /\ pending' \in Seq(Inputs)
      BY <1>1 DEF Typed, TypeOK
    <3> QED BY <3>1, ElementOfSeq, LenProperties DEF In
  <2>2. ASSUME NEW i \in In(members')
        PROVE  /\ seq'[i] # 0 /\ log'[seq'[i]] = User /\ \A j \in In(pending') : seq'[j] # seq'[i]
    <3>1. i \in Inputs /\ status'[i] = "admitted"
      BY <1>1, <2>1, <2>2 DEF HeldOnce, In
    <3>2. seq'[i] # 0 /\ log'[seq'[i]] = User'
      BY <1>1, <3>1 DEF StoredOnce
    <3>3. \A j \in In(pending') : j \in Inputs /\ j # i
      BY <1>1, <2>1, <2>2 DEF HeldOnce, In
    <3>4. \A j \in In(pending') : seq'[j] # seq'[i]
      BY <1>1, <3>1, <3>2, <3>3 DEF StoredOnce
    <3> QED BY <3>2, <3>4
  <2>3. \A i \in In(members') : seq'[i] \in Nat
    BY <2>1, SeqMoves
  <2>4. \A i \in In(members') : seq'[i] > boundary
            => seq'[i] \in att'.seen \cup att'.owned /\ seq'[i] <= att'.mark
    BY <1>6, <2>2 DEF Admits
  <2> QED BY <1>2, <1>4, <2>3, <2>4
<1>7. CASE Still
  BY <1>5, <1>7 DEF Still
<1>8. ASSUME NEW o \in Settled, Ends(o) PROVE ReadAhead'
  BY <1>4, <1>8, EmptyHolds DEF Ends
<1>9. CASE Joins
  <2>1. log' = log /\ seq' = seq /\ Admits(att', log, seq, pending', members')
    BY <1>9 DEF Joins
  <2> QED BY <1>6, <2>1
<1>10. ASSUME NEW p, NEW m, Begun(p, m) PROVE ReadAhead'
  BY <1>4, <1>6, <1>10, EmptyHolds DEF Begun
<1>11. CASE Begins
  BY <1>10, <1>11 DEF Begins
<1>12. ASSUME NEW i \in Inputs, Arrives(i) PROVE ReadAhead'
  BY <1>5, <1>10, <1>12 DEF Arrives, SameReads
<1>13. ASSUME NEW i \in Inputs, StoreTrigger(i) PROVE ReadAhead'
  BY <1>5, <1>13 DEF StoreTrigger, lane, SameReads
<1>14. CASE ClaimSteers
  BY <1>5, <1>14 DEF ClaimSteers, SameReads
<1>15. att \in Attempt
  BY DEF Typed, TypeOK
<1>16. CASE Convert
  <2> DEFINE i == Head(converting).input
  <2>1. CASE UNCHANGED <<members, att>>
    BY <1>5, <2>1 DEF SameReads
  <2>2. CASE /\ members' = Append(members, i)
             /\ att' = [att EXCEPT !.owned = @ \cup {seq[i]}, !.mark = MaxOf({@, seq[i]})]
    <3>1. i \in Inputs /\ i \in Steers
      BY <1>16, ConvertSteers, HeldTypes DEF Typed
    <3>2. In(members') = In(members) \cup {i}
      BY <2>2, <3>1, AppendHolds, HeldTypes DEF Typed
    <3>3. seq'[i] = seq[i] /\ seq[i] \in 0..Len(log) /\ Len(log) \in Nat /\ att.mark \in 0..Len(log)
      BY <3>1, SeqMoves, LenProperties DEF Typed, TypeOK, Bounds
    <3> HIDE DEF i
    <3>4. att'.seen = att.seen /\ att'.owned = att.owned \cup {seq[i]} /\ att'.mark = MaxOf({att.mark, seq[i]})
      BY <1>15, <2>2 DEF Attempt
    <3>5. att.mark <= att'.mark /\ seq[i] <= att'.mark /\ att'.mark \in Nat /\ att.mark \in Nat
      <4>1. {att.mark, seq[i]} \in SUBSET (0..Len(log))
        BY <3>3
      <4>2. /\ MaxOf({att.mark, seq[i]}) \in 0..Len(log)
            /\ \A y \in {att.mark, seq[i]} : y <= MaxOf({att.mark, seq[i]})
        BY <3>3, <4>1, MaxOfIn
      <4> QED BY <3>3, <3>4, <4>2
    <3>6. \A j \in In(members') : j \in In(members) \/ j = i
      BY <3>2
    <3>7. ASSUME NEW j \in In(members'), seq'[j] > boundary'
          PROVE  seq'[j] \in att'.seen \cup att'.owned /\ seq'[j] <= att'.mark
      <4>1. CASE j \in In(members)
        <5>1. seq'[j] = seq[j] /\ seq[j] > boundary /\ seq[j] \in Nat
          BY <1>2, <3>7, <4>1
        <5>2. seq[j] \in att.seen \cup att.owned /\ seq[j] <= att.mark
          BY <1>3, <4>1, <5>1
        <5> QED BY <3>4, <3>5, <5>1, <5>2
      <4>2. CASE j = i
        BY <3>3, <3>4, <3>5, <4>2
      <4> QED BY <3>6, <4>1, <4>2
    <3> QED BY <1>4, <3>7
  <2> QED BY <1>16, <2>1, <2>2 DEF Convert
<1>17. CASE StopLane
  BY <1>5, <1>15, <1>17 DEF StopLane, SameReads, Attempt
<1> QED BY <1>7, <1>8, <1>9, <1>11, <1>12, <1>13, <1>14, <1>16, <1>17, Moves

\* Only a landing completes inputs.
LEMMA LandCompletes ==
  ASSUME Typed, HeldOnce, Epochs, [Next]_vars, NEW i \in Inputs,
         status'[i] = "completed", status[i] # "completed"
  PROVE  Land /\ i \in In(members)
<1>1. status \in [Inputs -> Status]
  BY DEF Typed, TypeOK
<1>2. ASSUME NEW o \in Settled, Ends(o) PROVE Land /\ i \in In(members)
  BY <1>2 DEF Ends, Settle
<1>3. \A p, m : ~Begun(p, m)
  BY DEF Begun, Settle
<1> QED BY <1>1, <1>2, <1>3, Moves
        DEF Still, Joins, Begins, Arrives, StoreTrigger, ClaimSteers, Convert, StopLane, Dropped, Settle

LEMMA ReadKept ==
  ASSUME Typed, HeldOnce, Epochs, StoredOnce, Spared, Summarised, ReadAhead, CompletedWasRead, [Next]_vars
  PROVE  CompletedWasRead'
<1>1. Grows(log) /\ log \in Seq(Event) /\ seq \in [Inputs -> 0..Len(log)]
  BY NextTyped DEF Typed, TypeOK
<1>2. /\ Len(log) \in Nat /\ \A s \in 1..Len(log) : log'[s] = log[s]
      /\ \A s \in DOMAIN log : s \in 1..Len(log) /\ s \in DOMAIN log'
  <2>1. /\ Len(log) \in Nat /\ Len(log') \in Nat /\ Len(log') >= Len(log)
        /\ \A s \in 1..Len(log) : log'[s] = log[s]
    BY <1>1, GrowsHolds
  <2>2. DOMAIN log = 1..Len(log) /\ DOMAIN log' = 1..Len(log')
    BY <1>1, GrowsHolds
  <2>3. \A s \in 1..Len(log) : s \in 1..Len(log')
    BY <2>1
  <2> QED BY <2>1, <2>2, <2>3
<1>3. summarised \subseteq summarised'
  BY FoldSteps
<1>4. \A i \in Inputs : seq[i] # 0 => seq'[i] = seq[i]
  BY SeqMoves
<1>5. SUFFICES ASSUME NEW i \in Inputs, status'[i] = "completed"
               PROVE  \E r \in Replies' : /\ seq'[i] \in log'[r].reads \/ (i \in Late /\ seq'[i] \in summarised')
                                          /\ seq'[i] <= Key(log', r)
  BY DEF CompletedWasRead, Key
<1>6. CASE status[i] = "completed"
  <2>1. PICK r \in Replies : /\ seq[i] \in log[r].reads \/ (i \in Late /\ seq[i] \in summarised)
                             /\ seq[i] <= Key(log, r)
    BY <1>6 DEF CompletedWasRead
  <2>2. seq'[i] = seq[i]
    BY <1>4, <1>6 DEF StoredOnce
  <2>3. r \in Replies' /\ log'[r] = log[r]
    BY <1>2 DEF Replies
  <2> QED BY <1>3, <2>1, <2>2, <2>3 DEF Key
<1>7. CASE status[i] # "completed"
  <2>1. Land /\ i \in In(members)
    BY <1>5, <1>7, LandCompletes
  <2> DEFINE r == Len(log) + 1
             reads == ReadBy(att)
             told == reads \ {boundary}
  <2>2. /\ log' = Append(log, Reply(MaxOf(reads), told)) /\ seq' = seq
    BY <2>1 DEF Land
  <2>3. /\ reads \in SUBSET (0..Len(log)) /\ reads \in SUBSET Nat /\ told \in SUBSET Nat
        /\ \A s \in reads : s \in Nat /\ s >= boundary
    <3>0. boundary \in 0..Len(log)
      BY DEF Typed, TypeOK
    <3>1. \A s \in reads : /\ s \in 1..Len(log)
                           /\ s = boundary \/ (s \in DOMAIN log /\ Key(log, s) > boundary)
      BY <1>2, <3>0 DEF ReadBy, View
    <3>2. \A s \in 1..Len(log) : log[s].anchor \in Nat
      <4>1. \A s \in 1..Len(log) : log[s] \in Event
        BY <1>1, ElementOfSeq
      <4> QED BY <4>1 DEF Event
    <3>3. ASSUME NEW s \in reads PROVE s \in 0..Len(log) /\ s \in Nat /\ s >= boundary
      <4>1. CASE s = boundary
        BY <3>0, <4>1
      <4>2. CASE s # boundary
        <5>1. s \in 1..Len(log) /\ s \in DOMAIN log /\ Key(log, s) > boundary
          BY <3>1, <3>3, <4>2
        <5>2. log[s].anchor < s /\ log[s].anchor \in Nat
          BY <3>2, <5>1 DEF StoredOnce
        <5>3. Key(log, s) \in Nat /\ Key(log, s) <= s /\ s \in Nat
          BY <1>2, <5>1, <5>2 DEF Key
        <5> QED BY <1>2, <3>0, <5>1, <5>3
      <4> QED BY <4>1, <4>2
    <3> QED BY <3>3
  <2> HIDE DEF reads, told
  <2>4. /\ MaxOf(reads) \in 0..Len(log) /\ (reads # {} => MaxOf(reads) \in reads)
        /\ \A y \in reads : y <= MaxOf(reads)
    BY <1>2, <2>3, MaxOfIn
  <2>5. Reply(MaxOf(reads), told) \in Event
    BY <1>2, <2>3, <2>4 DEF Reply, Event
  <2>6. r \in DOMAIN log' /\ log'[r] = Reply(MaxOf(reads), told)
    <3>1. log' \in Seq(Event) /\ Len(log') = r /\ log'[r] = Reply(MaxOf(reads), told)
      BY <1>1, <2>2, <2>5, AppendProperties
    <3>2. r \in 1..Len(log')
      BY <1>2, <3>1
    <3> QED BY <3>1, <3>2, LenProperties
  <2>7. log'[r].kind = "reply" /\ log'[r].reads = told /\ log'[r].anchor = MaxOf(reads)
    BY <2>6 DEF Reply
  <2>8. r \in Replies'
    BY <2>6, <2>7 DEF Replies
  <2>9. Key(log', r) = IF MaxOf(reads) = 0 THEN r ELSE MaxOf(reads)
    BY <2>7 DEF Key
  <2>10. seq[i] \in 1..Len(log) /\ log[seq[i]] = User
    <3>1. status[i] = "admitted"
      BY <2>1 DEF HeldOnce
    <3>2. seq[i] # 0 /\ seq[i] \in 0..Len(log)
      BY <1>1, <3>1 DEF StoredOnce
    <3> QED BY <1>2, <3>2 DEF StoredOnce
  <2>11. boundary \in Nat
    BY DEF Typed, TypeOK
  <2>12. CASE seq[i] > boundary
    <3>1. seq[i] \in att.seen \cup att.owned /\ seq[i] <= att.mark
      BY <2>1, <2>12 DEF ReadAhead
    <3>2. seq[i] \in View(log) /\ log[seq[i]].kind = "user"
      <4>1. seq[i] \in DOMAIN log
        BY <1>1, <2>10, LenProperties
      <4> QED BY <2>10, <2>12, <4>1 DEF View, Key, User
    <3>3. seq[i] \in reads
      BY <3>1, <3>2 DEF ReadBy, UserEntry, reads
    <3>5. seq[i] \in told
      BY <2>10, <2>11, <2>12, <3>3 DEF told
    <3>4. seq[i] <= MaxOf(reads) /\ MaxOf(reads) # 0
      BY <1>2, <2>4, <2>10, <3>3
    <3> HIDE DEF r
    <3> QED BY <2>2, <2>7, <2>8, <2>9, <3>5, <3>4
  <2>13. CASE seq[i] <= boundary
    <3>1. i \in Late
      <4>1. i \notin Late => i \in Waiting
        BY <2>1 DEF Waiting
      <4>2. i \notin Late => seq[i] > boundary
        BY <4>1 DEF Spared
      <4> QED BY <2>10, <2>11, <2>13, <4>2
    <3>2. seq[i] \in summarised'
      BY <1>2, <1>3, <2>10, <2>13 DEF Summarised
    <3>3. seq[i] <= Key(log', r)
      <4>1. CASE MaxOf(reads) = 0
        BY <1>2, <2>9, <2>10, <4>1
      <4>2. CASE MaxOf(reads) # 0
        <5>1. MaxOf(reads) \in reads
          <6>1. reads = {} => MaxOf(reads) = 0
            BY DEF MaxOf
          <6> QED BY <2>4, <4>2, <6>1
        <5>2. MaxOf(reads) >= boundary /\ MaxOf(reads) \in Nat
          BY <2>3, <5>1
        <5>3. seq[i] <= MaxOf(reads)
          BY <1>2, <2>10, <2>11, <2>13, <5>2
        <5> QED BY <2>9, <4>2, <5>3
      <4> QED BY <4>1, <4>2
    <3> HIDE DEF r
    <3> QED BY <2>2, <2>8, <3>1, <3>2, <3>3
  <2> QED BY <1>2, <2>10, <2>11, <2>12, <2>13
<1> QED BY <1>6, <1>7

-----------------------------------------------------------------------------
(* The invariant holds of every reachable state. *)

LEMMA InitLane == Init => LaneInv
<1> SUFFICES ASSUME Init PROVE LaneInv
  OBVIOUS
<1>1. Typed
  BY InitTyped
<1>2. /\ log = <<>> /\ pending = <<>> /\ members = <<>> /\ converting = <<>> /\ stopped = {}
      /\ seq = [i \in Inputs |-> 0] /\ status = [i \in Inputs |-> "new"]
      /\ admitEpoch = [i \in Inputs |-> 0] /\ epoch = 1 /\ boundary = 0
      /\ att = Lull("idle") /\ fold = NoFold
  BY DEF Init
<1>3. In(<<>>) = {} /\ Distinct(<<>>) /\ DOMAIN <<>> = {}
  BY EmptyHolds
<1>4. att.epoch = 0 /\ fold.cut = 0 /\ fold.why = "none" /\ att.phase = "idle"
  BY <1>2, LullFacts, FoldFacts DEF Phases
<1>5. Steers = {} /\ Current = {}
  BY <1>2, <1>3 DEF Steers, Current
<1>6. HeldOnce
  BY <1>2, <1>3, <1>5 DEF HeldOnce
<1>7. Epochs
  BY <1>2, <1>3, <1>4 DEF Epochs
<1>8. StoredOnce
  BY <1>2, <1>3 DEF StoredOnce
<1>9. StoppedStale /\ UnderAuthority
  BY <1>2, <1>3 DEF StoppedStale, UnderAuthority
<1>10. InLine
  BY <1>2, <1>3, <1>5 DEF InLine, Ordered
<1>11. Spared
  BY <1>2, <1>3, <1>4, <1>5 DEF Spared, Waiting, InTurn
<1>12. Summarised /\ CompletedWasRead
  BY <1>2 DEF Summarised, CompletedWasRead
<1>13. ReadAhead
  BY <1>2, <1>3 DEF ReadAhead
<1> QED BY <1>1, <1>6, <1>7, <1>8, <1>9, <1>10, <1>11, <1>12, <1>13 DEF LaneInv

LEMMA NextLane == LaneInv /\ [Next]_vars => LaneInv'
<1> SUFFICES ASSUME LaneInv, [Next]_vars PROVE LaneInv'
  OBVIOUS
<1>1. /\ Typed /\ HeldOnce /\ Epochs /\ StoredOnce /\ StoppedStale /\ InLine
      /\ Spared /\ Summarised /\ ReadAhead /\ CompletedWasRead
      /\ Fallbacks = 0 => UnderAuthority
  BY DEF LaneInv
<1>2. Typed' /\ HeldOnce' /\ Epochs' /\ StoredOnce'
  BY <1>1, NextTyped, HeldKept, EpochsKept, StoredKept
<1>3. StoppedStale' /\ InLine' /\ (Fallbacks = 0 => UnderAuthority')
  BY <1>1, StoppedKept, LineKept, AuthorityKept
<1>4. Spared' /\ Summarised' /\ ReadAhead' /\ CompletedWasRead'
  BY <1>1, SparedKept, SummarisedKept, ReadAheadKept, ReadKept
<1> QED BY <1>2, <1>3, <1>4 DEF LaneInv

LEMMA LaneHolds == Spec => []LaneInv
<1>1. Init => LaneInv
  BY InitLane
<1>2. LaneInv /\ [Next]_vars => LaneInv'
  BY NextLane
<1> QED BY <1>1, <1>2, PTL DEF Spec

-----------------------------------------------------------------------------
(* What it means. *)

\* The lane's variables keep their types (runtime.ts, Lane, Attempt).
THEOREM LaneTypeCorrect == Spec => []TypeOK
<1>1. LaneInv => TypeOK
  BY DEF LaneInv, Typed
<1> QED BY <1>1, LaneHolds, PTL

\* Where each admitted input is, as one sequence.
LEMMA CustodyHolds ==
  ASSUME Typed, HeldOnce
  PROVE  Custody
<1> DEFINE steers == [k \in DOMAIN converting |-> converting[k].input]
           held == pending \o steers \o members
<1>1. pending \in Seq(Inputs) /\ members \in Seq(Inputs) /\ In(pending) \subseteq Inputs
      /\ In(members) \subseteq Inputs /\ Steers \subseteq Inputs
  BY HeldTypes DEF Typed
<1>2. steers \in Seq(Inputs) /\ In(steers) = Steers /\ Distinct(steers)
  <2>1. Len(converting) \in Nat /\ DOMAIN converting = 1..Len(converting)
    BY LenProperties DEF Typed, TypeOK
  <2>2. steers \in [1..Len(converting) -> Inputs]
    BY <1>1, <2>1 DEF Steers
  <2>3. steers \in Seq(Inputs)
    BY <2>1, <2>2, FunctionIsSeq
  <2>4. In(steers) = Steers
    BY DEF In, Steers
  <2>5. Distinct(steers)
    BY DEF HeldOnce, Distinct
  <2> QED BY <2>3, <2>4, <2>5
<1> HIDE DEF steers
<1>3. /\ pending \o steers \in Seq(Inputs) /\ In(pending \o steers) = In(pending) \cup Steers
      /\ Distinct(pending \o steers)
  BY <1>1, <1>2, ConcatHolds DEF HeldOnce
<1>4. In(held) = In(pending) \cup Steers \cup In(members) /\ Distinct(held)
  <2> DEFINE q == pending \o steers
  <2>1. q \in Seq(Inputs) /\ Distinct(q) /\ Distinct(members) /\ In(q) \cap In(members) = {}
    BY <1>3 DEF HeldOnce
  <2>2. In(q) = In(pending) \cup Steers
    BY <1>3
  <2> HIDE DEF q
  <2>3. In(q \o members) = In(q) \cup In(members) /\ Distinct(q \o members)
    BY ONLY <1>1, <2>1, ConcatHolds
  <2> QED BY <2>2, <2>3 DEF q
<1>5. {i \in Inputs : status[i] = "admitted"} = In(held)
  BY <1>1, <1>4 DEF HeldOnce
<1>6. \A j, k \in DOMAIN held : held[j] = held[k] => j = k
  BY <1>4 DEF Distinct
<1> QED BY <1>5, <1>6 DEF Custody, steers

\* An input is in one place until it is settled, no later message of the operator's is in
\* a turn while an earlier one is queued, and an input reported completed was read by a
\* landed reply that anchors at or after it (runtime.ts, claimableCount, runAttempt).
THEOREM LaneHeldAndRead == Spec => []HeldAndRead
<1>1. LaneInv => HeldAndRead
  <2> SUFFICES ASSUME LaneInv PROVE HeldAndRead
    OBVIOUS
  <2>1. Typed /\ HeldOnce /\ InLine /\ CompletedWasRead
    BY DEF LaneInv
  <2>2. NoOvertaking
    BY <2>1 DEF InLine, NoOvertaking
  <2> QED BY <2>1, <2>2, CustodyHolds DEF HeldAndRead, Typed
<1> QED BY <1>1, LaneHolds, PTL

\* No fold covers an operator's message whose turn is still to come or still running: a
\* cut is chosen below everything that waits, and the boundary moves to a cut that still
\* is (runtime.ts, foldCeiling, commit).  A trigger's event is older than its admission,
\* so it may have been folded before it was offered: it is the property's one exception.
THEOREM LaneFoldsSpare == Spec => []FoldSparesUnanswered
<1>1. LaneInv => FoldSparesUnanswered
  BY DEF LaneInv, Spared, Waiting, FoldSparesUnanswered
<1> QED BY <1>1, LaneHolds, PTL

-----------------------------------------------------------------------------
(* What no step does. *)

\* An input that a stop found is in no place from which it could be answered.
LEMMA StoppedNotLanded ==
  ASSUME LaneInv, [Next]_vars, NEW i \in stopped
  PROVE  status'[i] # "completed"
<1>1. Typed /\ HeldOnce /\ Epochs /\ StoppedStale
  BY DEF LaneInv
<1>2. i \in Inputs
  BY <1>1 DEF Typed, TypeOK
<1>3. status[i] # "completed" /\ (i \in In(members) => ~Authority)
  BY <1>1 DEF StoppedStale
<1>4. ~(Land /\ i \in In(members))
  BY <1>3 DEF Land
<1> QED BY <1>1, <1>2, <1>3, <1>4, LandCompletes

\* What a /stop found on the lane is never completed afterwards: what it drops is fenced,
\* and what runs has lost its authority for good (runtime.ts, cancelFenced, bump).
THEOREM LaneStopIsFinal == Spec => StopIsFinal
<1>1. LaneInv /\ [Next]_vars => [\A i \in stopped : status'[i] # "completed"]_vars
  BY StoppedNotLanded
<1> QED BY <1>1, LaneHolds, PTL DEF Spec, StopIsFinal

\* A step settles what is stored or admitted, and nothing else.
LEMMA SettledStays ==
  ASSUME LaneInv, [Next]_vars, NEW j \in Inputs, status[j] \in Settled
  PROVE  status'[j] = status[j]
<1>1. Typed /\ HeldOnce /\ Epochs
  BY DEF LaneInv
<1>2. status[j] \notin {"new", "stored", "admitted"}
  BY DEF Settled
<1>3. Progress(j)
  BY <1>1, <1>2, Stores
<1> QED BY <1>2, <1>3 DEF Progress

\* An input is settled once: an answer, an error or a fence is never followed by another
\* (runtime.ts, notifyDone).
THEOREM LaneSettledOnce == Spec => SettledOnce
<1>1. LaneInv /\ [Next]_vars => [\A i \in Inputs : status[i] \in Settled => status'[i] = status[i]]_vars
  BY SettledStays
<1> QED BY <1>1, LaneHolds, PTL DEF Spec, SettledOnce

\* Who fences an admitted input: a turn that lost its authority, a conversion that came
\* back too late, or a stop that finds it in the queue.
LEMMA FencedBy ==
  ASSUME Typed, HeldOnce, Epochs, [Next]_vars, NEW i \in Inputs,
         status[i] = "admitted", status'[i] = "fenced"
  PROVE  \/ epoch' = epoch /\ i \in In(members) /\ ~Authority
         \/ /\ epoch' = epoch /\ converting # <<>>
            /\ i = Head(converting).input /\ Head(converting).epoch # epoch
         \/ epoch' = epoch + 1
<1>1. status \in [Inputs -> Status]
  BY DEF Typed, TypeOK
<1>2. ASSUME NEW o \in Settled, Ends(o) PROVE epoch' = epoch /\ i \in In(members) /\ ~Authority
  BY <1>2 DEF Ends, Settle
<1>3. ~Begins
  BY DEF Begins, Begun, Settle
<1>4. \A j \in Inputs : ~Arrives(j)
  BY <1>1 DEF Arrives, Begun, Settle
<1>5. ~Still /\ ~Joins /\ ~ClaimSteers /\ \A j \in Inputs : ~StoreTrigger(j)
  BY <1>1 DEF Still, Joins, ClaimSteers, StoreTrigger
<1>6. CASE Convert
  BY <1>1, <1>6 DEF Convert
<1>7. CASE StopLane
  BY <1>7 DEF StopLane, NextEpoch
<1> QED BY <1>2, <1>3, <1>4, <1>5, <1>6, <1>7, Moves

\* When no turn moves to another model, whoever is fenced lost an authority that was
\* granted to it: the epoch it was admitted under is over.
LEMMA FencedLate ==
  ASSUME LaneInv, Fallbacks = 0, [Next]_vars, NEW i \in Inputs,
         status[i] = "admitted", status'[i] = "fenced"
  PROVE  epoch' > admitEpoch[i]
<1>1. Typed /\ HeldOnce /\ Epochs /\ UnderAuthority
  BY DEF LaneInv
<1>2. /\ epoch \in Nat /\ att.epoch \in Nat /\ admitEpoch[i] \in Nat
      /\ att.epoch <= epoch /\ admitEpoch[i] <= epoch
  BY <1>1, EpochTypes DEF Epochs, Typed, TypeOK
<1>3. CASE epoch' = epoch /\ i \in In(members) /\ ~Authority
  BY <1>1, <1>2, <1>3 DEF UnderAuthority, Authority
<1>4. CASE /\ epoch' = epoch /\ converting # <<>>
           /\ i = Head(converting).input /\ Head(converting).epoch # epoch
  <2>1. 1 \in DOMAIN converting /\ Head(converting) = converting[1]
    BY <1>1, <1>4 DEF Typed, TypeOK
  <2>2. converting[1].epoch \in Nat /\ converting[1].epoch <= epoch
    BY <1>1, <2>1, EpochTypes DEF Epochs, Typed, TypeOK
  <2>3. admitEpoch[i] <= converting[1].epoch /\ converting[1].epoch # epoch
    BY <1>1, <1>4, <2>1 DEF UnderAuthority
  <2> QED BY <1>2, <1>4, <2>2, <2>3
<1>5. CASE epoch' = epoch + 1
  BY <1>2, <1>5
<1> QED BY <1>1, <1>3, <1>4, <1>5, FencedBy

\* The fence of authority, both ways.  The second half needs a lane without fallback
\* models: a turn that moves to the next one lets what is queued join it without asking
\* for its authority again (runtime.ts, nextFallback), and is then fenced with it.
THEOREM LaneFenceHolds == Fallbacks = 0 => (Spec => FenceHolds)
<1>1. ASSUME Fallbacks = 0 PROVE Spec => FencedForCause
  <2>1. LaneInv /\ [Next]_vars
          => [\A i \in Inputs : status[i] = "admitted" /\ status'[i] = "fenced"
                                  => epoch' > admitEpoch[i]]_vars
    BY <1>1, FencedLate
  <2> QED BY <2>1, LaneHolds, PTL DEF Spec, FencedForCause
<1> QED BY <1>1, LaneStopIsFinal, LaneSettledOnce DEF FenceHolds
=============================================================================
