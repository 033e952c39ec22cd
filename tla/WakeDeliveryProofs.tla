-------------------------- MODULE WakeDeliveryProofs --------------------------
(***************************************************************************)
(* What holds of wake delivery for every set of developments, every        *)
(* fallback list and every number of stops, runs, crashes and refused      *)
(* writes.                                                                 *)
(*                                                                         *)
(* The argument.  A wake may be offered to the lane only while no run has  *)
(* taken its trigger, so the invariant says of each row which runs took    *)
(* it: none while it waits, runs on the chain of the one it is linked to   *)
(* once it is owned; if a link was refused, the fence of this process or   *)
(* of one that ended accounts for it.  Of the attempt it says that its     *)
(* line holds the chains of the run that handed over to it and of the one  *)
(* it resumes, so that whatever it begins continues the runs which took    *)
(* its members.  A pump, wherever it is called, rewrites each row by one   *)
(* of five steps (RowStep), each of which keeps what the row says.         *)
(*                                                                         *)
(* For RunDecides a second invariant goes on from there (DecideInv): of    *)
(* the runs which continue those that took a wake's trigger, only the one  *)
(* the wake is linked to may still go on, and while an attempt carries     *)
(* that run further (Carried), a pump leaves the wake undecided.           *)
(***************************************************************************)
EXTENDS WakeDelivery, TLAPS, SequenceTheorems, WellFoundedInduction

-----------------------------------------------------------------------------
(* Finite sets of numbers have a least and a greatest element. *)

LEMMA LeastExists ==
  ASSUME NEW S \in SUBSET Nat, S # {}
  PROVE  \E x \in S : \A y \in S : x <= y
<1> DEFINE R == OpToRel(<, Nat)
<1>1. IsWellFoundedOn(R, Nat)
  BY NatLessThanWellFounded
<1>2. \A x, y \in Nat : x < y => <<x, y>> \in R
  <2> SUFFICES ASSUME NEW x \in Nat, NEW y \in Nat, x < y PROVE <<x, y>> \in R
    OBVIOUS
  <2> QED BY Zenon DEF OpToRel
<1> HIDE DEF R
<1>3. PICK x \in S : \A y \in S : ~ (<<y, x>> \in R)
  BY <1>1, WFMin
<1>4. ASSUME NEW y \in S PROVE x <= y
  <2>1. x \in Nat /\ y \in Nat /\ ~ (y < x)
    BY <1>2, <1>3
  <2> QED BY <2>1
<1> QED BY <1>4

LEMMA GreatestExists ==
  ASSUME NEW n \in Nat, NEW S \in SUBSET (1..n), S # {}
  PROVE  \E x \in S : \A y \in S : y <= x
<1> DEFINE T == {n - x : x \in S}
<1>1. T \in SUBSET Nat /\ T # {}
  <2>1. \A x \in S : n - x \in Nat
    OBVIOUS
  <2>2. PICK x \in S : TRUE
    OBVIOUS
  <2>3. n - x \in T
    OBVIOUS
  <2> QED BY <2>1, <2>3
<1>2. PICK t \in T : \A u \in T : t <= u
  BY <1>1, LeastExists
<1>3. PICK x \in S : t = n - x
  OBVIOUS
<1>4. ASSUME NEW y \in S PROVE y <= x
  <2>1. n - y \in T
    OBVIOUS
  <2>2. n - x <= n - y
    BY <1>2, <1>3, <2>1
  <2>3. x \in 1..n /\ y \in 1..n
    OBVIOUS
  <2> QED BY <2>2, <2>3
<1> QED BY <1>4

LEMMA MaxOfIn ==
  ASSUME NEW n \in Nat, NEW S \in SUBSET (1..n), S # {}
  PROVE  MaxOf(S) \in S /\ \A y \in S : y <= MaxOf(S)
  BY GreatestExists DEF MaxOf

\* The domain of a sequence, apart from its length.
LEMMA SeqFacts ==
  ASSUME NEW S, NEW s \in Seq(S)
  PROVE  /\ Len(s) \in Nat /\ \A k \in DOMAIN s : k \in 1..Len(s) /\ s[k] \in S
         /\ \A k \in 1..Len(s) : k \in DOMAIN s
  BY LenProperties, ElementOfSeq

LEMMA MapIsSeq ==
  ASSUME NEW S, NEW s \in Seq(S), NEW T, NEW f, f \in [DOMAIN s -> T]
  PROVE  f \in Seq(T) /\ DOMAIN f = DOMAIN s /\ Len(f) = Len(s)
<1>1. Len(s) \in Nat /\ DOMAIN s = 1..Len(s)
  BY LenProperties
<1>2. f \in [1..Len(s) -> T]
  BY <1>1
<1>3. f \in Seq(T)
  BY <1>1, <1>2 DEF Seq
<1> QED BY <1>1, <1>2, <1>3, LenProperties

LEMMA AppendFacts ==
  ASSUME NEW S, NEW s \in Seq(S), NEW x \in S
  PROVE  LET t == Append(s, x)
         IN  /\ t \in Seq(S) /\ Len(t) = Len(s) + 1 /\ t[Len(s) + 1] = x
             /\ DOMAIN t = DOMAIN s \cup {Len(s) + 1} /\ Len(s) + 1 \notin DOMAIN s
             /\ \A k \in DOMAIN s : t[k] = s[k]
<1>1. Append(s, x) \in Seq(S)
  BY AppendProperties
<1>2. Len(s) \in Nat /\ DOMAIN s = 1..Len(s)
  BY LenProperties
<1>3. Len(Append(s, x)) = Len(s) + 1 /\ DOMAIN Append(s, x) = 1..(Len(s) + 1)
  BY <1>1, AppendProperties, LenProperties
<1> QED BY <1>1, <1>2, <1>3, AppendProperties

-----------------------------------------------------------------------------
(* Runs and resume chains. *)

\* A run that was resumed has a successor, which comes later and continues its line.
RunsOK(rs, ln) ==
    /\ rs \in Seq(Run) /\ ln \in Seq(SUBSET (1..MaxRuns)) /\ DOMAIN ln = DOMAIN rs
    /\ DOMAIN rs \subseteq 1..MaxRuns
    /\ \A k \in DOMAIN rs :
          /\ k \in ln[k] /\ ln[k] \subseteq DOMAIN rs
          /\ rs[k].from # 0 => /\ rs[k].from \in DOMAIN rs /\ rs[k].from < k
                               /\ ln[rs[k].from] \subseteq ln[k]
          /\ rs[k].status = "resumed" => \E j \in DOMAIN rs : rs[j].from = k

LEMMA SuccessorFacts ==
  ASSUME NEW rs, NEW ln, RunsOK(rs, ln), NEW k \in DOMAIN rs, rs[k].status = "resumed"
  PROVE  LET j == Successor(rs, k)
         IN  j \in DOMAIN rs /\ k < j /\ ln[k] \subseteq ln[j]
<1> DEFINE S == {j \in DOMAIN rs : rs[j].from = k}
           j == MaxOf(S)
<1>1. Len(rs) \in Nat /\ \A i \in DOMAIN rs : i \in 1..Len(rs)
  BY SeqFacts DEF RunsOK
<1>2. S \in SUBSET (1..Len(rs)) /\ S # {}
  BY <1>1 DEF RunsOK
<1>3. j \in S
  <2> HIDE DEF S
  <2> QED BY <1>1, <1>2, MaxOfIn
<1>4. j = Successor(rs, k)
  BY DEF Successor
<1> HIDE DEF j
<1>5. j \in DOMAIN rs /\ rs[j].from = k
  BY <1>3
<1>6. k # 0
  BY <1>1
<1> QED BY <1>4, <1>5, <1>6 DEF RunsOK

\* The equation that chainEnd's recursion solves.
EndsAt(rs, f) == f = [k \in DOMAIN rs |-> IF rs[k].status = "resumed" THEN f[Successor(rs, k)] ELSE k]

LEMMA EndExists ==
  ASSUME NEW rs, NEW ln, RunsOK(rs, ln)
  PROVE  \E f : EndsAt(rs, f)
<1> DEFINE n == Len(rs)
           D == DOMAIN rs
           step(f, k) == IF rs[k].status = "resumed" THEN f[Successor(rs, k)] ELSE k
           Solved(m) == \E f \in [D -> D] : \A k \in D : k + m > n => f[k] = step(f, k)
           B == {m \in 0..n : ~Solved(m)}
<1>1. n \in Nat /\ D = 1..n
  BY LenProperties DEF RunsOK
<1>2. \A k \in D : rs[k].status = "resumed" => Successor(rs, k) \in D /\ k < Successor(rs, k)
  BY SuccessorFacts
<1> HIDE DEF n, D
<1>3. Solved(0)
  <2>1. [k \in D |-> k] \in [D -> D] /\ \A k \in D : ~ (k + 0 > n)
    BY <1>1
  <2> QED BY <2>1
<1>4. ASSUME NEW m \in 0..n, m # 0, Solved(m - 1) PROVE Solved(m)
  <2>1. PICK f \in [D -> D] : \A k \in D : k + (m - 1) > n => f[k] = step(f, k)
    BY <1>4
  <2> DEFINE a == n - m + 1
             g == [f EXCEPT ![a] = step(f, a)]
  <2>2. a \in D
    <3>1. m \in 0..n /\ m # 0
      BY <1>4
    <3> HIDE DEF step, Solved, g
    <3> QED BY ONLY <1>1, <3>1
  <2>3. step(f, a) \in D
    BY <1>2, <2>2
  <2>4. g \in [D -> D]
    BY <2>2, <2>3
  <2>5. ASSUME NEW k \in D, k + m > n PROVE g[k] = step(g, k)
    <3>1. rs[k].status = "resumed" => Successor(rs, k) \in D /\ Successor(rs, k) # a
      <4>1. k >= a /\ a \in Int /\ k \in Int
        BY <1>1, <1>4, <2>5, <2>2
      <4> HIDE DEF a
      <4>2. rs[k].status = "resumed" => Successor(rs, k) \in Int
        BY <1>1, <1>2
      <4> QED BY <1>2, <4>1, <4>2
    <3>2. step(g, k) = step(f, k)
      BY <3>1, <2>2
    <3>3. CASE k = a
      BY <2>2, <3>2, <3>3
    <3>4. CASE k # a
      <4>1. k + (m - 1) > n
        BY <1>1, <1>4, <2>5, <3>4
      <4> QED BY <2>1, <3>2, <3>4, <4>1
    <3> QED BY <3>3, <3>4
  <2> HIDE DEF g
  <2> QED BY <2>4, <2>5
<1>5. Solved(n)
  <2> HIDE DEF Solved
  <2>1. ASSUME B # {} PROVE FALSE
    <3>1. B \in SUBSET Nat
      BY <1>1
    <3>2. PICK m \in B : \A y \in B : m <= y
      BY <2>1, <3>1, LeastExists
    <3>3. m # 0 /\ m \in 0..n
      BY <1>3, <3>2
    <3>4. m - 1 \in 0..n /\ ~ (m <= m - 1)
      BY <1>1, <3>3
    <3>5. Solved(m - 1)
      BY <3>2, <3>4
    <3> QED BY <1>4, <3>2, <3>3, <3>5
  <2> QED BY <1>1, <2>1
<1>6. PICK f \in [D -> D] : \A k \in D : k + n > n => f[k] = step(f, k)
  BY <1>5
<1>7. \A k \in D : f[k] = step(f, k)
  BY <1>1, <1>6
<1>8. f = [k \in D |-> step(f, k)]
  BY <1>6, <1>7
<1> QED BY <1>8 DEF EndsAt, D

LEMMA ChainEndFacts ==
  ASSUME NEW rs, NEW ln, RunsOK(rs, ln), NEW r \in DOMAIN rs
  PROVE  /\ ChainEnd(rs, r) \in DOMAIN rs /\ ChainEnd(rs, r) # 0
         /\ ln[r] \subseteq ln[ChainEnd(rs, r)] /\ rs[ChainEnd(rs, r)].status # "resumed"
<1> DEFINE f == CHOOSE g : EndsAt(rs, g)
           good(k) == f[k] \in DOMAIN rs /\ ln[k] \subseteq ln[f[k]] /\ rs[f[k]].status # "resumed"
           B == {k \in DOMAIN rs : ~good(k)}
<1>1. EndsAt(rs, f)
  BY EndExists
<1>2. ChainEnd(rs, r) = f[r]
  BY DEF ChainEnd, EndsAt
<1> HIDE DEF f
<1>3. \A k \in DOMAIN rs : f[k] = IF rs[k].status = "resumed" THEN f[Successor(rs, k)] ELSE k
  <2> DEFINE body(k) == IF rs[k].status = "resumed" THEN f[Successor(rs, k)] ELSE k
  <2>1. f = [k \in DOMAIN rs |-> body(k)]
    BY <1>1 DEF EndsAt
  <2> HIDE DEF body
  <2>2. \A k \in DOMAIN rs : f[k] = body(k)
    BY <2>1
  <2> QED BY <2>2 DEF body
<1>4. ASSUME B # {} PROVE FALSE
  <2>1. Len(rs) \in Nat /\ \A i \in DOMAIN rs : i \in 1..Len(rs)
    BY SeqFacts DEF RunsOK
  <2>2. B \in SUBSET (1..Len(rs))
    BY <2>1
  <2>3. PICK k \in B : \A y \in B : y <= k
    BY <1>4, <2>1, <2>2, GreatestExists
  <2>4. k \in DOMAIN rs /\ ~good(k)
    BY <2>3
  <2>5. CASE rs[k].status = "resumed"
    <3> DEFINE j == Successor(rs, k)
    <3>1. j \in DOMAIN rs /\ k < j /\ ln[k] \subseteq ln[j]
      BY <2>4, <2>5, SuccessorFacts
    <3> HIDE DEF j
    <3>2. j \notin B
      BY <2>1, <2>3, <2>4, <3>1
    <3>3. f[k] = f[j]
      BY <1>3, <2>4, <2>5 DEF j
    <3> QED BY <2>4, <3>1, <3>2, <3>3
  <2>6. CASE rs[k].status # "resumed"
    BY <1>3, <2>4, <2>6
  <2> QED BY <2>5, <2>6
<1>5. good(r)
  BY <1>4
<1>6. f[r] # 0
  BY <1>5 DEF RunsOK
<1> QED BY <1>2, <1>5, <1>6

-----------------------------------------------------------------------------
(* What the rows say.  The predicates take the rows as arguments: a pump works *)
(* on rows that its caller has changed already.                                *)

\* One wake: its row, the runs tk that took its trigger, and whether it is fenced in
\* this process or was when one ended.
WakeOK(row, tk, rs, ln, fenced, ep) ==
    /\ row.run \in {0} \cup DOMAIN rs /\ row.epoch <= ep
    /\ tk \subseteq DOMAIN rs
    /\ row.state = "pending" => tk = {} /\ row.run = 0
    /\ row.state = "claimed" /\ row.run = 0 /\ row.epoch = ep /\ tk # {} => fenced
    /\ row.state = "claimed" /\ row.run # 0 => tk \cap ln[row.run] # {}
    /\ row.state = "settled" => \E r \in DOMAIN rs : rs[r].status = "completed" /\ tk \cap ln[r] # {}

\* Wakes and the runs that took them.
WakesOK(ws, tk, rs, ln, fenced, ep) ==
    /\ ws \in Seq(Wake) /\ tk \in Seq(SUBSET (1..MaxRuns)) /\ DOMAIN tk = DOMAIN ws
    /\ \A w \in DOMAIN ws : WakeOK(ws[w], tk[w], rs, ln, w \in fenced, ep)

\* Developments: each is in the trigger of its wake once that is composed.
ToldOK(ws, wo, td) ==
    /\ wo \in [Events -> 0..Len(ws)] /\ td \subseteq Events
    /\ \A e \in Events : wo[e] # 0 /\ ws[wo[e]].state # "pending" => e \in td

\* What a pump does to a row.
Becomes(new, st, ep, r) == new.state = st /\ new.epoch = ep /\ new.run = r
RowStep(row, rs, new) ==
    /\ new \in Wake
    /\ \/ Becomes(new, row.state, row.epoch, row.run)
       \/ row.state = "claimed" /\ Becomes(new, "failed", row.epoch, row.run)
       \/ /\ row.state = "claimed" /\ row.run # 0 /\ rs[ChainEnd(rs, row.run)].status = "completed"
          /\ Becomes(new, "settled", row.epoch, row.run)
       \/ row.state = "pending" /\ Becomes(new, "claimed", epoch, row.run)
       \/ /\ row.state = "claimed" /\ row.run # 0
          /\ Becomes(new, "claimed", row.epoch, ChainEnd(rs, row.run))

\* What the lane may be offered.
Offered(ws, mem, new, w) ==
    /\ w \notin mem.unlinked /\ w \notin mem.admitted
    /\ new[w].state = "claimed" /\ new[w].run = ws[w].run /\ new[w].epoch = epoch
    /\ \/ ws[w].state = "pending"
       \/ ws[w].state = "claimed" /\ ws[w].run = 0 /\ ws[w].epoch = epoch

\* What a pump does to the lane: nothing, more in the queue, or a turn begun.
LaneTakes(ws, mem, new) ==
    \/ queue' = mem.queue /\ att' = mem.att /\ members' = mem.members
    \/ \E S \in SUBSET DOMAIN ws :
          /\ \A w \in S : Offered(ws, mem, new, w)
          /\ \/ queue' = mem.queue \cup S /\ att' = mem.att /\ members' = mem.members
             \/ /\ mem.att.phase = "idle" /\ att' = FreshTurn
                /\ queue' \subseteq S /\ members' \subseteq S /\ queue' \cap members' = {}

LEMMA RowTypes ==
  ASSUME NEW row \in Wake
  PROVE  row.state \in WakeStates /\ row.epoch \in 0..MaxEpoch /\ row.run \in 0..MaxRuns /\ row.gated \in BOOLEAN
  BY DEF Wake

LEMMA GatedRow ==
  ASSUME NEW row \in Wake, NEW g \in BOOLEAN
  PROVE  [row EXCEPT !.gated = g] \in Wake /\ Becomes([row EXCEPT !.gated = g], row.state, row.epoch, row.run)
  BY DEF Wake, Becomes

LEMMA StateRow ==
  ASSUME NEW row \in Wake, NEW st \in WakeStates
  PROVE  [row EXCEPT !.state = st] \in Wake /\ Becomes([row EXCEPT !.state = st], st, row.epoch, row.run)
  BY DEF Wake, Becomes

LEMMA ClaimRow ==
  ASSUME NEW row \in Wake, NEW st \in WakeStates, NEW ep \in 0..MaxEpoch,
         NEW new, new = [row EXCEPT !.state = st, !.epoch = ep]
  PROVE  new \in Wake /\ Becomes(new, st, ep, row.run)
  BY DEF Wake, Becomes

LEMMA RunRow ==
  ASSUME NEW row \in Wake, NEW r \in 0..MaxRuns
  PROVE  [row EXCEPT !.run = r] \in Wake /\ Becomes([row EXCEPT !.run = r], row.state, row.epoch, r)
  BY DEF Wake, Becomes

LEMMA LinkRow ==
  ASSUME NEW row \in Wake, NEW r \in 0..MaxRuns, NEW new, new = [row EXCEPT !.run = r, !.gated = FALSE]
  PROVE  new \in Wake /\ Becomes(new, row.state, row.epoch, r)
  BY DEF Wake, Becomes

LEMMA PumpedRow ==
  ASSUME NEW row \in Wake, NEW rs, NEW ln, RunsOK(rs, ln), row.run \in {0} \cup DOMAIN rs,
         epoch \in 1..MaxEpoch, NEW c, NEW fenced \in BOOLEAN,
         c = "append" => row.state = "pending",
         c = "settle" => row.state = "claimed" /\ row.run # 0 /\ rs[ChainEnd(rs, row.run)].status = "completed",
         c \in {"fail", "resubmit"} => row.state = "claimed",
         c = "preserve" => row.state = "claimed" /\ row.run # 0
  PROVE  RowStep(row, rs, Pumped(row, rs, c, fenced))
<1> DEFINE p == Pumped(row, rs, c, fenced)
<1>0. {"settled", "failed", "claimed"} \subseteq WakeStates /\ epoch \in 0..MaxEpoch
  BY DEF WakeStates
<1>1. CASE c = "settle"
  <2>1. p = [row EXCEPT !.state = "settled"]
    BY <1>1 DEF Pumped
  <2> QED BY <1>0, <1>1, <2>1, StateRow DEF RowStep
<1>2. CASE c = "fail" \/ (c = "resubmit" /\ fenced)
  <2>1. p = [row EXCEPT !.state = "failed"]
    BY <1>2 DEF Pumped, Fail
  <2> QED BY <1>0, <1>2, <2>1, StateRow DEF RowStep
<1>3. CASE c = "append"
  <2>1. p = [row EXCEPT !.state = "claimed", !.epoch = epoch]
    BY <1>3 DEF Pumped, Committed
  <2> HIDE DEF p
  <2>2. p \in Wake /\ Becomes(p, "claimed", epoch, row.run)
    BY <1>0, <2>1, ClaimRow
  <2> QED BY <1>3, <2>2 DEF RowStep, p
<1>4. CASE c = "preserve"
  <2>1. p = [row EXCEPT !.run = ChainEnd(rs, row.run)]
    BY <1>4 DEF Pumped
  <2>2. ChainEnd(rs, row.run) \in 0..MaxRuns
    BY <1>4, ChainEndFacts DEF RunsOK
  <2>3. p \in Wake /\ Becomes(p, row.state, row.epoch, ChainEnd(rs, row.run))
    BY <2>1, <2>2, RunRow
  <2>4. row.state = "claimed" /\ row.run # 0
    BY <1>4
  <2> HIDE DEF p
  <2>5. RowStep(row, rs, p)
    BY <2>3, <2>4 DEF RowStep
  <2> QED BY <2>5 DEF p
<1>5. CASE c \notin {"settle", "fail", "append", "preserve"} /\ ~(c = "resubmit" /\ fenced)
  <2>1. p = row
    BY <1>5 DEF Pumped
  <2> QED BY <2>1 DEF RowStep, Becomes
<1> QED BY <1>1, <1>2, <1>3, <1>4, <1>5

\* A row that a pump may have changed says what it said before.
LEMMA RowKept ==
  ASSUME NEW row \in Wake, NEW tk, NEW rs, NEW ln, RunsOK(rs, ln), NEW fenced, NEW ep \in Nat,
         epoch = ep, WakeOK(row, tk, rs, ln, fenced, ep), NEW new, RowStep(row, rs, new), NEW still,
         fenced => still \/ ~ (new.state = "claimed" /\ new.run = 0 /\ new.epoch = ep)
  PROVE  WakeOK(new, tk, rs, ln, still, ep)
<1>1. ASSUME row.run # 0, row.state = "claimed"
      PROVE  /\ ChainEnd(rs, row.run) \in DOMAIN rs /\ tk \cap ln[ChainEnd(rs, row.run)] # {}
             /\ ChainEnd(rs, row.run) # 0
  <2>1. row.run \in DOMAIN rs /\ tk \cap ln[row.run] # {}
    BY <1>1 DEF WakeOK
  <2>2. ChainEnd(rs, row.run) \in DOMAIN rs /\ ln[row.run] \subseteq ln[ChainEnd(rs, row.run)]
    BY <2>1, ChainEndFacts
  <2>3. \A k \in DOMAIN rs : k # 0
    BY DEF RunsOK
  <2> QED BY <2>1, <2>2, <2>3
<1>2. row.epoch \in Nat /\ row.epoch <= ep
  BY RowTypes DEF WakeOK
<1>3. CASE Becomes(new, row.state, row.epoch, row.run)
  BY <1>3 DEF WakeOK, Becomes
<1>4. CASE row.state = "claimed" /\ Becomes(new, "failed", row.epoch, row.run)
  BY <1>4 DEF WakeOK, Becomes
<1>5. CASE /\ row.state = "claimed" /\ row.run # 0 /\ rs[ChainEnd(rs, row.run)].status = "completed"
           /\ Becomes(new, "settled", row.epoch, row.run)
  BY <1>1, <1>5 DEF WakeOK, Becomes
<1>6. CASE row.state = "pending" /\ Becomes(new, "claimed", epoch, row.run)
  BY <1>6 DEF WakeOK, Becomes
<1>7. CASE /\ row.state = "claimed" /\ row.run # 0
           /\ Becomes(new, "claimed", row.epoch, ChainEnd(rs, row.run))
  BY <1>1, <1>7, SMTT(30) DEF WakeOK, Becomes
<1> QED BY <1>3, <1>4, <1>5, <1>6, <1>7 DEF RowStep

\* What a disposition says of the row.
LEMMA ClassFacts ==
  ASSUME NEW ws, NEW rs, NEW adm, NEW w, ws[w] \in Wake
  PROVE  LET c == Classify(ws, rs, adm, w)
             row == ws[w]
         IN  /\ c = "append" <=> row.state = "pending"
             /\ c = "settle" => /\ row.state = "claimed" /\ row.run # 0
                                /\ rs[ChainEnd(rs, row.run)].status = "completed"
             /\ c = "fail" => row.state = "claimed"
             /\ c = "fail" /\ row.run = 0 => row.epoch # epoch
             /\ c = "resubmit" => row.state = "claimed" /\ row.run = 0 /\ row.epoch = epoch
             /\ c = "preserve" => row.state = "claimed" /\ row.run # 0
  BY DEF Classify, Unowned, Owned, Open, Authorized, Disposition

\* A pump, row by row, and what the lane takes.
LEMMA PumpSteps ==
  ASSUME NEW ws \in Seq(Wake), NEW wo, NEW rs, NEW ln, RunsOK(rs, ln), NEW mem,
         \A w \in DOMAIN ws : ws[w].run \in {0} \cup DOMAIN rs,
         epoch \in 1..MaxEpoch, Pump(ws, wo, rs, mem)
  PROVE  /\ runs' = rs /\ wakeOf' = wo /\ wakes' \in Seq(Wake) /\ DOMAIN wakes' = DOMAIN ws
         /\ Len(wakes') = Len(ws)
         /\ \A w \in DOMAIN ws : RowStep(ws[w], rs, wakes'[w])
         /\ unlinked' \subseteq mem.unlinked
         /\ \A w \in DOMAIN ws : w \in mem.unlinked /\ w \notin unlinked'
               => ~ (wakes'[w].state = "claimed" /\ wakes'[w].run = 0 /\ wakes'[w].epoch = epoch)
         /\ told' = told \cup {e \in Events : wo[e] # 0 /\ ws[wo[e]].state = "pending"
                                                        /\ wakes'[wo[e]].state = "claimed"}
         /\ LaneTakes(ws, mem, wakes')
         /\ \E bad \in SUBSET DOMAIN ws : Refuses(bad)
<1> DEFINE class(w) == Classify(ws, rs, mem.admitted, w)
           offerable == {w \in DOMAIN ws : Offerable(mem, class(w), w)}
           row(bad, thrown, w) ==
             IF w \in bad THEN ws[w]
             ELSE [Pumped(ws[w], rs, class(w), w \in mem.unlinked) EXCEPT !.gated = @ \/ w \in thrown]
<1>0. PICK bad \in SUBSET DOMAIN ws :
        \E thrown \in SUBSET (offerable \ bad) :
          /\ Refuses(bad \cup thrown)
          /\ runs' = rs /\ wakeOf' = wo
          /\ wakes' = [w \in DOMAIN ws |-> row(bad, thrown, w)]
          /\ unlinked' = {w \in mem.unlinked :
                class(w) \notin {"settle", "fail"} /\ (class(w) = "resubmit" => Unowned(wakes', w))}
          /\ told' = told \cup {e \in Events : wo[e] # 0 /\ ws[wo[e]].state = "pending"
                                                         /\ wakes'[wo[e]].state = "claimed"}
          /\ Take(mem, offerable \ (bad \cup thrown), ws)
  BY DEF Pump
<1>1. PICK thrown \in SUBSET (offerable \ bad) :
        /\ Refuses(bad \cup thrown)
        /\ runs' = rs /\ wakeOf' = wo
        /\ wakes' = [w \in DOMAIN ws |-> row(bad, thrown, w)]
        /\ unlinked' = {w \in mem.unlinked :
              class(w) \notin {"settle", "fail"} /\ (class(w) = "resubmit" => Unowned(wakes', w))}
        /\ told' = told \cup {e \in Events : wo[e] # 0 /\ ws[wo[e]].state = "pending"
                                                       /\ wakes'[wo[e]].state = "claimed"}
        /\ Take(mem, offerable \ (bad \cup thrown), ws)
  BY <1>0
<1> DEFINE step(w) == row(bad, thrown, w)
<1>2. \A w \in DOMAIN ws : ws[w] \in Wake
  BY SeqFacts
<1>3. \A w \in DOMAIN ws :
        /\ class(w) = "append" <=> ws[w].state = "pending"
        /\ class(w) = "settle" => /\ ws[w].state = "claimed" /\ ws[w].run # 0
                                  /\ rs[ChainEnd(rs, ws[w].run)].status = "completed"
        /\ class(w) = "fail" => ws[w].state = "claimed"
        /\ class(w) = "fail" /\ ws[w].run = 0 => ws[w].epoch # epoch
        /\ class(w) = "resubmit" => ws[w].state = "claimed" /\ ws[w].run = 0 /\ ws[w].epoch = epoch
        /\ class(w) = "preserve" => ws[w].state = "claimed" /\ ws[w].run # 0
  BY <1>2, ClassFacts
<1> HIDE DEF class, offerable
<1>4. ASSUME NEW w \in DOMAIN ws
      PROVE  /\ step(w) \in Wake /\ RowStep(ws[w], rs, step(w))
             /\ w \notin bad => LET p == Pumped(ws[w], rs, class(w), w \in mem.unlinked)
                                IN  p \in Wake /\ Becomes(step(w), p.state, p.epoch, p.run)
  <2> DEFINE p == Pumped(ws[w], rs, class(w), w \in mem.unlinked)
  <2>1. RowStep(ws[w], rs, p)
    <3> DEFINE c == class(w)
               f == w \in mem.unlinked
    <3>1. /\ c = "append" => ws[w].state = "pending"
          /\ c = "settle" => ws[w].state = "claimed" /\ ws[w].run # 0 /\ rs[ChainEnd(rs, ws[w].run)].status = "completed"
          /\ c \in {"fail", "resubmit"} => ws[w].state = "claimed"
          /\ c = "preserve" => ws[w].state = "claimed" /\ ws[w].run # 0
      BY <1>3
    <3>2. f \in BOOLEAN
      OBVIOUS
    <3> HIDE DEF c, f
    <3>3. RowStep(ws[w], rs, Pumped(ws[w], rs, c, f))
      BY <1>2, <3>1, <3>2, PumpedRow
    <3> QED BY <3>3 DEF c, f
  <2> HIDE DEF p
  <2>2. p \in Wake
    BY <2>1 DEF RowStep
  <2>3. CASE w \in bad
    BY <1>2, <2>3 DEF RowStep, Becomes
  <2>4. CASE w \notin bad
    <3> DEFINE g == p.gated \/ w \in thrown
    <3>1. g \in BOOLEAN
      OBVIOUS
    <3>2. step(w) = [p EXCEPT !.gated = g]
      BY <2>4 DEF p
    <3> HIDE DEF g, step
    <3>3. step(w) \in Wake /\ Becomes(step(w), p.state, p.epoch, p.run)
      BY <2>2, <3>1, <3>2, GatedRow
    <3>4. RowStep(ws[w], rs, step(w))
      BY <2>1, <3>3 DEF RowStep, Becomes
    <3> QED BY <2>2, <3>3, <3>4 DEF p
  <2> QED BY <2>3, <2>4
<1> HIDE DEF step
<1>5. wakes' = [w \in DOMAIN ws |-> step(w)]
  BY <1>1 DEF step
<1> HIDE DEF row
<1>6. wakes' \in [DOMAIN ws -> Wake] /\ \A w \in DOMAIN ws : wakes'[w] = step(w)
  BY <1>4, <1>5
<1>7. wakes' \in Seq(Wake) /\ DOMAIN wakes' = DOMAIN ws /\ Len(wakes') = Len(ws)
  BY <1>6, MapIsSeq
<1>8. \A w \in DOMAIN ws : RowStep(ws[w], rs, wakes'[w])
  BY <1>4, <1>6
<1>9. ASSUME NEW w \in DOMAIN ws, w \in mem.unlinked, w \notin unlinked'
      PROVE  ~ (wakes'[w].state = "claimed" /\ wakes'[w].run = 0 /\ wakes'[w].epoch = epoch)
  <2>1. class(w) \in {"settle", "fail"} \/ ~Unowned(wakes', w)
    BY <1>1, <1>9
  <2>2. CASE ~Unowned(wakes', w)
    BY <2>2 DEF Unowned, Open
  <2>3. CASE class(w) \in {"settle", "fail"}
    <3>1. ws[w].state = "claimed" /\ (ws[w].run = 0 => ws[w].epoch # epoch)
      BY <1>3, <2>3
    <3>2. ws[w].run # 0 => ChainEnd(rs, ws[w].run) # 0
      BY ChainEndFacts DEF RunsOK
    <3>3. RowStep(ws[w], rs, wakes'[w])
      BY <1>8
    <3> QED BY <3>1, <3>2, <3>3 DEF RowStep, Becomes
  <2> QED BY <2>1, <2>2, <2>3
<1>10. LaneTakes(ws, mem, wakes')
  <2> DEFINE S == offerable \ (bad \cup thrown)
             fresh == {w \in S : ws[w].state = "pending"}
             first == IF fresh # {} THEN MaxOf(fresh) ELSE CHOOSE w \in S : \A v \in S : w <= v
  <2>1. \A w \in S : /\ w \in DOMAIN ws /\ w \notin bad /\ class(w) \in {"append", "resubmit"}
                     /\ w \notin mem.unlinked /\ w \notin mem.admitted
    BY DEF offerable, Offerable
  <2>2. ASSUME NEW w \in S PROVE Offered(ws, mem, wakes', w)
    <3> DEFINE p == Pumped(ws[w], rs, class(w), w \in mem.unlinked)
    <3>0. w \in DOMAIN ws /\ ws[w] \in Wake /\ epoch \in 0..MaxEpoch
      BY <1>2, <2>1
    <3>1. CASE class(w) = "append"
      <4>1. p = [ws[w] EXCEPT !.state = "claimed", !.epoch = epoch]
        BY <3>1 DEF Pumped, Committed
      <4> HIDE DEF p
      <4>2. "claimed" \in WakeStates
        BY DEF WakeStates
      <4>3. Becomes(p, "claimed", epoch, ws[w].run)
        BY <3>0, <4>1, <4>2, ClaimRow
      <4>4. Becomes(wakes'[w], p.state, p.epoch, p.run)
        BY <1>4, <1>6, <2>1 DEF p
      <4> QED BY <1>3, <2>1, <3>1, <4>3, <4>4 DEF Offered, Becomes
    <3>2. CASE class(w) = "resubmit"
      <4>1. p = ws[w]
        BY <2>1, <3>2 DEF Pumped
      <4>4. Becomes(wakes'[w], p.state, p.epoch, p.run)
        BY <1>4, <1>6, <2>1 DEF p
      <4> QED BY <1>3, <2>1, <3>2, <4>1, <4>4 DEF Offered, Becomes
    <3> QED BY <2>1, <3>1, <3>2
  <2>3. ASSUME S # {} PROVE first \in S
    <3>1. S \in SUBSET (1..Len(ws)) /\ Len(ws) \in Nat
      BY <2>1, SeqFacts
    <3> HIDE DEF S
    <3>2. fresh \in SUBSET (1..Len(ws))
      BY <3>1
    <3>3. fresh # {} => MaxOf(fresh) \in fresh
      <4> HIDE DEF fresh
      <4> QED BY <3>1, <3>2, MaxOfIn
    <3>4. \E w \in S : \A v \in S : w <= v
      <4>1. S \in SUBSET Nat
        BY <3>1
      <4> QED BY <2>3, <4>1, LeastExists
    <3> QED BY <3>3, <3>4
  <2>4. Take(mem, S, ws)
    BY <1>1
  <2>5. \/ queue' = mem.queue /\ att' = mem.att /\ members' = mem.members
        \/ queue' = mem.queue \cup S /\ att' = mem.att /\ members' = mem.members
        \/ /\ S # {} /\ mem.att.phase = "idle" /\ att' = FreshTurn
           /\ queue' = S \ {first} /\ members' = {first}
    BY <2>4 DEF Take
  <2>6. S \in SUBSET DOMAIN ws
    BY <2>1
  <2> HIDE DEF S, first
  <2>7. S # {} => S \ {first} \subseteq S /\ {first} \subseteq S /\ (S \ {first}) \cap {first} = {}
    BY <2>3
  <2> QED BY <2>2, <2>5, <2>6, <2>7 DEF LaneTakes
<1>11. Refuses(bad \cup thrown) /\ bad \cup thrown \in SUBSET DOMAIN ws
  BY <1>1 DEF offerable
<1>12. /\ runs' = rs /\ wakeOf' = wo
       /\ unlinked' \subseteq mem.unlinked
       /\ told' = told \cup {e \in Events : wo[e] # 0 /\ ws[wo[e]].state = "pending"
                                                      /\ wakes'[wo[e]].state = "claimed"}
  BY <1>1
<1> QED BY <1>7, <1>8, <1>9, <1>10, <1>11, <1>12

-----------------------------------------------------------------------------
(* The inductive invariant. *)

\* The attempt at: its line holds the run it began, the one that handed over to it and
\* the one it resumes, each with the runs that one continued.
AttemptOK(at, rs, ln, ep) ==
    /\ at \in Attempt /\ at.epoch <= ep /\ at.line \subseteq DOMAIN rs
    /\ at.run # 0 => at.run \in DOMAIN rs /\ ln[at.run] \subseteq at.line
    /\ at.pred # 0 => at.pred \in DOMAIN rs /\ ln[at.pred] \subseteq at.line
    /\ at.src # 0 => /\ at.src \in DOMAIN rs /\ ln[at.src] \subseteq at.line
                     /\ rs[at.src].status \in {"interrupted", "resumed"}
    /\ at.phase \in {"running", "landed"} => at.run # 0 /\ rs[at.run].status = "running"

\* Where the wakes are: what waits was not taken by a run yet, unless a process lost the
\* fence of it, and what the attempt answers for was taken on its own line.
PlacesOK(ws, at, q, j, m, tk, lo) ==
    /\ q \cup j \cup m \subseteq DOMAIN ws /\ \A w \in q \cup j \cup m : ws[w].state # "pending"
    /\ q \cap j = {} /\ q \cap m = {} /\ j \cap m = {}
    /\ at.phase = "idle" => m = {}
    /\ j # {} => at.phase = "running"
    /\ \A w \in (q \cup j) \ lo : tk[w] = {}
    /\ \A w \in m \ lo : tk[w] \subseteq at.line

\* The runs that took a trigger are on one line.
TakenOnce(D, tk, ln, lo) == \A w \in D \ lo : \A a, b \in tk[w] : a \in ln[b] \/ b \in ln[a]

\* What a stop revoked is offered to no lane, and an attempt that holds it has lost its
\* authority.
RevokedOK(rv, ws, at, q, j, m, ep) ==
    \A w \in rv :
        /\ w \in DOMAIN ws /\ ws[w].state # "pending" /\ w \notin q
        /\ w \in j \cup m => at.epoch < ep
        /\ ws[w].state = "claimed" /\ ws[w].run = 0 => ws[w].epoch < ep

WakeInv ==
    /\ RunsOK(runs, line)
    /\ WakesOK(wakes, took, runs, line, unlinked \cup lost, epoch)
    /\ ToldOK(wakes, wakeOf, told)
    /\ AttemptOK(att, runs, line, epoch)
    /\ PlacesOK(wakes, att, queue, joining, members, took, lost)
    /\ TakenOnce(DOMAIN wakes, took, line, lost)
    /\ RevokedOK(revoked, wakes, att, queue, joining, members, epoch)
    /\ unlinked \cup lost \subseteq DOMAIN wakes /\ epoch \in 1..MaxEpoch
    /\ closed \in BOOLEAN /\ faults \in 0..MaxFaults /\ crashes \in 0..MaxCrashes

LEMMA TurnTypes ==
  ASSUME epoch \in 1..MaxEpoch, NEW rs, NEW ln
  PROVE  /\ AttemptOK(Idle, rs, ln, epoch) /\ AttemptOK(FreshTurn, rs, ln, epoch)
         /\ Idle.phase = "idle" /\ FreshTurn.phase = "setup" /\ FreshTurn.epoch = epoch
         /\ Idle.line = {} /\ FreshTurn.line = {} /\ FreshTurn.run = 0 /\ FreshTurn.pred = 0
         /\ FreshTurn \in Attempt
<1>1. epoch \in 0..MaxEpoch /\ 0 \in 0..MaxEpoch /\ 0 <= epoch /\ epoch <= epoch
  BY WakeAssumption
<1>2. 0 \in 0..MaxRuns /\ {} \in SUBSET (1..MaxRuns) /\ 0 \in Nat
  BY WakeAssumption
<1>3. Idle \in Attempt /\ Idle.phase = "idle" /\ Idle.epoch = 0 /\ Idle.run = 0 /\ Idle.pred = 0
      /\ Idle.src = 0 /\ Idle.line = {}
  BY <1>1, <1>2 DEF Attempt, Idle
<1>4. FreshTurn = [Idle EXCEPT !.phase = "setup", !.epoch = epoch]
  BY DEF FreshTurn
<1>5. /\ FreshTurn \in Attempt /\ FreshTurn.phase = "setup" /\ FreshTurn.epoch = epoch
      /\ FreshTurn.run = 0 /\ FreshTurn.pred = 0 /\ FreshTurn.src = 0 /\ FreshTurn.line = {}
  <2>1. Idle \in Attempt /\ epoch \in 0..MaxEpoch
    BY <1>1, <1>3
  <2>2. /\ FreshTurn \in Attempt /\ FreshTurn.phase = "setup" /\ FreshTurn.epoch = epoch
        /\ FreshTurn.run = Idle.run /\ FreshTurn.pred = Idle.pred /\ FreshTurn.src = Idle.src
        /\ FreshTurn.line = Idle.line
    BY ONLY <2>1 DEF FreshTurn, Attempt
  <2> QED BY <1>3, <2>2
<1>6. AttemptOK(Idle, rs, ln, epoch)
  BY <1>1, <1>3 DEF AttemptOK
<1>7. AttemptOK(FreshTurn, rs, ln, epoch)
  BY <1>1, <1>5 DEF AttemptOK
<1> QED BY <1>3, <1>5, <1>6, <1>7

\* A pump keeps it, over rows that satisfy it.
LEMMA PumpKeeps ==
  ASSUME NEW ws, NEW wo, NEW rs, NEW ln, NEW tk, NEW lo, NEW j, NEW mem,
         RunsOK(rs, ln), WakesOK(ws, tk, rs, ln, mem.unlinked \cup lo, epoch), ToldOK(ws, wo, told),
         AttemptOK(mem.att, rs, ln, epoch),
         PlacesOK(ws, mem.att, mem.queue, j, mem.members, tk, lo),
         mem.queue \cup j \cup mem.members \subseteq mem.admitted,
         TakenOnce(DOMAIN ws, tk, ln, lo),
         RevokedOK(revoked, ws, mem.att, mem.queue, j, mem.members, epoch),
         mem.unlinked \cup lo \subseteq DOMAIN ws, epoch \in 1..MaxEpoch, faults \in 0..MaxFaults,
         Pump(ws, wo, rs, mem),
         UNCHANGED <<epoch, revoked>>, took' = tk, line' = ln, lost' = lo, joining' = j,
         closed' \in BOOLEAN, crashes' \in 0..MaxCrashes
  PROVE  WakeInv'
<1>0. /\ ws \in Seq(Wake) /\ \A w \in DOMAIN ws : ws[w] \in Wake /\ WakeOK(ws[w], tk[w], rs, ln, w \in mem.unlinked \cup lo, epoch)
      /\ \A w \in DOMAIN ws : ws[w].run \in {0} \cup DOMAIN rs
      /\ epoch \in Nat
  BY SeqFacts DEF WakesOK, WakeOK
<1>1. /\ runs' = rs /\ wakeOf' = wo /\ wakes' \in Seq(Wake) /\ DOMAIN wakes' = DOMAIN ws
      /\ Len(wakes') = Len(ws)
      /\ \A w \in DOMAIN ws : RowStep(ws[w], rs, wakes'[w])
      /\ unlinked' \subseteq mem.unlinked
      /\ \A w \in DOMAIN ws : w \in mem.unlinked /\ w \notin unlinked'
            => ~ (wakes'[w].state = "claimed" /\ wakes'[w].run = 0 /\ wakes'[w].epoch = epoch)
      /\ told' = told \cup {e \in Events : wo[e] # 0 /\ ws[wo[e]].state = "pending"
                                                     /\ wakes'[wo[e]].state = "claimed"}
      /\ LaneTakes(ws, mem, wakes')
      /\ \E bad \in SUBSET DOMAIN ws : Refuses(bad)
  BY <1>0, PumpSteps
<1>2. \A w \in DOMAIN ws : WakeOK(wakes'[w], tk[w], rs, ln, w \in unlinked' \cup lo, epoch)
  <2> SUFFICES ASSUME NEW w \in DOMAIN ws
               PROVE  WakeOK(wakes'[w], tk[w], rs, ln, w \in unlinked' \cup lo, epoch)
    OBVIOUS
  <2> DEFINE fenced == w \in mem.unlinked \cup lo
             still == w \in unlinked' \cup lo
  <2>1. fenced => still \/ ~ (wakes'[w].state = "claimed" /\ wakes'[w].run = 0 /\ wakes'[w].epoch = epoch)
    BY <1>1
  <2>2. WakeOK(ws[w], tk[w], rs, ln, fenced, epoch) /\ RowStep(ws[w], rs, wakes'[w])
    BY <1>0, <1>1
  <2> HIDE DEF fenced, still
  <2>3. WakeOK(wakes'[w], tk[w], rs, ln, still, epoch)
    BY <1>0, <2>1, <2>2, RowKept
  <2> QED BY <2>3 DEF still
<1>3. WakesOK(wakes', tk, rs, ln, unlinked' \cup lo, epoch)
  BY <1>1, <1>2 DEF WakesOK
<1>4. ToldOK(wakes', wo, told')
  <2>1. ASSUME NEW e \in Events, wo[e] # 0, wakes'[wo[e]].state # "pending" PROVE e \in told'
    <3>1. wo[e] \in DOMAIN ws
      <4>1. wo[e] \in 0..Len(ws) /\ Len(ws) \in Nat /\ \A k \in 1..Len(ws) : k \in DOMAIN ws
        BY <1>0, SeqFacts DEF ToldOK
      <4> QED BY <2>1, <4>1
    <3>2. ws[wo[e]].state = "pending" => wakes'[wo[e]].state = "claimed"
      BY <1>1, <2>1, <3>1 DEF RowStep, Becomes
    <3>3. ws[wo[e]].state # "pending" => e \in told
      BY <2>1 DEF ToldOK
    <3> QED BY <1>1, <2>1, <3>2, <3>3
  <2> QED BY <1>1, <2>1 DEF ToldOK
<1>5. ASSUME NEW S \in SUBSET DOMAIN ws, \A w \in S : Offered(ws, mem, wakes', w)
      PROVE  /\ \A w \in S \ lo : tk[w] = {}
             /\ \A w \in S : w \notin revoked /\ w \notin mem.admitted /\ wakes'[w].state # "pending"
             /\ \A w \in S : w \notin mem.admitted
  <2>1. ASSUME NEW w \in S, w \notin lo PROVE tk[w] = {}
    BY <1>0, <1>5, <2>1 DEF Offered, WakeOK
  <2>2. ASSUME NEW w \in S, w \in revoked PROVE FALSE
    <3>1. ws[w].state = "claimed" /\ ws[w].run = 0 /\ ws[w].epoch = epoch
      BY <1>5, <2>2 DEF Offered, RevokedOK
    <3> QED BY <1>0, <2>2, <3>1 DEF RevokedOK
  <2> QED BY <1>5, <2>1, <2>2 DEF Offered
<1>6. \A w \in revoked : /\ w \in DOMAIN ws /\ wakes'[w].state # "pending"
                         /\ wakes'[w].state = "claimed" /\ wakes'[w].run = 0 => wakes'[w].epoch < epoch
  <2> SUFFICES ASSUME NEW w \in revoked
               PROVE  /\ w \in DOMAIN ws /\ wakes'[w].state # "pending"
                      /\ wakes'[w].state = "claimed" /\ wakes'[w].run = 0 => wakes'[w].epoch < epoch
    OBVIOUS
  <2>1. /\ w \in DOMAIN ws /\ ws[w].state # "pending"
        /\ ws[w].state = "claimed" /\ ws[w].run = 0 => ws[w].epoch < epoch
    BY DEF RevokedOK
  <2>2. RowStep(ws[w], rs, wakes'[w]) /\ (ws[w].run # 0 => ChainEnd(rs, ws[w].run) # 0)
    BY <1>0, <1>1, <2>1, ChainEndFacts
  <2> QED BY <2>1, <2>2 DEF RowStep, Becomes
<1>7. \A w \in DOMAIN ws : wakes'[w].state = "pending" => ws[w].state = "pending"
  BY <1>1 DEF RowStep, Becomes
<1>8. /\ AttemptOK(att', rs, ln, epoch)
      /\ PlacesOK(wakes', att', queue', j, members', tk, lo)
      /\ RevokedOK(revoked, wakes', att', queue', j, members', epoch)
  <2>1. CASE queue' = mem.queue /\ att' = mem.att /\ members' = mem.members
    BY <1>1, <1>6, <1>7, <2>1 DEF RevokedOK, PlacesOK
  <2>2. ASSUME NEW S \in SUBSET DOMAIN ws, \A w \in S : Offered(ws, mem, wakes', w),
               queue' = mem.queue \cup S, att' = mem.att, members' = mem.members
        PROVE  /\ AttemptOK(att', rs, ln, epoch)
               /\ PlacesOK(wakes', att', queue', j, members', tk, lo)
               /\ RevokedOK(revoked, wakes', att', queue', j, members', epoch)
    BY <1>1, <1>5, <1>6, <1>7, <2>2, ZenonT(40) DEF RevokedOK, PlacesOK
  <2>3. ASSUME NEW S \in SUBSET DOMAIN ws, \A w \in S : Offered(ws, mem, wakes', w),
               mem.att.phase = "idle", att' = FreshTurn, queue' \subseteq S, members' \subseteq S,
               queue' \cap members' = {}
        PROVE  /\ AttemptOK(att', rs, ln, epoch)
               /\ PlacesOK(wakes', att', queue', j, members', tk, lo)
               /\ RevokedOK(revoked, wakes', att', queue', j, members', epoch)
    <3>1. j = {}
      BY <2>3 DEF PlacesOK
    <3> QED BY <1>1, <1>5, <1>6, <1>7, <2>3, <3>1, TurnTypes DEF RevokedOK, PlacesOK
  <2> QED BY <1>1, <2>1, <2>2, <2>3 DEF LaneTakes
<1>9. faults' \in 0..MaxFaults
  BY <1>1, WakeAssumption DEF Refuses
<1>10. unlinked' \cup lo \subseteq DOMAIN wakes'
  BY <1>1
<1> QED BY <1>1, <1>3, <1>4, <1>8, <1>9, <1>10 DEF WakeInv

-----------------------------------------------------------------------------
(* The steps that pump. *)

\* A change of status that completes or abandons, and takes no completion back.
LEMMA Restamped ==
  ASSUME NEW rs, NEW ln, RunsOK(rs, ln), NEW rs2 \in Seq(Run), DOMAIN rs2 = DOMAIN rs,
         \A k \in DOMAIN rs : /\ rs2[k].from = rs[k].from
                              /\ rs2[k].status = "resumed" => rs[k].status = "resumed"
                              /\ rs[k].status = "completed" => rs2[k].status = "completed"
  PROVE  /\ RunsOK(rs2, ln)
         /\ \A ws, tk, F, ep : WakesOK(ws, tk, rs, ln, F, ep) => WakesOK(ws, tk, rs2, ln, F, ep)
<1>1. RunsOK(rs2, ln)
  BY SMTT(30) DEF RunsOK
<1>2. \A row, tk, f, ep : WakeOK(row, tk, rs, ln, f, ep) => WakeOK(row, tk, rs2, ln, f, ep)
  BY DEF WakeOK
<1>3. \A ws, tk, F, ep : WakesOK(ws, tk, rs, ln, F, ep) => WakesOK(ws, tk, rs2, ln, F, ep)
  BY <1>2 DEF WakesOK
<1> QED BY <1>1, <1>3

\* One run's row is rewritten.
LEMMA RowRewritten ==
  ASSUME NEW rs \in Seq(Run), NEW r \in DOMAIN rs, NEW row \in Run, NEW rs2, rs2 = [rs EXCEPT ![r] = row]
  PROVE  /\ rs2 \in Seq(Run) /\ DOMAIN rs2 = DOMAIN rs /\ rs2[r] = row
         /\ \A k \in DOMAIN rs : k # r => rs2[k] = rs[k]
<1>1. \A k \in DOMAIN rs : rs[k] \in Run
  BY SeqFacts
<1>2. DOMAIN rs2 = DOMAIN rs /\ rs2[r] = row /\ \A k \in DOMAIN rs : k # r => rs2[k] = rs[k]
  OBVIOUS
<1>3. rs2 \in [DOMAIN rs -> Run]
  BY <1>1, <1>2
<1>4. rs2 \in Seq(Run)
  BY <1>3, MapIsSeq
<1> QED BY <1>2, <1>4

LEMMA MemoryFacts ==
  ASSUME NEW at
  PROVE  /\ Memory(at).att = at /\ Memory(at).queue = queue /\ Memory(at).members = members
         /\ Memory(at).unlinked = unlinked /\ Memory(at).admitted = queue \cup joining \cup members
  BY DEF Memory, Admitted

LEMMA TickerKeeps == WakeInv /\ Ticker => WakeInv'
<1> SUFFICES ASSUME WakeInv, Ticker PROVE WakeInv'
  OBVIOUS
<1> DEFINE mem == Memory(att)
<1>1. mem.att = att /\ mem.queue = queue /\ mem.members = members /\ mem.unlinked = unlinked
      /\ mem.queue \cup joining \cup mem.members \subseteq mem.admitted
  BY MemoryFacts
<1>2. Pump(wakes, wakeOf, runs, mem)
  BY DEF Ticker
<1> HIDE DEF mem
<1>3. /\ UNCHANGED <<epoch, revoked>> /\ took' = took /\ line' = line /\ lost' = lost /\ joining' = joining
      /\ closed' \in BOOLEAN /\ crashes' \in 0..MaxCrashes
  BY DEF Ticker, WakeInv
<1> QED BY <1>1, <1>2, <1>3, PumpKeeps DEF WakeInv

\* Stamp pumps over the rows it has finished, for an attempt that is over or hands over.
LEMMA StampKeeps ==
  ASSUME WakeInv, NEW st \in {"completed", "error", "fenced"}, NEW x \in BOOLEAN, NEW at,
         att.phase \in {"running", "landed"}, joining = {},
         AttemptOK(at, runs, line, epoch), at.phase \in {"over", "between"},
         at.line = att.line, at.epoch = att.epoch, at.src = att.src,
         Stamp(st, x, at)
  PROVE  WakeInv'
<1> DEFINE mem == Memory(at)
           r == att.run
           rs == [runs EXCEPT ![att.run].status = st, ![att.run].undelivered = x]
<1>1. mem.att = at /\ mem.queue = queue /\ mem.members = members /\ mem.unlinked = unlinked
      /\ mem.queue \cup joining \cup mem.members \subseteq mem.admitted
  BY MemoryFacts
<1>2. Pump(wakes, wakeOf, rs, mem)
  BY DEF Stamp
<1>3. r \in DOMAIN runs /\ runs[r].status = "running" /\ runs \in Seq(Run)
  BY DEF WakeInv, AttemptOK, RunsOK
<1>4. /\ rs \in Seq(Run) /\ DOMAIN rs = DOMAIN runs
      /\ rs[r].status = st /\ rs[r].from = runs[r].from
      /\ \A k \in DOMAIN runs : k # r => rs[k] = runs[k]
  <2> DEFINE row == [runs[r] EXCEPT !.status = st, !.undelivered = x]
  <2>1. st \in RunStatus /\ runs[r] \in Run
    BY <1>3, SeqFacts DEF RunStatus
  <2>2. row \in Run /\ row.status = st /\ row.from = runs[r].from
    <3> HIDE DEF r
    <3> QED BY ONLY <2>1, x \in BOOLEAN DEF Run
  <2>3. rs = [runs EXCEPT ![r] = row]
    BY <1>3
  <2> HIDE DEF rs, r, row
  <2> QED BY <1>3, <2>2, <2>3, RowRewritten
<1> HIDE DEF mem, rs, r
<1>5. RunsOK(rs, line) /\ WakesOK(wakes, took, rs, line, unlinked \cup lost, epoch)
  BY <1>3, <1>4, Restamped DEF WakeInv
<1>6. AttemptOK(at, rs, line, epoch)
  BY <1>3, <1>4 DEF AttemptOK, WakeInv
<1>7. PlacesOK(wakes, at, queue, joining, members, took, lost)
  BY DEF PlacesOK, WakeInv
<1>8. RevokedOK(revoked, wakes, at, queue, joining, members, epoch)
  BY DEF RevokedOK, WakeInv
<1>9. /\ UNCHANGED <<epoch, revoked>> /\ took' = took /\ line' = line /\ lost' = lost /\ joining' = joining
      /\ closed' \in BOOLEAN /\ crashes' \in 0..MaxCrashes
  BY DEF Stamp, WakeInv
<1> QED BY <1>1, <1>2, <1>5, <1>6, <1>7, <1>8, <1>9, PumpKeeps DEF WakeInv

LEMMA CompletionKeeps == WakeInv /\ (Complete \/ Die \/ HandOff) => WakeInv'
<1> SUFFICES ASSUME WakeInv, Complete \/ Die \/ HandOff PROVE WakeInv'
  OBVIOUS
<1> DEFINE folded == [att EXCEPT !.phase = "between", !.folded = TRUE]
<1>1. att \in Attempt
  BY DEF WakeInv, AttemptOK
<1>2. ASSUME NEW at, at \in {Ending, NextModel, folded}
      PROVE  /\ AttemptOK(at, runs, line, epoch) /\ at.phase \in {"over", "between"}
             /\ at.line = att.line /\ at.epoch = att.epoch /\ at.src = att.src
  <2>1. /\ at \in Attempt /\ at.phase \in {"over", "between"} /\ at.epoch = att.epoch /\ at.line = att.line
        /\ at.run = att.run /\ at.pred = att.pred /\ at.src = att.src
    <3>1. CASE at = Ending
      BY <1>1, <3>1 DEF Ending, Attempt
    <3>2. CASE at = NextModel
      <4>1. att.misses + 1 \in Nat
        BY <1>1 DEF Attempt
      <4> QED BY <1>1, <3>2, <4>1 DEF NextModel, Attempt
    <3>3. CASE at = folded
      BY <1>1, <3>3 DEF Attempt
    <3> QED BY <1>2, <3>1, <3>2, <3>3
  <2> QED BY <2>1 DEF AttemptOK, WakeInv
<1>3. PICK at \in {Ending, NextModel, folded}, st \in {"completed", "error", "fenced"}, x \in BOOLEAN :
        att.phase \in {"running", "landed"} /\ joining = {} /\ Stamp(st, x, at)
  <2>1. att.phase = "landed" => joining = {}
    BY DEF WakeInv, PlacesOK
  <2> HIDE DEF folded
  <2> QED BY <2>1 DEF Complete, Die, HandOff, folded
<1> QED BY <1>2, <1>3, StampKeeps

\* The rows that developments are recorded in, on which the pump works then: at most one
\* is new.
LEMMA RecordedRows ==
  ASSUME WakeInv, NEW D \in SUBSET Events, Record(D)
  PROVE  \E ws, tk, wo :
           /\ Pump(ws, wo, runs, Memory(att)) /\ took' = tk
           /\ DOMAIN wakes \subseteq DOMAIN ws
           /\ \A w \in DOMAIN wakes : ws[w] = wakes[w] /\ tk[w] = took[w]
           /\ \A w \in DOMAIN ws \ DOMAIN wakes : ws[w] = Opened /\ tk[w] = {}
           /\ WakesOK(ws, tk, runs, line, unlinked \cup lost, epoch) /\ ToldOK(ws, wo, told)
           /\ PlacesOK(ws, att, queue, joining, members, tk, lost)
           /\ TakenOnce(DOMAIN ws, tk, line, lost)
           /\ RevokedOK(revoked, ws, att, queue, joining, members, epoch)
           /\ unlinked \cup lost \subseteq DOMAIN ws
<1> DEFINE open == {w \in DOMAIN wakes : Joinable(w)}
           ws == IF open = {} THEN Append(wakes, Opened) ELSE wakes
           tk == IF open = {} THEN Append(took, {}) ELSE took
           id == IF open = {} THEN Len(ws) ELSE MaxOf(open)
           wo == [e \in Events |-> IF e \in D THEN id ELSE wakeOf[e]]
           mem == Memory(att)
<1>2. Pump(ws, wo, runs, mem) /\ took' = tk
  BY DEF Record
<1> HIDE DEF mem
<1>4. /\ wakes \in Seq(Wake) /\ took \in Seq(SUBSET (1..MaxRuns)) /\ DOMAIN took = DOMAIN wakes
      /\ Len(wakes) \in Nat /\ \A w \in DOMAIN wakes : w \in 1..Len(wakes)
  BY SeqFacts DEF WakeInv, WakesOK
<1>5. Opened \in Wake /\ Opened.state = "pending" /\ Opened.run = 0 /\ Opened.epoch = 0
  BY WakeAssumption DEF Opened, Wake, WakeStates
<1>6. /\ ws \in Seq(Wake) /\ tk \in Seq(SUBSET (1..MaxRuns)) /\ DOMAIN tk = DOMAIN ws
      /\ id \in DOMAIN ws /\ id \in 1..Len(ws) /\ Len(ws) \in Nat /\ Len(wakes) <= Len(ws)
      /\ ws[id].state = "pending" /\ DOMAIN wakes \subseteq DOMAIN ws
      /\ \A w \in DOMAIN wakes : ws[w] = wakes[w] /\ tk[w] = took[w]
      /\ \A w \in DOMAIN ws \ DOMAIN wakes : ws[w] = Opened /\ tk[w] = {}
  <2>1. CASE open = {}
    <3>1. /\ ws \in Seq(Wake) /\ Len(ws) = Len(wakes) + 1 /\ ws[Len(wakes) + 1] = Opened
          /\ DOMAIN ws = DOMAIN wakes \cup {Len(wakes) + 1}
          /\ \A k \in DOMAIN wakes : ws[k] = wakes[k]
      BY <1>4, <1>5, <2>1, AppendFacts
    <3>2. Len(took) = Len(wakes)
      BY <1>4, LenProperties
    <3>3. /\ tk \in Seq(SUBSET (1..MaxRuns)) /\ tk[Len(wakes) + 1] = {}
          /\ DOMAIN tk = DOMAIN wakes \cup {Len(wakes) + 1}
          /\ \A k \in DOMAIN wakes : tk[k] = took[k]
      <4> DEFINE T == SUBSET (1..MaxRuns)
      <4>1. took \in Seq(T) /\ {} \in T
        BY <1>4
      <4>2. tk = Append(took, {})
        BY <2>1
      <4> HIDE DEF T, tk
      <4>3. /\ tk \in Seq(T) /\ tk[Len(took) + 1] = {} /\ DOMAIN tk = DOMAIN took \cup {Len(took) + 1}
            /\ \A k \in DOMAIN took : tk[k] = took[k]
        BY <4>1, <4>2, AppendFacts
      <4> QED BY <1>4, <3>2, <4>3 DEF T
    <3> HIDE DEF ws, tk
    <3>4. id = Len(wakes) + 1
      BY <2>1, <3>1
    <3> HIDE DEF id
    <3>5. id \in 1..Len(ws) /\ Len(ws) \in Nat /\ Len(wakes) <= Len(ws)
      BY <1>4, <3>1, <3>4
    <3> QED BY <1>4, <1>5, <3>1, <3>3, <3>4, <3>5
  <2>2. CASE open # {}
    <3>1. ws = wakes /\ tk = took /\ id = MaxOf(open)
      BY <2>2
    <3>2. open \in SUBSET (1..Len(wakes))
      BY <1>4
    <3>3. MaxOf(open) \in open
      <4> HIDE DEF open
      <4> QED BY <1>4, <2>2, <3>2, MaxOfIn
    <3>4. MaxOf(open) \in DOMAIN wakes /\ wakes[MaxOf(open)].state = "pending"
      BY <3>3 DEF Joinable
    <3> QED BY <1>4, <3>1, <3>4
  <2> QED BY <2>1, <2>2
<1> HIDE DEF ws, tk, id
<1>7. WakesOK(ws, tk, runs, line, unlinked \cup lost, epoch)
  <2>1. ASSUME NEW w \in DOMAIN ws
        PROVE  WakeOK(ws[w], tk[w], runs, line, w \in unlinked \cup lost, epoch)
    <3>1. CASE w \in DOMAIN wakes
      BY <1>6, <3>1 DEF WakeInv, WakesOK
    <3>2. CASE w \notin DOMAIN wakes
      <4>1. ws[w] = Opened /\ tk[w] = {} /\ 0 <= epoch
        BY <1>6, <2>1, <3>2 DEF WakeInv
      <4> QED BY <1>5, <4>1 DEF WakeOK
    <3> QED BY <3>1, <3>2
  <2> QED BY <1>6, <2>1 DEF WakesOK
<1>8. ToldOK(ws, wo, told)
  <2>1. wakeOf \in [Events -> 0..Len(wakes)] /\ told \subseteq Events
    BY DEF WakeInv, ToldOK
  <2>2. wo \in [Events -> 0..Len(ws)] /\ \A d \in Events : wo[d] = IF d \in D THEN id ELSE wakeOf[d]
    BY <1>4, <1>6, <2>1
  <2>3. ASSUME NEW d \in Events, wo[d] # 0, ws[wo[d]].state # "pending" PROVE d \in told
    <3>1. d \notin D /\ wo[d] = wakeOf[d]
      BY <1>6, <2>2, <2>3
    <3>2. wakeOf[d] \in DOMAIN wakes
      <4>1. wakeOf[d] \in 1..Len(wakes)
        BY <1>4, <2>1, <2>3, <3>1
      <4> QED BY <1>4, <4>1, SeqFacts
    <3> QED BY <1>6, <2>3, <3>1, <3>2 DEF WakeInv, ToldOK
  <2> QED BY <2>1, <2>2, <2>3 DEF ToldOK
<1> HIDE DEF wo
<1>9. PlacesOK(ws, att, queue, joining, members, tk, lost)
  BY <1>6 DEF PlacesOK, WakeInv
<1>10. TakenOnce(DOMAIN ws, tk, line, lost)
  BY <1>6 DEF TakenOnce, WakeInv
<1>11. RevokedOK(revoked, ws, att, queue, joining, members, epoch)
  BY <1>6 DEF RevokedOK, WakeInv
<1>12. unlinked \cup lost \subseteq DOMAIN ws
  BY <1>6 DEF WakeInv
<1> QED BY <1>2, <1>6, <1>7, <1>8, <1>9, <1>10, <1>11, <1>12 DEF mem

LEMMA RecordKeeps == ASSUME WakeInv, NEW D \in SUBSET Events, Record(D) PROVE WakeInv'
<1>1. PICK ws, tk, wo :
        /\ Pump(ws, wo, runs, Memory(att)) /\ took' = tk
        /\ WakesOK(ws, tk, runs, line, unlinked \cup lost, epoch) /\ ToldOK(ws, wo, told)
        /\ PlacesOK(ws, att, queue, joining, members, tk, lost)
        /\ TakenOnce(DOMAIN ws, tk, line, lost)
        /\ RevokedOK(revoked, ws, att, queue, joining, members, epoch)
        /\ unlinked \cup lost \subseteq DOMAIN ws
  BY RecordedRows
<1> DEFINE mem == Memory(att)
<1>2. mem.att = att /\ mem.queue = queue /\ mem.members = members /\ mem.unlinked = unlinked
      /\ mem.queue \cup joining \cup mem.members \subseteq mem.admitted
  BY MemoryFacts
<1>3. Pump(ws, wo, runs, mem)
  BY <1>1
<1> HIDE DEF mem
<1>4. /\ UNCHANGED <<epoch, revoked>> /\ line' = line /\ lost' = lost /\ joining' = joining
      /\ closed' \in BOOLEAN /\ crashes' \in 0..MaxCrashes
  BY DEF Record, WakeInv
<1> QED BY <1>1, <1>2, <1>3, <1>4, PumpKeeps DEF WakeInv

\* What ran is interrupted: no completion is made or taken back.
Interrupted(rs) == [r \in DOMAIN rs |-> IF rs[r].status = "running"
                                       THEN [rs[r] EXCEPT !.status = "interrupted"] ELSE rs[r]]

LEMMA InterruptedRuns ==
  ASSUME NEW rs, NEW ln, RunsOK(rs, ln)
  PROVE  /\ RunsOK(Interrupted(rs), ln) /\ DOMAIN Interrupted(rs) = DOMAIN rs
         /\ \A ws, tk, F, ep : WakesOK(ws, tk, rs, ln, F, ep) => WakesOK(ws, tk, Interrupted(rs), ln, F, ep)
<1> DEFINE rs2 == Interrupted(rs)
<1>3. rs \in Seq(Run) /\ \A k \in DOMAIN rs : rs[k] \in Run
  BY SeqFacts DEF RunsOK
<1>4. ASSUME NEW k \in DOMAIN rs
      PROVE  /\ rs2[k] \in Run /\ rs2[k].from = rs[k].from
             /\ rs2[k].status = "resumed" => rs[k].status = "resumed"
             /\ rs[k].status = "completed" => rs2[k].status = "completed"
  <2>1. rs[k] \in Run
    BY <1>3
  <2> QED BY <2>1 DEF Run, RunStatus, Interrupted
<1>5. rs2 \in Seq(Run) /\ DOMAIN rs2 = DOMAIN rs
  <2>1. rs2 \in [DOMAIN rs -> Run]
    <3>1. rs2 = [k \in DOMAIN rs |-> rs2[k]]
      BY DEF Interrupted
    <3> HIDE DEF rs2
    <3> QED BY <1>4, <3>1
  <2> HIDE DEF rs2
  <2> QED BY <1>3, <2>1, MapIsSeq
<1> HIDE DEF rs2
<1>6. RunsOK(rs2, ln) /\ \A ws, tk, F, ep : WakesOK(ws, tk, rs, ln, F, ep) => WakesOK(ws, tk, rs2, ln, F, ep)
  BY <1>4, <1>5, Restamped
<1> QED BY <1>5, <1>6 DEF rs2

\* A boot keeps it, over rows that satisfy it; whatever was fenced counts as lost then.
LEMMA BootKeeps ==
  ASSUME WakeInv, NEW ws, NEW rs, NEW ln, NEW tk, NEW fg,
         RunsOK(rs, ln), WakesOK(ws, tk, rs, ln, lost \cup fg, epoch), ToldOK(ws, wakeOf, told),
         TakenOnce(DOMAIN ws, tk, ln, lost \cup fg),
         RevokedOK(revoked, ws, Idle, {}, {}, {}, epoch),
         lost \cup fg \subseteq DOMAIN ws,
         Boot(ws, rs, fg), took' = tk, line' = ln, crashes' \in 0..MaxCrashes
  PROVE  WakeInv'
<1> DEFINE rs2 == Interrupted(rs)
           lo == lost \cup fg
           mem == [att |-> Idle, queue |-> {}, members |-> {}, admitted |-> {}, unlinked |-> {},
                   closed |-> FALSE]
<1>1. mem.att = Idle /\ mem.queue = {} /\ mem.members = {} /\ mem.unlinked = {}
      /\ mem.queue \cup {} \cup mem.members \subseteq mem.admitted
  OBVIOUS
<1>2. Pump(ws, wakeOf, rs2, mem)
  BY DEF Boot, Interrupted
<1> HIDE DEF mem, rs2
<1>3. RunsOK(rs2, ln) /\ WakesOK(ws, tk, rs2, ln, lo, epoch)
  BY InterruptedRuns DEF rs2
<1>4. AttemptOK(Idle, rs2, ln, epoch) /\ Idle.phase = "idle"
  BY TurnTypes DEF WakeInv
<1> HIDE DEF lo
<1>5. PlacesOK(ws, Idle, {}, {}, {}, tk, lo)
  BY <1>4 DEF PlacesOK
<1>6. /\ UNCHANGED <<epoch, revoked>> /\ lost' = lo /\ joining' = {} /\ closed' \in BOOLEAN
  BY DEF Boot, lo
<1>7. mem.unlinked \cup lo = lo /\ lo \subseteq DOMAIN ws /\ TakenOnce(DOMAIN ws, tk, ln, lo)
      /\ epoch \in 1..MaxEpoch /\ faults \in 0..MaxFaults
  BY <1>1 DEF lo, WakeInv
<1> QED BY <1>1, <1>2, <1>3, <1>4, <1>5, <1>6, <1>7, PumpKeeps

LEMMA CrashKeeps == ASSUME WakeInv, Crash \/ Restart PROVE WakeInv'
<1>1. /\ Boot(wakes, runs, unlinked) /\ took' = took /\ line' = line /\ crashes' \in 0..MaxCrashes
  BY WakeAssumption DEF Crash, Dies, Restart, WakeInv
<1>2. WakesOK(wakes, took, runs, line, lost \cup unlinked, epoch) /\ RunsOK(runs, line)
      /\ lost \cup unlinked \subseteq DOMAIN wakes
  <2>1. lost \cup unlinked = unlinked \cup lost
    OBVIOUS
  <2> QED BY <2>1 DEF WakeInv
<1>3. TakenOnce(DOMAIN wakes, took, line, lost \cup unlinked)
  BY DEF TakenOnce, WakeInv
<1>4. RevokedOK(revoked, wakes, Idle, {}, {}, {}, epoch)
  BY DEF RevokedOK, WakeInv
<1>5. ToldOK(wakes, wakeOf, told)
  BY DEF WakeInv
<1> QED BY <1>1, <1>2, <1>3, <1>4, <1>5, BootKeeps

-----------------------------------------------------------------------------
(* The steps that link. *)

\* linkEvents, wake by wake: the trigger's wake is owned by the run, closed, or fenced.
LEMMA LinkSteps ==
  ASSUME NEW ws \in Seq(Wake), NEW S \in SUBSET DOMAIN ws, NEW r \in 0..MaxRuns, r # 0,
         NEW bad, NEW worse, took \in Seq(SUBSET (1..MaxRuns)), DOMAIN took = DOMAIN ws,
         LinkEvents(ws, S, r, bad, worse)
  PROVE  /\ wakes' \in Seq(Wake) /\ DOMAIN wakes' = DOMAIN ws /\ Len(wakes') = Len(ws)
         /\ took' \in Seq(SUBSET (1..MaxRuns)) /\ DOMAIN took' = DOMAIN ws
         /\ unlinked' \subseteq unlinked \cup S
         /\ \A w \in DOMAIN ws \ S : /\ wakes'[w] = ws[w] /\ took'[w] = took[w]
                                     /\ w \in unlinked' <=> w \in unlinked
         /\ \A w \in S :
               /\ took'[w] = took[w] \cup {r}
               /\ \/ ws[w].state = "claimed" /\ Becomes(wakes'[w], "claimed", ws[w].epoch, r)
                  \/ ws[w].state = "claimed" /\ Becomes(wakes'[w], "failed", ws[w].epoch, ws[w].run)
                  \/ wakes'[w] = ws[w] /\ (ws[w].state = "claimed" /\ ws[w].run = 0 => w \in unlinked')
<1> DEFINE claimed == {w \in S : Open(ws, w)}
           linked == {w \in claimed \ bad : ws[w].run \in {0, r}}
           gs == Given(ws, linked, r)
           C == claimed \ linked
<1>1. /\ wakes' = [w \in DOMAIN gs |-> IF w \in C \ worse /\ Unowned(gs, w) THEN Fail(gs[w]) ELSE gs[w]]
      /\ unlinked' = ((unlinked \ linked) \ C) \cup (C \cap worse)
      /\ took' = [w \in DOMAIN took |-> IF w \in S THEN took[w] \cup {r} ELSE took[w]]
  BY DEF LinkEvents, CloseUnlinked
<1>2. \A w \in DOMAIN ws : ws[w] \in Wake
  BY SeqFacts
<1>3. \A w \in claimed : w \in S /\ ws[w].state = "claimed"
  BY Zenon DEF Open
<1>4. \A w \in S : w \notin claimed => ws[w].state # "claimed"
  BY Zenon DEF Open
<1>5. /\ DOMAIN gs = DOMAIN ws
      /\ \A w \in DOMAIN ws : w \notin linked => gs[w] = ws[w]
      /\ \A w \in linked : gs[w] = [ws[w] EXCEPT !.run = r, !.gated = FALSE]
  BY <1>3, ZenonT(40) DEF Given
<1>6. linked \subseteq claimed /\ C \subseteq claimed /\ C \cap linked = {} /\ linked \cup C = claimed
  OBVIOUS
<1> HIDE DEF claimed, linked, gs, C
<1>7. ASSUME NEW w \in linked
      PROVE  /\ wakes'[w] \in Wake /\ Becomes(wakes'[w], "claimed", ws[w].epoch, r)
             /\ w \in S /\ ws[w].state = "claimed"
  <2>1. w \in DOMAIN ws /\ ws[w] \in Wake /\ w \in S /\ ws[w].state = "claimed" /\ w \notin C
    BY <1>2, <1>3, <1>6, <1>7
  <2>2. wakes'[w] = [ws[w] EXCEPT !.run = r, !.gated = FALSE]
    BY <1>1, <1>5, <1>7, <2>1
  <2>3. wakes'[w] \in Wake /\ Becomes(wakes'[w], ws[w].state, ws[w].epoch, r)
    <3> DEFINE new == wakes'[w]
               row == ws[w]
    <3>1. new = [row EXCEPT !.run = r, !.gated = FALSE] /\ row \in Wake
      BY <2>1, <2>2
    <3> HIDE DEF new, row
    <3>2. new \in Wake /\ Becomes(new, row.state, row.epoch, r)
      BY ONLY <3>1, r \in 0..MaxRuns, LinkRow
    <3> QED BY <3>2 DEF new, row
  <2> QED BY <2>1, <2>3
<1>8. ASSUME NEW w \in C
      PROVE  /\ w \in S /\ ws[w].state = "claimed" /\ wakes'[w] \in Wake
             /\ \/ Becomes(wakes'[w], "failed", ws[w].epoch, ws[w].run)
                \/ wakes'[w] = ws[w] /\ (ws[w].run = 0 => w \in unlinked')
  <2>1. w \in DOMAIN ws /\ ws[w] \in Wake /\ w \in S /\ ws[w].state = "claimed" /\ w \notin linked
    BY <1>2, <1>3, <1>6, <1>8
  <2>2. gs[w] = ws[w] /\ w \in DOMAIN gs
    BY <1>5, <2>1
  <2>3. CASE w \notin worse /\ Unowned(gs, w)
    <3>1. wakes'[w] = [ws[w] EXCEPT !.state = "failed"]
      BY <1>1, <1>8, <2>2, <2>3 DEF Fail
    <3>2. wakes'[w] \in Wake /\ Becomes(wakes'[w], "failed", ws[w].epoch, ws[w].run)
      <4>1. "failed" \in WakeStates
        BY DEF WakeStates
      <4> QED BY <2>1, <3>1, <4>1, StateRow
    <3> QED BY <2>1, <3>2
  <2>4. CASE ~ (w \notin worse /\ Unowned(gs, w))
    <3>1. wakes'[w] = ws[w]
      BY <1>1, <2>2, <2>4
    <3>2. ws[w].run = 0 => w \in worse
      BY <2>1, <2>2, <2>4 DEF Unowned, Open
    <3> QED BY <1>1, <1>8, <2>1, <3>1, <3>2
  <2> QED BY <2>3, <2>4
<1>9. ASSUME NEW w \in DOMAIN ws, w \notin claimed
      PROVE  wakes'[w] = ws[w] /\ (w \in unlinked' <=> w \in unlinked)
  BY <1>1, <1>5, <1>6, <1>9
<1>10. DOMAIN wakes' = DOMAIN ws /\ wakes' \in [DOMAIN ws -> Wake]
  <2>1. DOMAIN wakes' = DOMAIN ws /\ wakes' = [w \in DOMAIN ws |-> wakes'[w]]
    BY <1>1, <1>5
  <2>2. \A w \in DOMAIN ws : wakes'[w] \in Wake
    BY <1>2, <1>6, <1>7, <1>8, <1>9
  <2> QED BY <2>1, <2>2
<1>11. wakes' \in Seq(Wake) /\ Len(wakes') = Len(ws)
  BY <1>10, MapIsSeq
<1>12. /\ took' \in Seq(SUBSET (1..MaxRuns)) /\ DOMAIN took' = DOMAIN ws
       /\ \A w \in DOMAIN ws : took'[w] = IF w \in S THEN took[w] \cup {r} ELSE took[w]
  <2> DEFINE T == SUBSET (1..MaxRuns)
  <2>1. \A w \in DOMAIN took : took[w] \in T /\ took[w] \cup {r} \in T
    BY SeqFacts
  <2>2. took' \in [DOMAIN took -> T]
    BY <1>1, <2>1
  <2>3. took \in Seq(T)
    OBVIOUS
  <2> HIDE DEF T
  <2>4. took' \in Seq(T)
    BY <2>2, <2>3, MapIsSeq
  <2> QED BY <1>1, <2>4 DEF T
<1> QED BY <1>3, <1>4, <1>6, <1>7, <1>8, <1>9, <1>10, <1>11, <1>12, <1>1

\* What a linked wake says, once its trigger was taken by r.
LEMMA LinkKeepsRow ==
  ASSUME NEW row, NEW tk, NEW rs, NEW ln, RunsOK(rs, ln), NEW f, NEW ep,
         WakeOK(row, tk, rs, ln, f, ep), NEW r \in DOMAIN rs, NEW new, NEW g,
         \/ row.state = "claimed" /\ Becomes(new, "claimed", row.epoch, r)
         \/ row.state = "claimed" /\ Becomes(new, "failed", row.epoch, row.run)
         \/ new = row /\ (row.state = "claimed" /\ row.run = 0 => g),
         row.state # "pending"
  PROVE  WakeOK(new, tk \cup {r}, rs, ln, g, ep)
<1>1. r \in ln[r] /\ r # 0
  BY DEF RunsOK
<1>2. CASE row.state = "claimed" /\ Becomes(new, "claimed", row.epoch, r)
  BY <1>1, <1>2 DEF WakeOK, Becomes
<1>3. CASE row.state = "claimed" /\ Becomes(new, "failed", row.epoch, row.run)
  BY <1>1, <1>3 DEF WakeOK, Becomes
<1>4. CASE new = row /\ (row.state = "claimed" /\ row.run = 0 => g)
  BY <1>1, <1>4 DEF WakeOK
<1> QED BY <1>2, <1>3, <1>4

\* Rows that satisfy the invariant keep it when the wakes S are linked to the run r.
LEMMA LinkKeeps ==
  ASSUME NEW ws, NEW S \in SUBSET DOMAIN ws, NEW rs, NEW ln, NEW r \in DOMAIN rs, RunsOK(rs, ln),
         WakesOK(ws, took, rs, ln, unlinked \cup lost, epoch), lost \subseteq DOMAIN ws,
         \A w \in S : ws[w].state # "pending",
         NEW bad, NEW worse, LinkEvents(ws, S, r, bad, worse)
  PROVE  /\ WakesOK(wakes', took', rs, ln, unlinked' \cup lost, epoch)
         /\ DOMAIN wakes' = DOMAIN ws /\ Len(wakes') = Len(ws)
         /\ unlinked' \subseteq unlinked \cup S
         /\ \A w \in DOMAIN ws \ S : wakes'[w] = ws[w] /\ took'[w] = took[w]
         /\ \A w \in S : took'[w] = took[w] \cup {r} /\ wakes'[w].state # "pending"
<1>0. r \in 0..MaxRuns /\ r # 0
  BY DEF RunsOK
<1>1. ws \in Seq(Wake) /\ took \in Seq(SUBSET (1..MaxRuns)) /\ DOMAIN took = DOMAIN ws
  BY DEF WakesOK
<1>2. /\ wakes' \in Seq(Wake) /\ DOMAIN wakes' = DOMAIN ws /\ Len(wakes') = Len(ws)
      /\ took' \in Seq(SUBSET (1..MaxRuns)) /\ DOMAIN took' = DOMAIN ws
      /\ unlinked' \subseteq unlinked \cup S
      /\ \A w \in DOMAIN ws \ S : /\ wakes'[w] = ws[w] /\ took'[w] = took[w]
                                  /\ w \in unlinked' <=> w \in unlinked
      /\ \A w \in S :
            /\ took'[w] = took[w] \cup {r}
            /\ \/ ws[w].state = "claimed" /\ Becomes(wakes'[w], "claimed", ws[w].epoch, r)
               \/ ws[w].state = "claimed" /\ Becomes(wakes'[w], "failed", ws[w].epoch, ws[w].run)
               \/ wakes'[w] = ws[w] /\ (ws[w].state = "claimed" /\ ws[w].run = 0 => w \in unlinked')
  BY <1>0, <1>1, LinkSteps
<1>3. ASSUME NEW w \in DOMAIN ws
      PROVE  WakeOK(wakes'[w], took'[w], rs, ln, w \in unlinked' \cup lost, epoch)
  <2>1. WakeOK(ws[w], took[w], rs, ln, w \in unlinked \cup lost, epoch)
    BY DEF WakesOK
  <2>2. CASE w \notin S
    <3>1. wakes'[w] = ws[w] /\ took'[w] = took[w] /\ (w \in unlinked' \cup lost <=> w \in unlinked \cup lost)
      BY <1>2, <2>2
    <3> QED BY <2>1, <3>1 DEF WakeOK
  <2>3. CASE w \in S
    <3> DEFINE g == w \in unlinked' \cup lost
    <3>1. /\ took'[w] = took[w] \cup {r} /\ ws[w].state # "pending"
          /\ \/ ws[w].state = "claimed" /\ Becomes(wakes'[w], "claimed", ws[w].epoch, r)
             \/ ws[w].state = "claimed" /\ Becomes(wakes'[w], "failed", ws[w].epoch, ws[w].run)
             \/ wakes'[w] = ws[w] /\ (ws[w].state = "claimed" /\ ws[w].run = 0 => g)
      BY <1>2, <2>3
    <3> HIDE DEF g
    <3>2. WakeOK(wakes'[w], took[w] \cup {r}, rs, ln, g, epoch)
      BY <2>1, <3>1, LinkKeepsRow
    <3> QED BY <3>1, <3>2 DEF g
  <2> QED BY <2>2, <2>3
<1>4. \A w \in S : wakes'[w].state # "pending"
  BY <1>2 DEF Becomes
<1> QED BY <1>2, <1>3, <1>4 DEF WakesOK

\* The run r that the attempt begins, and what beginning it leaves in the journal.
Begins(r, rs, ln) == r = Len(runs) + 1 /\ rs = Begun /\ ln = Append(line, att.line \cup {r})
NewRun(r, rs, ln) ==
    /\ RunsOK(rs, ln) /\ r \in DOMAIN rs /\ ln[r] = att.line \cup {r}
    /\ rs[r].status = "running" /\ rs[r].epoch = att.epoch /\ rs[r].from = att.src
    /\ r \in 1..MaxRuns /\ DOMAIN rs = DOMAIN runs \cup {r} /\ r \notin DOMAIN runs
    /\ \A k \in DOMAIN runs : /\ ln[k] = line[k]
                              /\ runs[k].status = "completed" => rs[k].status = "completed"
    /\ att.src # 0 => rs[att.src].status = "resumed"
    /\ \A k \in DOMAIN runs : k # att.src => rs[k] = runs[k]

\* A new run continues the line of its attempt: what is said of the earlier runs stays so.
LEMMA BegunRuns ==
  ASSUME WakeInv, CanBegin, NEW r, NEW rs, NEW ln, Begins(r, rs, ln)
  PROVE  NewRun(r, rs, ln)
<1>14. r = Len(runs) + 1 /\ rs = Begun /\ ln = Append(line, att.line \cup {r})
  BY DEF Begins
<1> DEFINE consumed == [k \in DOMAIN runs |-> IF k = att.src THEN [runs[k] EXCEPT !.status = "resumed"]
                                              ELSE runs[k]]
           row == [status |-> "running", undelivered |-> FALSE, epoch |-> att.epoch, from |-> att.src]
           T == SUBSET (1..MaxRuns)
<1>0. /\ att.phase = "setup" /\ att.epoch = epoch /\ r <= MaxRuns
      /\ row \in Run /\ row.status = "running" /\ row.from = att.src /\ row.epoch = att.epoch
  <2>1. att \in Attempt /\ epoch \in 1..MaxEpoch /\ Len(runs) \in Nat
    BY LenProperties DEF WakeInv, AttemptOK, RunsOK
  <2>2. att.phase = "setup" /\ att.epoch = epoch /\ r <= MaxRuns
    BY <1>14, <2>1, WakeAssumption DEF CanBegin, Authority
  <2> QED BY <2>1, <2>2 DEF Run, RunStatus, Attempt
<1>1. /\ runs \in Seq(Run) /\ Len(runs) \in Nat /\ \A k \in DOMAIN runs : k \in 1..Len(runs) /\ runs[k] \in Run
      /\ line \in Seq(T) /\ DOMAIN line = DOMAIN runs /\ Len(line) = Len(runs)
      /\ DOMAIN runs \subseteq 1..MaxRuns
  BY SeqFacts, LenProperties DEF WakeInv, RunsOK
<1>2. att.line \subseteq DOMAIN runs
  BY DEF WakeInv, AttemptOK
<1>3. r \in 1..MaxRuns /\ att.line \cup {r} \in T /\ r \notin DOMAIN runs /\ \A k \in DOMAIN runs : k < r
  BY <1>0, <1>1, <1>2, <1>14, WakeAssumption
<1>4. \A k \in DOMAIN runs : /\ consumed[k] \in Run /\ consumed[k].from = runs[k].from
                             /\ k # att.src => consumed[k] = runs[k]
                             /\ k = att.src => consumed[k].status = "resumed"
  <2>1. ASSUME NEW k \in DOMAIN runs
        PROVE  /\ consumed[k] \in Run /\ consumed[k].from = runs[k].from
               /\ k # att.src => consumed[k] = runs[k]
               /\ k = att.src => consumed[k].status = "resumed"
    <3>1. runs[k] \in Run
      BY <1>1
    <3> QED BY <3>1 DEF Run, RunStatus
  <2> QED BY <2>1
<1>5. consumed \in Seq(Run) /\ DOMAIN consumed = DOMAIN runs /\ Len(consumed) = Len(runs)
  <2>1. consumed \in [DOMAIN runs -> Run]
    BY <1>4
  <2> HIDE DEF consumed
  <2> QED BY <1>1, <2>1, MapIsSeq
<1>6. rs = Append(consumed, row)
  BY <1>14 DEF Begun
<1> HIDE DEF consumed, T, row
<1>7. /\ rs \in Seq(Run) /\ rs[r] = row /\ DOMAIN rs = DOMAIN runs \cup {r}
      /\ \A k \in DOMAIN runs : rs[k] = consumed[k]
  <2> DEFINE new == Append(consumed, row)
  <2>1. /\ new \in Seq(Run) /\ new[Len(consumed) + 1] = row
        /\ DOMAIN new = DOMAIN consumed \cup {Len(consumed) + 1}
        /\ \A k \in DOMAIN consumed : new[k] = consumed[k]
    BY <1>0, <1>5, AppendFacts
  <2>2. rs = new /\ Len(consumed) + 1 = r
    BY <1>5, <1>6, <1>14
  <2> HIDE DEF new
  <2> QED BY <1>5, <2>1, <2>2
<1>8. /\ ln \in Seq(T) /\ ln[r] = att.line \cup {r} /\ DOMAIN ln = DOMAIN runs \cup {r}
      /\ \A k \in DOMAIN runs : ln[k] = line[k]
  BY <1>1, <1>3, <1>14, AppendFacts
<1>9. att.src # 0 => att.src \in DOMAIN runs /\ line[att.src] \subseteq att.line
                     /\ runs[att.src].status \in {"interrupted", "resumed"}
  BY DEF WakeInv, AttemptOK
<1>10. \A k \in DOMAIN runs : k # 0
  BY <1>1
<1>11. ASSUME NEW k \in DOMAIN rs
       PROVE  /\ k \in ln[k] /\ ln[k] \subseteq DOMAIN rs
              /\ rs[k].from # 0 => /\ rs[k].from \in DOMAIN rs /\ rs[k].from < k
                                   /\ ln[rs[k].from] \subseteq ln[k]
              /\ rs[k].status = "resumed" => \E j \in DOMAIN rs : rs[j].from = k
  <2>1. CASE k = r
    <3>1. ln[k] = att.line \cup {r} /\ rs[k].from = att.src /\ rs[k].status # "resumed"
      BY <1>0, <1>7, <1>8, <2>1
    <3>2. att.src # 0 => att.src \in DOMAIN runs /\ att.src < r /\ ln[att.src] = line[att.src]
      BY <1>3, <1>8, <1>9
    <3> QED BY <1>2, <1>7, <1>9, <2>1, <3>1, <3>2
  <2>2. CASE k \in DOMAIN runs
    <3>1. /\ k \in line[k] /\ line[k] \subseteq DOMAIN runs
          /\ runs[k].from # 0 => /\ runs[k].from \in DOMAIN runs /\ runs[k].from < k
                                 /\ line[runs[k].from] \subseteq line[k]
          /\ runs[k].status = "resumed" => \E j \in DOMAIN runs : runs[j].from = k
      BY <2>2 DEF WakeInv, RunsOK
    <3>2. rs[k].from = runs[k].from /\ ln[k] = line[k]
      BY <1>4, <1>7, <1>8, <2>2
    <3>3. rs[k].status = "resumed" => \E j \in DOMAIN rs : rs[j].from = k
      BY <1>0, <1>4, <1>7, <2>2, <3>1, ZenonT(40)
    <3> QED BY <1>7, <1>8, <3>1, <3>2, <3>3, ZenonT(40)
  <2> QED BY <1>7, <2>1, <2>2
<1>12. RunsOK(rs, ln)
  BY <1>1, <1>3, <1>7, <1>8, <1>11 DEF RunsOK, T
<1>13. \A k \in DOMAIN runs : runs[k].status = "completed" => rs[k].status = "completed"
  BY <1>4, <1>7, <1>9, <1>10
<1> QED BY <1>0, <1>3, <1>4, <1>7, <1>8, <1>9, <1>12, <1>13 DEF NewRun

\* A row w as the begin hook of run r leaves it, which has reached the rows D: f tells
\* whether its owner may be unknown.
GivenTo(w, D, r, tk, f, new) ==
    /\ took[w] \subseteq tk /\ tk \subseteq took[w] \cup {r}
    /\ r \in tk => w \in members
    /\ w \in D \cap Loose => r \in tk
    /\ w \in unlinked \cup lost => f
    /\ r \in tk /\ w \in Loose \ D => f
    /\ new = Given(wakes, D, r)[w]
GivenOK(w, D, r, rs, ln, tk, f, new) ==
    /\ new \in Wake /\ WakeOK(new, tk, rs, ln, f, epoch)
    /\ w \notin D => new = wakes[w]
    /\ w \in D => wakes[w].state = "claimed" /\ Becomes(new, "claimed", wakes[w].epoch, r)

\* Such a row says what it should, once r took what the attempt answers for.
LEMMA GivenRow ==
  ASSUME WakeInv, att.phase = "setup", NEW r, NEW rs, NEW ln, NewRun(r, rs, ln),
         NEW D \in SUBSET (Moved \cup Loose), NEW w \in DOMAIN wakes, NEW tk, NEW f, NEW new,
         GivenTo(w, D, r, tk, f, new)
  PROVE  GivenOK(w, D, r, rs, ln, tk, f, new)
<1>8. /\ RunsOK(rs, ln) /\ r \in DOMAIN rs /\ r \in 1..MaxRuns /\ ln[r] = att.line \cup {r}
      /\ DOMAIN rs = DOMAIN runs \cup {r} /\ r \notin DOMAIN runs
      /\ \A k \in DOMAIN runs : /\ ln[k] = line[k]
                                /\ runs[k].status = "completed" => rs[k].status = "completed"
  BY DEF NewRun
<1>9. /\ took[w] \subseteq tk /\ tk \subseteq took[w] \cup {r}
      /\ r \in tk => w \in members
      /\ w \in D \cap Loose => r \in tk
      /\ w \in unlinked \cup lost => f
      /\ r \in tk /\ w \in Loose \ D => f
      /\ new = Given(wakes, D, r)[w]
  BY DEF GivenTo
<1> USE <1>8, <1>9
<1> DEFINE old == wakes[w]
           was == took[w]
           g == w \in unlinked \cup lost
<1>1. old \in Wake /\ WakeOK(old, was, runs, line, g, epoch)
  BY SeqFacts DEF WakeInv, WakesOK
<1>2. w \in members => old.state # "pending"
  BY DEF WakeInv, PlacesOK
<1>3. r # 0 /\ \A k \in DOMAIN runs : k # 0
  BY DEF WakeInv, RunsOK
<1>4. was \subseteq DOMAIN runs
  BY <1>1 DEF WakeOK
<1>5. tk # was => w \in members
  BY <1>4
<1>6. CASE w \notin D
  <2>1. new = old
    BY <1>6 DEF Given
  <2>2. old.state = "claimed" /\ old.run = 0 /\ tk # {} => f \/ (was # {} /\ ~g /\ old.epoch # epoch) \/ old.epoch # epoch
    <3>1. ASSUME old.state = "claimed", old.run = 0, tk # {}, old.epoch = epoch, ~f PROVE FALSE
      <4>1. was = {}
        BY <1>1, <3>1 DEF WakeOK
      <4>2. r \in tk /\ w \in members
        BY <1>4, <1>5, <3>1, <4>1
      <4>3. w \in Loose
        BY <3>1, <4>2 DEF Loose, Unowned, Open
      <4> QED BY <1>6, <3>1, <4>2, <4>3
    <3> QED BY <3>1
  <2>3. old.state = "pending" => tk = was
    BY <1>2, <1>5
  <2>5. tk \subseteq DOMAIN rs /\ DOMAIN runs \subseteq DOMAIN rs /\ was \subseteq tk
    BY <1>4
  <2>8. \A k \in DOMAIN runs : /\ was \cap line[k] # {} => tk \cap ln[k] # {}
                               /\ runs[k].status = "completed" => rs[k].status = "completed"
    <3> HIDE DEF was
    <3> QED BY <2>5
  <2>4. old.run \in DOMAIN runs /\ was \cap line[old.run] # {} => tk \cap ln[old.run] # {}
    <3> HIDE DEF was, old
    <3> QED BY ONLY <2>8
  <2>6. (\E k \in DOMAIN runs : runs[k].status = "completed" /\ was \cap line[k] # {})
          => \E k \in DOMAIN rs : rs[k].status = "completed" /\ tk \cap ln[k] # {}
    <3> HIDE DEF was
    <3> QED BY ONLY <2>5, <2>8
  <2> HIDE DEF old, was, g
  <2>7. WakeOK(old, tk, rs, ln, f, epoch)
    BY <1>1, <2>2, <2>3, <2>4, <2>5, <2>6 DEF WakeOK
  <2> QED BY <1>1, <1>6, <2>1, <2>7 DEF old, GivenOK
<1>7. CASE w \in D
  <2>1. new = [old EXCEPT !.run = r, !.gated = FALSE]
    BY <1>7 DEF Given
  <2>2. old.state = "claimed" /\ old.epoch <= epoch
    BY <1>1, <1>7 DEF Moved, Loose, Owned, Unowned, Open, WakeOK
  <2>3. new \in Wake /\ Becomes(new, "claimed", old.epoch, r)
    <3>1. r \in 0..MaxRuns
      OBVIOUS
    <3> HIDE DEF old
    <3>2. new \in Wake /\ Becomes(new, old.state, old.epoch, r)
      BY ONLY <1>1, <2>1, <3>1, LinkRow
    <3> QED BY <2>2, <3>2
  <2>4. tk \cap ln[r] # {}
    <3>1. CASE w \in Loose
      BY <1>7, <3>1
    <3>2. CASE w \in Moved
      <4>1. old.run # 0 /\ old.run \in {att.src, att.pred}
        BY <3>2 DEF Moved, Owned
      <4>2. was \cap line[old.run] # {}
        BY <1>1, <2>2, <4>1 DEF WakeOK
      <4>3. line[old.run] \subseteq att.line
        BY <4>1 DEF WakeInv, AttemptOK
      <4> QED BY <4>2, <4>3
    <3> QED BY <1>7, <3>1, <3>2
  <2>5. tk \subseteq DOMAIN rs
    BY <1>4
  <2>6. WakeOK(new, tk, rs, ln, f, epoch)
    <3> HIDE DEF old
    <3> QED BY <1>3, <2>2, <2>3, <2>4, <2>5 DEF WakeOK, Becomes
  <2> QED BY <1>7, <2>2, <2>3, <2>6 DEF GivenOK
<1> QED BY <1>6, <1>7

LEMMA GivenRows ==
  ASSUME WakeInv, NEW D, NEW r
  PROVE  /\ DOMAIN Given(wakes, D, r) = DOMAIN wakes
         /\ (\A w \in DOMAIN wakes : Given(wakes, D, r)[w] \in Wake) =>
               Given(wakes, D, r) \in Seq(Wake) /\ Len(Given(wakes, D, r)) = Len(wakes)
<1> DEFINE gs == Given(wakes, D, r)
<1>1. DOMAIN gs = DOMAIN wakes /\ gs = [w \in DOMAIN wakes |-> gs[w]]
  BY DEF Given
<1>2. wakes \in Seq(Wake)
  BY DEF WakeInv, WakesOK
<1> HIDE DEF gs
<1>3. ASSUME \A w \in DOMAIN wakes : gs[w] \in Wake PROVE gs \in Seq(Wake) /\ Len(gs) = Len(wakes)
  <2>1. gs \in [DOMAIN wakes -> Wake]
    BY <1>1, <1>3
  <2> QED BY <1>2, <2>1, MapIsSeq
<1> QED BY <1>1, <1>3 DEF gs

LEMMA BeginKeeps == ASSUME WakeInv, Begin PROVE WakeInv'
<1> DEFINE r == Len(runs) + 1
           moved == Moved
<1>1. /\ CanBegin /\ runs' = Begun
      /\ line' = Append(line, att.line \cup {r})
      /\ att' = [att EXCEPT !.phase = "running", !.run = r, !.line = @ \cup {r}]
      /\ UNCHANGED <<wakeOf, epoch, queue, joining, members, closed, crashes, told, revoked, lost>>
      /\ att.phase = "setup" /\ att.epoch = epoch
  BY DEF Begin, CanBegin, Authority
<1>2. PICK bad \in SUBSET DOMAIN wakes, worse \in SUBSET DOMAIN wakes :
        Refuses(bad) /\ LinkEvents(Given(wakes, moved \ bad, r), members, r, bad, worse)
  BY DEF Begin
<1>3. att \in Attempt /\ epoch \in 1..MaxEpoch
  BY DEF WakeInv, AttemptOK
<1>4. PICK rs, ln : rs = Begun /\ ln = Append(line, att.line \cup {r}) /\ runs' = rs /\ line' = ln
  BY <1>1
<1>24. NewRun(r, rs, ln)
  <2>1. Begins(r, rs, ln) /\ CanBegin /\ WakeInv
    BY <1>1, <1>4 DEF Begins
  <2> HIDE DEF r
  <2> QED BY ONLY <2>1, BegunRuns
<1>5. /\ RunsOK(rs, ln) /\ r \in DOMAIN rs /\ ln[r] = att.line \cup {r}
      /\ rs[r].status = "running" /\ DOMAIN rs = DOMAIN runs \cup {r} /\ r \notin DOMAIN runs
      /\ \A k \in DOMAIN runs : /\ ln[k] = line[k]
                                /\ runs[k].status = "completed" => rs[k].status = "completed"
      /\ att.src # 0 => rs[att.src].status = "resumed"
      /\ r \in 1..MaxRuns
  <2> HIDE DEF r
  <2> QED BY <1>24 DEF NewRun
<1>6. r # 0 /\ \A k \in DOMAIN runs : k # 0
  BY <1>5 DEF RunsOK, WakeInv
<1> DEFINE gs == Given(wakes, moved \ bad, r)
<1>7. /\ wakes \in Seq(Wake) /\ took \in Seq(SUBSET (1..MaxRuns)) /\ DOMAIN took = DOMAIN wakes
      /\ \A w \in DOMAIN wakes : wakes[w] \in Wake
                                 /\ WakeOK(wakes[w], took[w], runs, line, w \in unlinked \cup lost, epoch)
  BY SeqFacts DEF WakeInv, WakesOK
<1>8. DOMAIN gs = DOMAIN wakes
  BY GivenRows
<1>9. \A w \in moved : /\ w \in DOMAIN wakes /\ wakes[w].state = "claimed" /\ wakes[w].run # 0
                       /\ wakes[w].run \in {att.src, att.pred}
  BY DEF Moved, Owned, Open
<1> HIDE DEF r
<1>10. ASSUME NEW w \in DOMAIN wakes
       PROVE  gs[w] \in Wake /\ WakeOK(gs[w], took[w], rs, ln, w \in unlinked \cup lost, epoch)
              /\ (w \notin moved \ bad => gs[w] = wakes[w])
              /\ (w \in moved \ bad => Becomes(gs[w], "claimed", wakes[w].epoch, r))
  <2> DEFINE f == w \in unlinked \cup lost
             D == moved \ bad
             tk == took[w]
  <2>1. D \in SUBSET (Moved \cup Loose)
    OBVIOUS
  <2>2. w \notin D \cap Loose /\ r \notin took[w]
    BY <1>5, <1>7, <1>9 DEF Loose, Unowned, WakeOK
  <2>3. GivenTo(w, D, r, tk, f, gs[w])
    BY <2>2 DEF GivenTo
  <2>4. WakeInv /\ att.phase = "setup"
    BY <1>1
  <2> HIDE DEF f, D, tk, gs
  <2>5. PICK new : new = gs[w]
    OBVIOUS
  <2>6. GivenTo(w, D, r, tk, f, new)
    BY <2>3, <2>5
  <2>7. GivenOK(w, D, r, rs, ln, tk, f, new)
    BY ONLY <1>24, <2>1, <2>4, <2>6, w \in DOMAIN wakes, GivenRow
  <2> QED BY <2>5, <2>7 DEF f, D, tk, GivenOK
<1> HIDE DEF moved, gs
<1>11. WakesOK(gs, took, rs, ln, unlinked \cup lost, epoch) /\ Len(gs) = Len(wakes)
  <2>1. gs \in Seq(Wake) /\ Len(gs) = Len(wakes)
    BY <1>10, GivenRows DEF gs
  <2> QED BY <1>7, <1>8, <1>10, <2>1 DEF WakesOK
<1>12. /\ members \subseteq DOMAIN wakes /\ lost \subseteq DOMAIN wakes /\ unlinked \subseteq DOMAIN wakes
       /\ \A w \in members \cup queue : wakes[w].state # "pending"
       /\ queue \cap members = {} /\ joining = {} /\ queue \subseteq DOMAIN wakes
       /\ \A w \in queue \ lost : took[w] = {}
       /\ \A w \in members \ lost : took[w] \subseteq att.line
  BY <1>1 DEF WakeInv, PlacesOK
<1>13. \A w \in DOMAIN wakes : gs[w].state = wakes[w].state
  BY <1>9, <1>10 DEF Becomes
<1>14. /\ WakesOK(wakes', took', rs, ln, unlinked' \cup lost, epoch)
       /\ DOMAIN wakes' = DOMAIN wakes /\ Len(wakes') = Len(gs)
       /\ unlinked' \subseteq unlinked \cup members
       /\ \A w \in DOMAIN wakes \ members : wakes'[w] = gs[w] /\ took'[w] = took[w]
       /\ \A w \in members : took'[w] = took[w] \cup {r} /\ wakes'[w].state # "pending"
  <2>1. LinkEvents(gs, members, r, bad, worse)
    BY <1>2 DEF gs
  <2>2. members \subseteq DOMAIN gs /\ lost \subseteq DOMAIN gs /\ \A w \in members : gs[w].state # "pending"
    BY <1>8, <1>12, <1>13
  <2>3. /\ WakesOK(wakes', took', rs, ln, unlinked' \cup lost, epoch)
        /\ DOMAIN wakes' = DOMAIN gs /\ Len(wakes') = Len(gs)
        /\ unlinked' \subseteq unlinked \cup members
        /\ \A w \in DOMAIN gs \ members : wakes'[w] = gs[w] /\ took'[w] = took[w]
        /\ \A w \in members : took'[w] = took[w] \cup {r} /\ wakes'[w].state # "pending"
    BY <1>5, <1>11, <2>1, <2>2, LinkKeeps
  <2> QED BY <1>8, <2>3
<1>16. ToldOK(wakes', wakeOf', told')
  <2>1. /\ wakeOf' \in [Events -> 0..Len(wakes')] /\ told' \subseteq Events
    BY <1>1, <1>11, <1>14 DEF WakeInv, ToldOK
  <2>2. \A w \in DOMAIN wakes : wakes'[w].state # "pending" => wakes[w].state # "pending"
    BY <1>12, <1>13, <1>14
  <2>3. ASSUME NEW e \in Events, wakeOf'[e] # 0, wakes'[wakeOf'[e]].state # "pending" PROVE e \in told'
    <3>1. wakeOf[e] \in DOMAIN wakes
      <4>1. wakeOf[e] \in 1..Len(wakes)
        BY <1>1, <2>3 DEF WakeInv, ToldOK
      <4> QED BY <1>7, <4>1, SeqFacts
    <3> QED BY <1>1, <2>2, <2>3, <3>1 DEF WakeInv, ToldOK
  <2> QED BY <2>1, <2>3 DEF ToldOK
<1>17. /\ att' \in Attempt /\ att'.phase = "running" /\ att'.run = r /\ att'.line = att.line \cup {r}
       /\ att'.epoch = att.epoch /\ att'.src = att.src /\ att'.pred = att.pred
  <2>1. r \in 0..MaxRuns /\ att.line \cup {r} \in SUBSET (1..MaxRuns)
    BY <1>3, <1>5 DEF Attempt
  <2> QED BY <1>1, <1>3, <2>1 DEF Attempt
<1>18. AttemptOK(att', rs, ln, epoch)
  BY <1>5, <1>6, <1>17 DEF WakeInv, AttemptOK
<1>19. PlacesOK(wakes', att', queue, joining, members, took', lost)
  BY <1>5, <1>12, <1>13, <1>14, <1>17 DEF PlacesOK
<1>20. TakenOnce(DOMAIN wakes, took', ln, lost)
  <2> SUFFICES ASSUME NEW w \in DOMAIN wakes \ lost, NEW a \in took'[w], NEW b \in took'[w]
               PROVE  a \in ln[b] \/ b \in ln[a]
    BY DEF TakenOnce
  <2>1. took[w] \subseteq DOMAIN runs /\ \A c, d \in took[w] : c \in line[d] \/ d \in line[c]
    BY <1>7 DEF WakeOK, WakeInv, TakenOnce
  <2>2. CASE a \in took[w] /\ b \in took[w]
    BY <1>5, <2>1, <2>2
  <2>3. CASE a = r \/ b = r
    <3>1. w \in members => took[w] \cup {r} \subseteq ln[r]
      BY <1>5, <1>12
    <3>2. w \in members
      BY <1>5, <1>14, <2>1, <2>3
    <3> QED BY <1>14, <2>3, <3>1, <3>2
  <2> QED BY <1>14, <2>2, <2>3
<1>21. RevokedOK(revoked, wakes', att', queue, joining, members, epoch)
  <2> SUFFICES ASSUME NEW w \in revoked
               PROVE  /\ w \in DOMAIN wakes' /\ wakes'[w].state # "pending" /\ w \notin queue
                      /\ w \in joining \cup members => att'.epoch < epoch
                      /\ wakes'[w].state = "claimed" /\ wakes'[w].run = 0 => wakes'[w].epoch < epoch
    BY DEF RevokedOK
  <2>1. /\ w \in DOMAIN wakes /\ wakes[w].state # "pending" /\ w \notin queue
        /\ w \in joining \cup members => att.epoch < epoch
        /\ wakes[w].state = "claimed" /\ wakes[w].run = 0 => wakes[w].epoch < epoch
    BY DEF WakeInv, RevokedOK
  <2>2. w \notin members
    BY <1>1, <1>3, <2>1
  <2>3. wakes'[w] = gs[w]
    BY <1>14, <2>1, <2>2
  <2>4. wakes'[w].state = "claimed" /\ wakes'[w].run = 0 => gs[w] = wakes[w]
    BY <1>6, <1>10, <2>1, <2>3 DEF Becomes
  <2> QED BY <1>12, <1>13, <1>14, <2>1, <2>2, <2>3, <2>4
<1>22. faults' \in 0..MaxFaults
  BY <1>2, WakeAssumption DEF WakeInv, Refuses
<1>23. unlinked' \cup lost' \subseteq DOMAIN wakes'
  BY <1>1, <1>12, <1>14
<1> QED BY <1>1, <1>4, <1>5, <1>14, <1>16, <1>18, <1>19, <1>20, <1>21, <1>22, <1>23 DEF WakeInv

LEMMA JoinKeeps == ASSUME WakeInv, JoinSteers PROVE WakeInv'
<1> DEFINE r == att.run
<1>1. /\ joining # {} /\ joining' = {}
      /\ UNCHANGED <<wakeOf, runs, epoch, queue, att, closed, crashes, told, line, revoked, lost>>
  BY DEF JoinSteers
<1>2. /\ joining \subseteq DOMAIN wakes /\ members \subseteq DOMAIN wakes /\ lost \subseteq DOMAIN wakes
      /\ unlinked \subseteq DOMAIN wakes /\ queue \subseteq DOMAIN wakes
      /\ \A w \in joining \cup members \cup queue : wakes[w].state # "pending"
      /\ queue \cap joining = {} /\ queue \cap members = {} /\ joining \cap members = {}
      /\ \A w \in (queue \cup joining) \ lost : took[w] = {}
      /\ \A w \in members \ lost : took[w] \subseteq att.line
      /\ att.phase = "running"
  BY <1>1 DEF WakeInv, PlacesOK
<1>3. r \in DOMAIN runs /\ r \in line[r] /\ line[r] \subseteq att.line
  BY <1>2 DEF WakeInv, AttemptOK, RunsOK
<1>4. /\ wakes \in Seq(Wake) /\ DOMAIN took = DOMAIN wakes /\ epoch \in Nat /\ att.epoch \in Nat
      /\ WakesOK(wakes, took, runs, line, unlinked \cup lost, epoch)
  BY DEF WakeInv, WakesOK, AttemptOK, Attempt
<1>5. CASE Authority /\ members' = members \cup joining
  <2>1. CASE \E bad \in SUBSET joining : \E worse \in SUBSET bad :
               Refuses(bad) /\ LinkEvents(wakes, joining, att.run, bad, worse)
    <3>1. PICK bad \in SUBSET joining : \E worse \in SUBSET bad :
               Refuses(bad) /\ LinkEvents(wakes, joining, r, bad, worse)
      BY <2>1
    <3>2. PICK worse \in SUBSET bad : Refuses(bad) /\ LinkEvents(wakes, joining, r, bad, worse)
      BY <3>1
    <3> HIDE DEF r
    <3>3. /\ WakesOK(wakes', took', runs, line, unlinked' \cup lost, epoch)
          /\ DOMAIN wakes' = DOMAIN wakes /\ Len(wakes') = Len(wakes)
          /\ unlinked' \subseteq unlinked \cup joining
          /\ \A w \in DOMAIN wakes \ joining : wakes'[w] = wakes[w] /\ took'[w] = took[w]
          /\ \A w \in joining : took'[w] = took[w] \cup {r} /\ wakes'[w].state # "pending"
      <4>1. /\ RunsOK(runs, line) /\ WakesOK(wakes, took, runs, line, unlinked \cup lost, epoch)
            /\ lost \subseteq DOMAIN wakes /\ joining \in SUBSET DOMAIN wakes
        BY <1>2, <1>4 DEF WakeInv
      <4>2. (\A w \in joining : wakes[w].state # "pending") /\ r \in DOMAIN runs
        BY <1>2, <1>3
      <4>3. LinkEvents(wakes, joining, r, bad, worse)
        BY <3>2
      <4> QED BY ONLY <4>1, <4>2, <4>3, LinkKeeps, ZenonT(40)
    <3>4. \A w \in DOMAIN wakes : wakes'[w].state # "pending" => wakes[w].state # "pending"
      BY <1>2, <3>3
    <3>5. ToldOK(wakes', wakeOf, told)
      <4>1. ASSUME NEW e \in Events, wakeOf[e] # 0, wakes'[wakeOf[e]].state # "pending" PROVE e \in told
        <5>1. wakeOf[e] \in DOMAIN wakes
          <6>1. wakeOf[e] \in 1..Len(wakes)
            BY <4>1, SeqFacts, <1>4 DEF WakeInv, ToldOK
          <6> QED BY <1>4, <6>1, SeqFacts
        <5> QED BY <3>4, <4>1, <5>1 DEF WakeInv, ToldOK
      <4> QED BY <3>3, <4>1 DEF WakeInv, ToldOK
    <3>6. PlacesOK(wakes', att, queue, {}, members', took', lost)
      <4>1. \A w \in queue : took'[w] = took[w]
        BY <1>2, <3>3
      <4>2. ASSUME NEW w \in members', w \notin lost PROVE took'[w] \subseteq att.line
        <5>1. CASE w \in joining
          BY <1>2, <1>3, <3>3, <4>2, <5>1
        <5>2. CASE w \notin joining
          BY <1>2, <1>5, <3>3, <4>2, <5>2
        <5> QED BY <5>1, <5>2
      <4>3. att.phase # "idle"
        BY <1>2
      <4>4. queue \cup members' \subseteq DOMAIN wakes' /\ queue \cap members' = {}
        BY <1>2, <1>5, <3>3
      <4>5. \A w \in queue \cup members' : wakes'[w].state # "pending"
        BY <1>2, <1>5, <3>3
      <4> QED BY <1>2, <4>1, <4>2, <4>3, <4>4, <4>5 DEF PlacesOK
    <3>7. TakenOnce(DOMAIN wakes, took', line, lost)
      <4> SUFFICES ASSUME NEW w \in DOMAIN wakes \ lost, NEW a \in took'[w], NEW b \in took'[w]
                   PROVE  a \in line[b] \/ b \in line[a]
        BY DEF TakenOnce
      <4>1. CASE w \in joining
        <5>1. a = r /\ b = r
          BY <1>2, <3>3, <4>1
        <5> QED BY <1>3, <5>1
      <4>2. CASE w \notin joining
        BY <3>3, <4>2 DEF WakeInv, TakenOnce
      <4> QED BY <4>1, <4>2
    <3>8. RevokedOK(revoked, wakes', att, queue, {}, members', epoch)
      <4> SUFFICES ASSUME NEW w \in revoked
                   PROVE  /\ w \in DOMAIN wakes' /\ wakes'[w].state # "pending" /\ w \notin queue
                          /\ w \in members' => att.epoch < epoch
                          /\ wakes'[w].state = "claimed" /\ wakes'[w].run = 0 => wakes'[w].epoch < epoch
        BY DEF RevokedOK
      <4>1. /\ w \in DOMAIN wakes /\ wakes[w].state # "pending" /\ w \notin queue
            /\ w \in joining \cup members => att.epoch < epoch
            /\ wakes[w].state = "claimed" /\ wakes[w].run = 0 => wakes[w].epoch < epoch
        BY DEF WakeInv, RevokedOK
      <4>2. w \notin joining
        BY <1>4, <1>5, <4>1 DEF Authority
      <4> QED BY <1>5, <3>3, <4>1, <4>2
    <3>9. faults' \in 0..MaxFaults
      BY <3>2, WakeAssumption DEF WakeInv, Refuses
    <3>10. unlinked' \cup lost \subseteq DOMAIN wakes'
      BY <1>2, <3>3
    <3> QED BY <1>1, <3>3, <3>5, <3>6, <3>7, <3>8, <3>9, <3>10 DEF WakeInv
  <2> QED BY <1>5, <2>1, <1>1 DEF JoinSteers
<1>6. CASE ~Authority /\ UNCHANGED <<wakes, unlinked, faults, members, took>>
  <2>1. PlacesOK(wakes, att, queue, {}, members, took, lost)
    BY DEF WakeInv, PlacesOK
  <2>2. RevokedOK(revoked, wakes, att, queue, {}, members, epoch)
    BY DEF WakeInv, RevokedOK
  <2> QED BY <1>1, <1>6, <2>1, <2>2 DEF WakeInv
<1> QED BY <1>5, <1>6 DEF JoinSteers

\* A death before the run closes the wakes that no run took.
LEMMA DeathKeeps == ASSUME WakeInv, DieBeforeRun PROVE WakeInv'
<1> DEFINE S == {w \in members : Unowned(wakes, w)}
<1>1. /\ att.phase = "setup" /\ att' = [att EXCEPT !.phase = "over"]
      /\ UNCHANGED <<wakeOf, runs, epoch, queue, joining, members, closed, crashes>>
      /\ UNCHANGED <<told, took, line, revoked, lost>>
  BY DEF DieBeforeRun, Ending, history
<1>2. PICK bad \in SUBSET members :
        /\ Refuses(bad)
        /\ wakes' = [w \in DOMAIN wakes |-> IF w \in S \ bad /\ Unowned(wakes, w) THEN Fail(wakes[w]) ELSE wakes[w]]
        /\ unlinked' = (unlinked \ S) \cup (S \cap bad)
  BY DEF DieBeforeRun, CloseUnlinked, Loose
<1>3. /\ members \cup queue \cup unlinked \cup lost \subseteq DOMAIN wakes /\ joining = {}
      /\ wakes \in Seq(Wake) /\ \A w \in DOMAIN wakes : wakes[w] \in Wake
      /\ \A w \in DOMAIN wakes : WakeOK(wakes[w], took[w], runs, line, w \in unlinked \cup lost, epoch)
  BY <1>1, SeqFacts DEF WakeInv, PlacesOK, WakesOK
<1>4. ASSUME NEW w \in DOMAIN wakes
      PROVE  /\ wakes'[w] \in Wake
             /\ wakes'[w].state = "pending" <=> wakes[w].state = "pending"
             /\ WakeOK(wakes'[w], took[w], runs, line, w \in unlinked' \cup lost, epoch)
             /\ wakes'[w].state = "claimed" => wakes'[w] = wakes[w]
  <2>1. CASE w \in S \ bad
    <3>1. wakes[w].state = "claimed" /\ wakes[w] \in Wake /\ wakes'[w] = [wakes[w] EXCEPT !.state = "failed"]
      BY <1>2, <1>3, <2>1 DEF Unowned, Open, Fail
    <3>2. wakes'[w] \in Wake /\ Becomes(wakes'[w], "failed", wakes[w].epoch, wakes[w].run)
      <4>1. "failed" \in WakeStates
        BY DEF WakeStates
      <4> QED BY <3>1, <4>1, StateRow
    <3>3. WakeOK(wakes[w], took[w], runs, line, w \in unlinked \cup lost, epoch)
      BY <1>3
    <3>4. WakeOK(wakes'[w], took[w], runs, line, w \in unlinked' \cup lost, epoch)
      BY <3>1, <3>2, <3>3 DEF WakeOK, Becomes
    <3> QED BY <3>1, <3>2, <3>4 DEF Becomes
  <2>2. CASE w \notin S \ bad
    <3>1. wakes'[w] = wakes[w] /\ (w \in unlinked \cup lost => w \in unlinked' \cup lost)
      BY <1>2, <2>2
    <3>2. WakeOK(wakes[w], took[w], runs, line, w \in unlinked \cup lost, epoch)
      BY <1>3
    <3> QED BY <1>3, <3>1, <3>2 DEF WakeOK
  <2> QED BY <2>1, <2>2
<1>5. DOMAIN wakes' = DOMAIN wakes /\ wakes' \in Seq(Wake) /\ Len(wakes') = Len(wakes)
  <2> DEFINE row(w) == IF w \in S \ bad /\ Unowned(wakes, w) THEN Fail(wakes[w]) ELSE wakes[w]
  <2>1. wakes' = [w \in DOMAIN wakes |-> row(w)]
    BY <1>2
  <2> HIDE DEF row
  <2>2. \A w \in DOMAIN wakes : wakes'[w] \in Wake
    BY <1>4
  <2>3. wakes' \in [DOMAIN wakes -> Wake]
    BY ONLY <2>1, <2>2
  <2> QED BY <1>3, <2>3, MapIsSeq
<1> HIDE DEF S
<1>6. WakesOK(wakes', took, runs, line, unlinked' \cup lost, epoch)
  BY <1>4, <1>5 DEF WakesOK, WakeInv
<1>7. ToldOK(wakes', wakeOf, told)
  <2>1. ASSUME NEW e \in Events, wakeOf[e] # 0, wakes'[wakeOf[e]].state # "pending" PROVE e \in told
    <3>1. wakeOf[e] \in DOMAIN wakes
      <4>1. wakeOf[e] \in 1..Len(wakes)
        BY <2>1, SeqFacts, <1>3 DEF WakeInv, ToldOK
      <4> QED BY <1>3, <4>1, SeqFacts
    <3> QED BY <1>4, <2>1, <3>1 DEF WakeInv, ToldOK
  <2> QED BY <1>5, <2>1 DEF WakeInv, ToldOK
<1>8. /\ att' \in Attempt /\ att'.phase = "over" /\ att'.epoch = att.epoch /\ att'.line = att.line
      /\ att'.run = att.run /\ att'.pred = att.pred /\ att'.src = att.src
  <2>1. att \in Attempt
    BY DEF WakeInv, AttemptOK
  <2> QED BY <1>1, <2>1 DEF Attempt
<1>9. AttemptOK(att', runs, line, epoch)
  BY <1>8 DEF WakeInv, AttemptOK
<1>10. PlacesOK(wakes', att', queue, joining, members, took, lost)
  BY <1>3, <1>4, <1>5, <1>8 DEF WakeInv, PlacesOK
<1>11. RevokedOK(revoked, wakes', att', queue, joining, members, epoch)
  BY <1>4, <1>5, <1>8 DEF WakeInv, RevokedOK
<1>12. faults' \in 0..MaxFaults
  BY <1>2, WakeAssumption DEF WakeInv, Refuses
<1>13. unlinked' \cup lost \subseteq DOMAIN wakes'
  BY <1>2, <1>3, <1>5 DEF S
<1> QED BY <1>1, <1>5, <1>6, <1>7, <1>9, <1>10, <1>11, <1>12, <1>13 DEF WakeInv

\* A crash within the begin hook of run r, which has reached the rows D and leaves gs: it
\* forgets the run of fg.
CutAt(D, r, rs, ln, tk, gs, fg) ==
    /\ D \in SUBSET (Moved \cup Loose) /\ CanBegin /\ Begins(r, rs, ln) /\ NewRun(r, rs, ln)
    /\ fg = unlinked \cup (({w \in Moved : wakes[w].run = att.pred} \cup Loose) \ D)
    /\ Boot(gs, rs, fg) /\ took' = tk /\ line' = ln
    /\ \A w \in DOMAIN wakes : tk[w] = IF w \in members THEN took[w] \cup {r} ELSE took[w]
    /\ WakesOK(gs, tk, rs, ln, lost \cup fg, epoch)
    /\ DOMAIN gs = DOMAIN wakes /\ Len(gs) = Len(wakes) /\ fg \subseteq DOMAIN wakes
    /\ \A w \in DOMAIN wakes :
          /\ w \notin D => gs[w] = wakes[w]
          /\ w \in D => wakes[w].state = "claimed" /\ Becomes(gs[w], "claimed", wakes[w].epoch, r)

LEMMA CutRows ==
  ASSUME WakeInv, CrashInBegin
  PROVE  \E D, r, rs, ln, tk, gs, fg : CutAt(D, r, rs, ln, tk, gs, fg)
<1> DEFINE r == Len(runs) + 1
           inherited == {w \in Moved : wakes[w].run = att.pred}
           tk == [w \in DOMAIN took |-> IF w \in members THEN took[w] \cup {r} ELSE took[w]]
<1>1. /\ CanBegin /\ att.phase = "setup" /\ took' = tk /\ line' = Append(line, att.line \cup {r}) /\ crashes' \in 0..MaxCrashes
      /\ att.epoch = epoch
  BY WakeAssumption DEF CrashInBegin, CanBegin, Authority, Dies, WakeInv
<1>2. PICK D \in SUBSET (Moved \cup Loose) :
        Boot(Given(wakes, D, r), Begun, unlinked \cup ((inherited \cup Loose) \ D))
  BY DEF CrashInBegin
<1> DEFINE gs == Given(wakes, D, r)
           fg == unlinked \cup ((inherited \cup Loose) \ D)
<1>18. PICK rs, ln : rs = Begun /\ ln = Append(line, att.line \cup {r})
  OBVIOUS
<1>19. NewRun(r, rs, ln)
  <2>1. Begins(r, rs, ln) /\ CanBegin /\ WakeInv
    BY <1>1, <1>18 DEF Begins
  <2> HIDE DEF r
  <2> QED BY ONLY <2>1, BegunRuns
<1>3. /\ RunsOK(rs, ln) /\ r \in DOMAIN rs /\ ln[r] = att.line \cup {r}
      /\ DOMAIN rs = DOMAIN runs \cup {r} /\ r \notin DOMAIN runs /\ r \in 1..MaxRuns
      /\ \A k \in DOMAIN runs : /\ ln[k] = line[k]
                                /\ runs[k].status = "completed" => rs[k].status = "completed"
  <2> HIDE DEF r
  <2> QED BY <1>19 DEF NewRun
<1>4. Boot(gs, rs, fg) /\ line' = ln
  BY <1>1, <1>2, <1>18
<1>5. /\ wakes \in Seq(Wake) /\ took \in Seq(SUBSET (1..MaxRuns)) /\ DOMAIN took = DOMAIN wakes
      /\ \A w \in DOMAIN wakes : took[w] \in SUBSET (1..MaxRuns)
      /\ \A w \in DOMAIN wakes : took[w] \subseteq DOMAIN runs
      /\ members \subseteq DOMAIN wakes /\ unlinked \subseteq DOMAIN wakes /\ lost \subseteq DOMAIN wakes
      /\ Loose \subseteq members /\ Moved \subseteq DOMAIN wakes
  BY SeqFacts DEF WakeInv, WakesOK, WakeOK, PlacesOK, Loose, Moved
<1>6. /\ DOMAIN tk = DOMAIN wakes
      /\ \A w \in DOMAIN wakes : tk[w] = IF w \in members THEN took[w] \cup {r} ELSE took[w]
  BY <1>5
<1>7. tk \in Seq(SUBSET (1..MaxRuns))
  <2> DEFINE T == SUBSET (1..MaxRuns)
  <2>1. tk \in [DOMAIN took -> T]
    BY <1>3, <1>5
  <2>2. took \in Seq(T)
    BY <1>5
  <2> HIDE DEF T, tk
  <2>3. tk \in Seq(T)
    BY <2>1, <2>2, MapIsSeq
  <2> QED BY <2>3 DEF T
<1> HIDE DEF tk
<1>8. \A w \in DOMAIN wakes : w \in (unlinked \cup lost) \cup (Loose \ D) => w \in lost \cup fg
  OBVIOUS
<1>9. fg \subseteq DOMAIN wakes
  BY <1>5
<1> HIDE DEF gs, fg, r, inherited
<1>10. ASSUME NEW w \in DOMAIN wakes
       PROVE  /\ gs[w] \in Wake /\ WakeOK(gs[w], tk[w], rs, ln, w \in lost \cup fg, epoch)
              /\ w \notin D => gs[w] = wakes[w]
              /\ w \in D => wakes[w].state = "claimed" /\ Becomes(gs[w], "claimed", wakes[w].epoch, r)
  <2> DEFINE f == w \in lost \cup fg
             t == tk[w]
  <2>1. w \in members <=> r \in t
    BY <1>3, <1>5, <1>6
  <2>2. took[w] \subseteq t /\ t \subseteq took[w] \cup {r} /\ (w \in D \cap Loose => r \in t)
    BY <1>5, <1>6
  <2>3. (w \in unlinked \cup lost => f) /\ (w \in Loose \ D => f)
    BY <1>8
  <2> HIDE DEF f, t
  <2>4. PICK new : new = gs[w]
    OBVIOUS
  <2>5. GivenTo(w, D, r, t, f, new)
    BY <2>1, <2>2, <2>3, <2>4 DEF GivenTo, gs
  <2>6. WakeInv /\ att.phase = "setup" /\ w \in DOMAIN wakes /\ D \in SUBSET (Moved \cup Loose)
    BY <1>1
  <2>7. GivenOK(w, D, r, rs, ln, t, f, new)
    BY ONLY <1>19, <2>5, <2>6, GivenRow
  <2> QED BY <2>4, <2>7 DEF f, t, GivenOK
<1>11. DOMAIN gs = DOMAIN wakes /\ gs \in Seq(Wake) /\ Len(gs) = Len(wakes)
  BY <1>10, GivenRows DEF gs
<1>12. WakesOK(gs, tk, rs, ln, lost \cup fg, epoch)
  BY <1>6, <1>7, <1>10, <1>11 DEF WakesOK
<1>13. fg = unlinked \cup (({w \in Moved : wakes[w].run = att.pred} \cup Loose) \ D)
  BY DEF fg, inherited
<1>14. Begins(r, rs, ln) /\ took' = tk
  BY <1>1, <1>18 DEF Begins, r, tk
<1>15. CutAt(D, r, rs, ln, tk, gs, fg)
  BY <1>1, <1>4, <1>6, <1>9, <1>10, <1>11, <1>12, <1>13, <1>14, <1>19 DEF CutAt
<1> QED BY <1>15

\* A crash within the begin hook: the wakes it did not reach are lost.
LEMMA CutBeginKeeps == ASSUME WakeInv, CrashInBegin PROVE WakeInv'
<1>1. PICK D, r, rs, ln, tk, gs, fg : CutAt(D, r, rs, ln, tk, gs, fg)
  BY CutRows
<1>2. crashes' \in 0..MaxCrashes
  BY WakeAssumption DEF CrashInBegin, Dies, WakeInv
<1>3. /\ RunsOK(rs, ln) /\ r \in DOMAIN rs /\ ln[r] = att.line \cup {r}
      /\ DOMAIN rs = DOMAIN runs \cup {r} /\ r \notin DOMAIN runs /\ r \in 1..MaxRuns
      /\ \A k \in DOMAIN runs : ln[k] = line[k]
  BY <1>1 DEF CutAt, NewRun
<1>4. Boot(gs, rs, fg) /\ took' = tk /\ line' = ln /\ att.phase = "setup"
  BY <1>1 DEF CutAt, CanBegin
<1>5. /\ wakes \in Seq(Wake) /\ \A w \in DOMAIN wakes : took[w] \subseteq DOMAIN runs
      /\ lost \subseteq DOMAIN wakes
  BY DEF WakeInv, WakesOK, WakeOK
<1>6. \A w \in DOMAIN wakes : tk[w] = IF w \in members THEN took[w] \cup {r} ELSE took[w]
  BY <1>1 DEF CutAt
<1>9. fg \subseteq DOMAIN wakes
  BY <1>1 DEF CutAt
<1>10. \A w \in DOMAIN wakes : /\ w \notin D => gs[w] = wakes[w]
                               /\ w \in D => /\ wakes[w].state = "claimed"
                                             /\ Becomes(gs[w], "claimed", wakes[w].epoch, r)
  BY <1>1 DEF CutAt
<1>11. DOMAIN gs = DOMAIN wakes /\ Len(gs) = Len(wakes)
  BY <1>1 DEF CutAt
<1>12. WakesOK(gs, tk, rs, ln, lost \cup fg, epoch)
  BY <1>1 DEF CutAt
<1>13. \A w \in DOMAIN wakes : gs[w].state = wakes[w].state
  BY <1>10 DEF Becomes
<1>14. ToldOK(gs, wakeOf, told)
  <2>1. ASSUME NEW e \in Events, wakeOf[e] # 0, gs[wakeOf[e]].state # "pending" PROVE e \in told
    <3>1. wakeOf[e] \in DOMAIN wakes
      <4>1. wakeOf[e] \in 1..Len(wakes)
        BY <2>1, SeqFacts, <1>5 DEF WakeInv, ToldOK
      <4> QED BY <1>5, <4>1, SeqFacts
    <3> QED BY <1>13, <2>1, <3>1 DEF WakeInv, ToldOK
  <2> QED BY <1>11, <2>1 DEF WakeInv, ToldOK
<1>15. TakenOnce(DOMAIN gs, tk, ln, lost \cup fg)
  <2> SUFFICES ASSUME NEW w \in DOMAIN wakes, w \notin lost, NEW a \in tk[w], NEW b \in tk[w]
               PROVE  a \in ln[b] \/ b \in ln[a]
    BY <1>11 DEF TakenOnce
  <2>1. took[w] \subseteq DOMAIN runs /\ \A c, d \in took[w] : c \in line[d] \/ d \in line[c]
    BY <1>5 DEF WakeInv, TakenOnce
  <2>2. CASE a \in took[w] /\ b \in took[w]
    BY <1>3, <2>1, <2>2
  <2>3. CASE a = r \/ b = r
    <3>1. w \in members
      BY <1>3, <1>6, <2>1, <2>3
    <3>2. took[w] \cup {r} \subseteq ln[r]
      BY <1>3, <3>1 DEF WakeInv, PlacesOK
    <3> QED BY <1>6, <2>3, <3>1, <3>2
  <2> QED BY <1>6, <2>2, <2>3
<1>16. RevokedOK(revoked, gs, Idle, {}, {}, {}, epoch)
  <2> SUFFICES ASSUME NEW w \in revoked
               PROVE  /\ w \in DOMAIN gs /\ gs[w].state # "pending"
                      /\ gs[w].state = "claimed" /\ gs[w].run = 0 => gs[w].epoch < epoch
    BY DEF RevokedOK
  <2>1. /\ w \in DOMAIN wakes /\ wakes[w].state # "pending"
        /\ wakes[w].state = "claimed" /\ wakes[w].run = 0 => wakes[w].epoch < epoch
    BY DEF WakeInv, RevokedOK
  <2>2. r # 0
    BY <1>3
  <2> QED BY <1>10, <1>11, <1>13, <2>1, <2>2 DEF Becomes
<1>17. lost \cup fg \subseteq DOMAIN gs
  BY <1>5, <1>9, <1>11
<1> QED BY <1>2, <1>3, <1>4, <1>12, <1>14, <1>15, <1>16, <1>17, BootKeeps

\* A crash among the closures of a death before the run: some rows are failed.
LEMMA CutDeathRows ==
  ASSUME WakeInv, CrashInDeath
  PROVE  \E D, fs : /\ D \in SUBSET Loose
                    /\ fs = [w \in DOMAIN wakes |-> IF w \in D THEN Fail(wakes[w]) ELSE wakes[w]]
                    /\ WakesOK(fs, took, runs, line, lost \cup unlinked, epoch)
                    /\ Boot(fs, runs, unlinked) /\ took' = took /\ line' = line
<1>1. PICK D \in SUBSET Loose :
        Boot([w \in DOMAIN wakes |-> IF w \in D THEN Fail(wakes[w]) ELSE wakes[w]], runs, unlinked)
  BY DEF CrashInDeath
<1>2. took' = took /\ line' = line
  BY DEF CrashInDeath
<1> DEFINE row(w) == IF w \in D THEN Fail(wakes[w]) ELSE wakes[w]
           fs == [w \in DOMAIN wakes |-> row(w)]
<1>3. wakes \in Seq(Wake) /\ \A w \in DOMAIN wakes : wakes[w] \in Wake
  BY SeqFacts DEF WakeInv, WakesOK
<1>4. ASSUME NEW w \in DOMAIN wakes
      PROVE  /\ row(w) \in Wake /\ WakeOK(row(w), took[w], runs, line, w \in lost \cup unlinked, epoch)
             /\ row(w).state = "pending" <=> wakes[w].state = "pending"
             /\ row(w).state = "claimed" => row(w) = wakes[w]
  <2>1. WakeOK(wakes[w], took[w], runs, line, w \in unlinked \cup lost, epoch)
    BY DEF WakeInv, WakesOK
  <2>2. CASE w \in D
    <3>1. wakes[w].state = "claimed" /\ wakes[w] \in Wake /\ row(w) = [wakes[w] EXCEPT !.state = "failed"]
      BY <1>3, <2>2 DEF Loose, Unowned, Open, Fail
    <3>2. row(w) \in Wake /\ Becomes(row(w), "failed", wakes[w].epoch, wakes[w].run)
      <4>1. "failed" \in WakeStates
        BY DEF WakeStates
      <4> QED BY <3>1, <4>1, StateRow
    <3> HIDE DEF row
    <3> QED BY <2>1, <3>1, <3>2 DEF WakeOK, Becomes
  <2>3. CASE w \notin D
    BY <1>3, <2>1, <2>3 DEF WakeOK
  <2> QED BY <2>2, <2>3
<1>5. Boot(fs, runs, unlinked)
  BY <1>1
<1>6. DOMAIN fs = DOMAIN wakes /\ fs \in Seq(Wake) /\ Len(fs) = Len(wakes) /\ \A w \in DOMAIN wakes : fs[w] = row(w)
  <2>1. fs \in [DOMAIN wakes -> Wake]
    BY <1>4
  <2> HIDE DEF fs
  <2>2. DOMAIN fs = DOMAIN wakes /\ fs \in Seq(Wake) /\ Len(fs) = Len(wakes)
    BY <1>3, <2>1, MapIsSeq
  <2> QED BY <2>2 DEF fs
<1> HIDE DEF fs, row
<1>7. WakesOK(fs, took, runs, line, lost \cup unlinked, epoch)
  BY <1>4, <1>6 DEF WakesOK, WakeInv
<1>8. fs = [w \in DOMAIN wakes |-> IF w \in D THEN Fail(wakes[w]) ELSE wakes[w]]
  BY DEF fs, row
<1> QED BY <1>2, <1>5, <1>7, <1>8

LEMMA CutDeathKeeps == ASSUME WakeInv, CrashInDeath PROVE WakeInv'
<1>1. PICK D, fs : /\ D \in SUBSET Loose
                   /\ fs = [w \in DOMAIN wakes |-> IF w \in D THEN Fail(wakes[w]) ELSE wakes[w]]
                   /\ WakesOK(fs, took, runs, line, lost \cup unlinked, epoch)
                   /\ Boot(fs, runs, unlinked) /\ took' = took /\ line' = line
  BY CutDeathRows
<1>2. crashes' \in 0..MaxCrashes
  BY WakeAssumption DEF CrashInDeath, Dies, WakeInv
<1>3. wakes \in Seq(Wake) /\ \A w \in DOMAIN wakes : wakes[w] \in Wake
  BY SeqFacts DEF WakeInv, WakesOK
<1>4. ASSUME NEW w \in DOMAIN wakes
      PROVE  /\ fs[w].state = "pending" <=> wakes[w].state = "pending"
             /\ fs[w].state = "claimed" => fs[w] = wakes[w]
  <2>1. CASE w \in D
    <3>1. wakes[w].state = "claimed" /\ fs[w] = [wakes[w] EXCEPT !.state = "failed"]
      BY <1>1, <2>1 DEF Loose, Unowned, Open, Fail
    <3> QED BY <1>3, <3>1 DEF Wake
  <2>2. CASE w \notin D
    BY <1>1, <2>2
  <2> QED BY <2>1, <2>2
<1>6. DOMAIN fs = DOMAIN wakes /\ Len(fs) = Len(wakes)
  <2>1. DOMAIN fs = DOMAIN wakes /\ fs \in Seq(Wake)
    BY <1>1 DEF WakesOK
  <2> QED BY <1>3, <2>1, LenProperties
<1>8. ToldOK(fs, wakeOf, told)
  <2>1. ASSUME NEW e \in Events, wakeOf[e] # 0, fs[wakeOf[e]].state # "pending" PROVE e \in told
    <3>1. wakeOf[e] \in DOMAIN wakes
      <4>1. wakeOf[e] \in 1..Len(wakes)
        BY <2>1, SeqFacts, <1>3 DEF WakeInv, ToldOK
      <4> QED BY <1>3, <4>1, SeqFacts
    <3> QED BY <1>4, <1>6, <2>1, <3>1 DEF WakeInv, ToldOK
  <2> QED BY <1>6, <2>1 DEF WakeInv, ToldOK
<1>9. TakenOnce(DOMAIN fs, took, line, lost \cup unlinked)
  BY <1>6 DEF TakenOnce, WakeInv
<1>10. RevokedOK(revoked, fs, Idle, {}, {}, {}, epoch)
  BY <1>4, <1>6 DEF WakeInv, RevokedOK
<1>11. lost \cup unlinked \subseteq DOMAIN fs /\ RunsOK(runs, line)
  BY <1>6 DEF WakeInv
<1> QED BY <1>1, <1>2, <1>8, <1>9, <1>10, <1>11, BootKeeps

\* The backoff of a wake is no part of what its row says.
LEMMA GateKeeps == ASSUME WakeInv, GateOpens PROVE WakeInv'
<1> DEFINE row(w) == [wakes[w] EXCEPT !.gated = FALSE]
<1>1. /\ wakes' = [w \in DOMAIN wakes |-> row(w)]
      /\ UNCHANGED <<wakeOf, runs, epoch, queue, joining, members, att, unlinked, closed>>
      /\ UNCHANGED <<faults, crashes, told, took, line, revoked, lost>>
  BY DEF GateOpens, lane, budget, history
<1>2. \A w \in DOMAIN wakes : wakes[w] \in Wake
  BY SeqFacts DEF WakeInv, WakesOK
<1>3. \A w \in DOMAIN wakes : /\ row(w) \in Wake
                              /\ Becomes(row(w), wakes[w].state, wakes[w].epoch, wakes[w].run)
  BY <1>2, GatedRow
<1> HIDE DEF row
<1>4. /\ DOMAIN wakes' = DOMAIN wakes /\ \A w \in DOMAIN wakes : wakes'[w] = row(w)
      /\ wakes' \in Seq(Wake) /\ Len(wakes') = Len(wakes)
  <2>1. wakes' \in [DOMAIN wakes -> Wake]
    BY <1>1, <1>3
  <2>2. wakes \in Seq(Wake)
    BY DEF WakeInv, WakesOK
  <2> QED BY <1>1, <2>1, <2>2, MapIsSeq
<1>5. \A w \in DOMAIN wakes : /\ wakes'[w].state = wakes[w].state /\ wakes'[w].epoch = wakes[w].epoch
                              /\ wakes'[w].run = wakes[w].run
  BY <1>3, <1>4 DEF Becomes
<1>6. WakesOK(wakes', took, runs, line, unlinked \cup lost, epoch)
  BY <1>4, <1>5 DEF WakeInv, WakesOK, WakeOK
<1>7. ToldOK(wakes', wakeOf, told)
  <2>1. ASSUME NEW e \in Events, wakeOf[e] # 0, wakes'[wakeOf[e]].state # "pending" PROVE e \in told
    <3>1. wakeOf[e] \in DOMAIN wakes
      <4>1. wakeOf[e] \in 1..Len(wakes) /\ wakes \in Seq(Wake)
        BY <2>1, SeqFacts DEF WakeInv, ToldOK, WakesOK
      <4> QED BY <4>1, SeqFacts
    <3> QED BY <1>5, <2>1, <3>1 DEF WakeInv, ToldOK
  <2> QED BY <1>4, <2>1 DEF WakeInv, ToldOK
<1>8. PlacesOK(wakes', att, queue, joining, members, took, lost)
  BY <1>4, <1>5 DEF WakeInv, PlacesOK
<1>9. RevokedOK(revoked, wakes', att, queue, joining, members, epoch)
  BY <1>4, <1>5 DEF WakeInv, RevokedOK
<1> QED BY <1>1, <1>4, <1>6, <1>7, <1>8, <1>9 DEF WakeInv

-----------------------------------------------------------------------------
(* The steps that move wakes between the places of the lane, or revoke authority. *)

LEMMA LaneMoves ==
  ASSUME WakeInv, UNCHANGED <<wakes, wakeOf, runs, took, told, line, lost, unlinked, faults, crashes>>,
         epoch' \in {epoch, epoch + 1}, epoch' \in 1..MaxEpoch, closed' \in BOOLEAN,
         AttemptOK(att', runs, line, epoch'),
         PlacesOK(wakes, att', queue', joining', members', took, lost),
         RevokedOK(revoked', wakes, att', queue', joining', members', epoch')
  PROVE  WakeInv'
<1>1. epoch \in Nat /\ epoch <= epoch'
  BY DEF WakeInv
<1>2. ASSUME NEW w \in DOMAIN wakes
      PROVE  WakeOK(wakes[w], took[w], runs, line, w \in unlinked \cup lost, epoch')
  <2>1. WakeOK(wakes[w], took[w], runs, line, w \in unlinked \cup lost, epoch)
    BY DEF WakeInv, WakesOK
  <2>2. wakes[w] \in Wake
    BY SeqFacts DEF WakeInv, WakesOK
  <2>3. wakes[w].epoch \in Nat
    BY <2>2, RowTypes
  <2>4. CASE epoch' = epoch
    BY <2>1, <2>4
  <2>5. CASE epoch' = epoch + 1
    <3>1. wakes[w].epoch <= epoch' /\ wakes[w].epoch # epoch'
      BY <1>1, <2>1, <2>3, <2>5 DEF WakeOK
    <3> QED BY <2>1, <3>1 DEF WakeOK
  <2> QED BY <2>4, <2>5
<1>3. WakesOK(wakes, took, runs, line, unlinked \cup lost, epoch')
  BY <1>2 DEF WakeInv, WakesOK
<1> QED BY <1>3 DEF WakeInv

LEMMA TurnKeeps == ASSUME WakeInv, ClaimQueue \/ OperatorTurn PROVE WakeInv'
<1>1. PICK S \in SUBSET queue : StartTurn(S)
  BY DEF ClaimQueue, OperatorTurn
<1>2. /\ att.phase = "idle" /\ members' = S /\ queue' = queue \ S /\ att' = FreshTurn
      /\ UNCHANGED <<wakeOf, wakes, runs, epoch, joining, unlinked, closed, faults, crashes>>
      /\ UNCHANGED <<told, took, line, revoked, lost>>
  BY <1>1 DEF StartTurn, rows, budget, history
<1>3. epoch \in 1..MaxEpoch /\ epoch \in Nat /\ closed \in BOOLEAN
  BY DEF WakeInv
<1>4. AttemptOK(att', runs, line, epoch) /\ att'.phase = "setup" /\ att'.epoch = epoch /\ att'.line = {}
  BY <1>2, <1>3, TurnTypes
<1>5. PlacesOK(wakes, att', queue', joining, members', took, lost)
  BY <1>1, <1>2, <1>4 DEF WakeInv, PlacesOK
<1>6. RevokedOK(revoked, wakes, att', queue', joining, members', epoch)
  BY <1>1, <1>2 DEF WakeInv, RevokedOK, PlacesOK
<1> QED BY <1>2, <1>3, <1>4, <1>5, <1>6, LaneMoves

LEMMA SteersKeep == ASSUME WakeInv, ClaimSteers PROVE WakeInv'
<1>1. PICK S \in SUBSET queue : joining' = S /\ queue' = queue \ S
  BY DEF ClaimSteers
<1>2. /\ att.phase = "running" /\ joining = {}
      /\ UNCHANGED <<wakeOf, wakes, runs, epoch, members, att, unlinked, closed, faults, crashes>>
      /\ UNCHANGED <<told, took, line, revoked, lost>>
  BY DEF ClaimSteers, rows, budget, history
<1>3. epoch \in 1..MaxEpoch /\ closed \in BOOLEAN /\ AttemptOK(att, runs, line, epoch)
  BY DEF WakeInv
<1>4. PlacesOK(wakes, att, queue', joining', members, took, lost)
  BY <1>1, <1>2 DEF WakeInv, PlacesOK
<1>5. RevokedOK(revoked, wakes, att, queue', joining', members, epoch)
  BY <1>1, <1>2 DEF WakeInv, RevokedOK
<1> QED BY <1>1, <1>2, <1>3, <1>4, <1>5, LaneMoves

\* The attempt's own steps leave its line, its authority and its source alone.
LEMMA AttemptKeeps ==
  ASSUME WakeInv, Land \/ TurnOver \/ FallBackBeforeRun \/ NextAttempt PROVE WakeInv'
<1>1. /\ UNCHANGED <<wakeOf, wakes, runs, epoch, joining, unlinked, closed, faults, crashes>>
      /\ UNCHANGED <<told, took, line, revoked, lost>>
  BY DEF Land, TurnOver, FallBackBeforeRun, NextAttempt, rows, budget, history
<1>2. /\ epoch \in 1..MaxEpoch /\ epoch \in Nat /\ closed \in BOOLEAN
      /\ AttemptOK(att, runs, line, epoch) /\ att \in Attempt
  BY DEF WakeInv, AttemptOK
<1>3. CASE Land
  <2>1. /\ att.phase = "running" /\ joining = {} /\ members' = {} /\ UNCHANGED queue
        /\ att' = [att EXCEPT !.phase = "landed"]
    BY <1>3 DEF Land
  <2>2. /\ att' \in Attempt /\ att'.phase = "landed" /\ att'.epoch = att.epoch /\ att'.line = att.line
        /\ att'.run = att.run /\ att'.pred = att.pred /\ att'.src = att.src
    BY <1>2, <2>1 DEF Attempt
  <2>3. AttemptOK(att', runs, line, epoch)
    BY <1>2, <2>1, <2>2 DEF AttemptOK
  <2>4. PlacesOK(wakes, att', queue', joining, members', took, lost)
    BY <2>1, <2>2 DEF WakeInv, PlacesOK
  <2>5. RevokedOK(revoked, wakes, att', queue', joining, members', epoch)
    BY <2>1, <2>2 DEF WakeInv, RevokedOK
  <2> QED BY <1>1, <1>2, <2>3, <2>4, <2>5, LaneMoves
<1>4. CASE TurnOver
  <2>1. att.phase = "over" /\ att' = Idle /\ members' = {} /\ UNCHANGED queue
    BY <1>4 DEF TurnOver
  <2>2. AttemptOK(att', runs, line, epoch) /\ att'.phase = "idle"
    BY <1>2, <2>1, TurnTypes
  <2>3. PlacesOK(wakes, att', queue', joining, members', took, lost)
    BY <2>1, <2>2 DEF WakeInv, PlacesOK
  <2>4. RevokedOK(revoked, wakes, att', queue', joining, members', epoch)
    BY <2>1 DEF WakeInv, RevokedOK, PlacesOK
  <2> QED BY <1>1, <1>2, <2>2, <2>3, <2>4, LaneMoves
<1>5. CASE FallBackBeforeRun
  <2>1. att.phase = "setup" /\ att' = NextModel /\ UNCHANGED <<queue, members>>
    BY <1>5 DEF FallBackBeforeRun
  <2>2. /\ att' \in Attempt /\ att'.phase = "between" /\ att'.epoch = att.epoch /\ att'.line = att.line
        /\ att'.run = att.run /\ att'.pred = att.pred /\ att'.src = att.src
    <3>1. att.misses + 1 \in Nat
      BY <1>2 DEF Attempt
    <3> QED BY <1>2, <2>1, <3>1 DEF NextModel, Attempt
  <2>3. AttemptOK(att', runs, line, epoch)
    BY <1>2, <2>2 DEF AttemptOK
  <2>4. PlacesOK(wakes, att', queue', joining, members', took, lost)
    BY <2>1, <2>2 DEF WakeInv, PlacesOK
  <2>5. RevokedOK(revoked, wakes, att', queue', joining, members', epoch)
    BY <2>1, <2>2 DEF WakeInv, RevokedOK
  <2> QED BY <1>1, <1>2, <2>3, <2>4, <2>5, LaneMoves
<1>6. CASE NextAttempt
  <2>1. PICK S \in SUBSET queue : members' = members \cup S /\ queue' = queue \ S
    BY <1>6 DEF NextAttempt
  <2>2. att.phase = "between" /\ att' = [att EXCEPT !.phase = "setup", !.pred = att.run, !.run = 0]
    BY <1>6 DEF NextAttempt
  <2>3. /\ att' \in Attempt /\ att'.phase = "setup" /\ att'.epoch = att.epoch /\ att'.line = att.line
        /\ att'.run = 0 /\ att'.pred = att.run /\ att'.src = att.src
    <3>1. 0 \in 0..MaxRuns /\ att.run \in 0..MaxRuns
      BY <1>2, WakeAssumption DEF Attempt
    <3> QED BY <1>2, <2>2, <3>1 DEF Attempt
  <2>4. AttemptOK(att', runs, line, epoch)
    BY <1>2, <2>3 DEF AttemptOK
  <2>5. joining = {}
    BY <2>2 DEF WakeInv, PlacesOK
  <2>6. PlacesOK(wakes, att', queue', joining, members', took, lost)
    BY <2>1, <2>3, <2>5 DEF WakeInv, PlacesOK
  <2>7. RevokedOK(revoked, wakes, att', queue', joining, members', epoch)
    BY <2>1, <2>3, <2>5 DEF WakeInv, RevokedOK
  <2> QED BY <1>1, <1>2, <2>4, <2>6, <2>7, LaneMoves
<1> QED BY <1>3, <1>4, <1>5, <1>6

\* A stop leaves nothing in the queue, and what it revokes was claimed under the
\* authority it ends.
LEMMA StopKeeps == ASSUME WakeInv, StopLane, closed' \in BOOLEAN PROVE WakeInv'
<1> DEFINE unowned == {w \in DOMAIN wakes : Unowned(wakes, w)}
<1>1. /\ epoch < MaxEpoch /\ epoch' = epoch + 1 /\ queue' = {} /\ revoked' = revoked \cup unowned
      /\ UNCHANGED <<wakeOf, wakes, runs, joining, members, att, unlinked, faults, crashes>>
      /\ UNCHANGED <<told, took, line, lost>>
  BY DEF StopLane, budget
<1>2. /\ epoch \in Nat /\ epoch' \in Nat /\ epoch' \in 1..MaxEpoch /\ att \in Attempt /\ att.epoch \in Nat
      /\ att.epoch < epoch'
  BY <1>1, WakeAssumption DEF WakeInv, AttemptOK, Attempt
<1>3. AttemptOK(att, runs, line, epoch')
  BY <1>2 DEF WakeInv, AttemptOK
<1>4. PlacesOK(wakes, att, {}, joining, members, took, lost)
  BY DEF WakeInv, PlacesOK
<1>5. \A w \in unowned : w \in DOMAIN wakes /\ wakes[w].state = "claimed" /\ wakes[w].epoch < epoch'
  <2> SUFFICES ASSUME NEW w \in unowned
               PROVE  w \in DOMAIN wakes /\ wakes[w].state = "claimed" /\ wakes[w].epoch < epoch'
    OBVIOUS
  <2>1. w \in DOMAIN wakes /\ wakes[w].state = "claimed"
    BY DEF Unowned, Open
  <2>2. wakes[w] \in Wake /\ wakes[w].epoch <= epoch
    BY <2>1, SeqFacts DEF WakeInv, WakesOK, WakeOK
  <2>3. wakes[w].epoch \in Nat
    BY <2>2, RowTypes
  <2> QED BY <1>1, <1>2, <2>1, <2>2, <2>3
<1>6. ASSUME NEW w \in revoked
      PROVE  /\ w \in DOMAIN wakes /\ wakes[w].state # "pending"
             /\ wakes[w].state = "claimed" /\ wakes[w].run = 0 => wakes[w].epoch < epoch'
  <2>1. /\ w \in DOMAIN wakes /\ wakes[w].state # "pending"
        /\ wakes[w].state = "claimed" /\ wakes[w].run = 0 => wakes[w].epoch < epoch
    BY DEF WakeInv, RevokedOK
  <2>2. wakes[w].epoch \in Nat
    <3>1. wakes[w] \in Wake
      BY <2>1, SeqFacts DEF WakeInv, WakesOK
    <3> QED BY <3>1, RowTypes
  <2> QED BY <1>1, <1>2, <2>1, <2>2
<1> HIDE DEF unowned
<1>7. RevokedOK(revoked', wakes, att, {}, joining, members, epoch')
  BY <1>1, <1>2, <1>5, <1>6 DEF RevokedOK
<1> QED BY <1>1, <1>2, <1>3, <1>4, <1>7, LaneMoves

LEMMA SettingsKeep == ASSUME WakeInv, ApplySettings PROVE WakeInv'
<1>1. /\ epoch < MaxEpoch /\ epoch' = epoch + 1
      /\ UNCHANGED <<wakeOf, wakes, runs, queue, joining, members, att, unlinked, closed, faults, crashes>>
      /\ UNCHANGED <<told, took, line, revoked, lost>>
  BY DEF ApplySettings, lane, budget, history
<1>2. epoch \in Nat /\ epoch' \in 1..MaxEpoch /\ closed \in BOOLEAN /\ att.epoch \in Nat
  BY <1>1, WakeAssumption DEF WakeInv, AttemptOK, Attempt
<1>3. AttemptOK(att, runs, line, epoch')
  BY <1>1, <1>2 DEF WakeInv, AttemptOK
<1>4. ASSUME NEW w \in revoked
      PROVE  /\ w \in DOMAIN wakes /\ wakes[w].state # "pending" /\ w \notin queue
             /\ w \in joining \cup members => att.epoch < epoch'
             /\ wakes[w].state = "claimed" /\ wakes[w].run = 0 => wakes[w].epoch < epoch'
  <2>1. /\ w \in DOMAIN wakes /\ wakes[w].state # "pending" /\ w \notin queue
        /\ w \in joining \cup members => att.epoch < epoch
        /\ wakes[w].state = "claimed" /\ wakes[w].run = 0 => wakes[w].epoch < epoch
    BY DEF WakeInv, RevokedOK
  <2>2. wakes[w].epoch \in Nat
    <3>1. wakes[w] \in Wake
      BY <2>1, SeqFacts DEF WakeInv, WakesOK
    <3> QED BY <3>1, RowTypes
  <2> QED BY <1>1, <1>2, <2>1, <2>2
<1>5. RevokedOK(revoked, wakes, att, queue, joining, members, epoch')
  BY <1>4 DEF RevokedOK
<1>6. PlacesOK(wakes, att, queue, joining, members, took, lost)
  BY DEF WakeInv
<1> QED BY <1>1, <1>2, <1>3, <1>5, <1>6, LaneMoves

\* A resumed run hands its line to the attempt that continues it.
LEMMA ResumeKeeps == ASSUME WakeInv, NEW r \in DOMAIN runs, Resume(r) PROVE WakeInv'
<1>1. /\ runs[r].status = "interrupted" /\ att.phase = "idle" /\ queue = {}
      /\ att' = [FreshTurn EXCEPT !.src = r, !.line = line[r]]
      /\ UNCHANGED <<wakeOf, wakes, runs, epoch, queue, joining, members, unlinked, closed, faults, crashes>>
      /\ UNCHANGED <<told, took, line, revoked, lost>>
  BY DEF Resume, Busy, rows, budget, history
<1>2. /\ epoch \in 1..MaxEpoch /\ epoch \in Nat /\ closed \in BOOLEAN
      /\ FreshTurn \in Attempt /\ FreshTurn.phase = "setup" /\ FreshTurn.epoch = epoch
      /\ FreshTurn.run = 0 /\ FreshTurn.pred = 0
  BY TurnTypes DEF WakeInv
<1>3. /\ line[r] \subseteq DOMAIN runs /\ line[r] \in SUBSET (1..MaxRuns) /\ r \in 0..MaxRuns
  BY DEF WakeInv, RunsOK
<1>4. /\ att' \in Attempt /\ att'.phase = "setup" /\ att'.epoch = epoch /\ att'.line = line[r]
      /\ att'.run = 0 /\ att'.pred = 0 /\ att'.src = r
  BY <1>1, <1>2, <1>3 DEF Attempt
<1>5. AttemptOK(att', runs, line, epoch)
  BY <1>1, <1>2, <1>3, <1>4 DEF AttemptOK
<1>6. members = {} /\ joining = {}
  BY <1>1 DEF WakeInv, PlacesOK
<1>7. PlacesOK(wakes, att', queue, joining, members, took, lost)
  BY <1>1, <1>6 DEF PlacesOK
<1>8. RevokedOK(revoked, wakes, att', queue, joining, members, epoch)
  BY <1>6 DEF WakeInv, RevokedOK
<1> QED BY <1>1, <1>2, <1>5, <1>7, <1>8, LaneMoves

LEMMA AbandonKeeps == ASSUME WakeInv, NEW r \in DOMAIN runs, Abandon(r) PROVE WakeInv'
<1> DEFINE row == [runs[r] EXCEPT !.status = "abandoned"]
<1>1. /\ runs[r].status = "interrupted" /\ att.src # r
      /\ runs' = [runs EXCEPT ![r] = row]
      /\ UNCHANGED <<wakeOf, wakes, epoch, queue, joining, members, att, unlinked, closed, faults, crashes>>
      /\ UNCHANGED <<told, took, line, revoked, lost>>
  BY DEF Abandon, lane, budget, history
<1>2. runs \in Seq(Run) /\ runs[r] \in Run
  BY SeqFacts DEF WakeInv, RunsOK
<1>3. row \in Run /\ row.status = "abandoned" /\ row.from = runs[r].from
  <2>1. "abandoned" \in RunStatus
    BY DEF RunStatus
  <2> QED BY <1>2, <2>1 DEF Run
<1> HIDE DEF row
<1>4. /\ runs' \in Seq(Run) /\ DOMAIN runs' = DOMAIN runs /\ runs'[r] = row
      /\ \A k \in DOMAIN runs : k # r => runs'[k] = runs[k]
  BY <1>1, <1>2, <1>3, RowRewritten
<1>5. /\ RunsOK(runs', line)
      /\ WakesOK(wakes, took, runs', line, unlinked \cup lost, epoch)
  BY <1>1, <1>3, <1>4, Restamped DEF WakeInv
<1>6. AttemptOK(att, runs', line, epoch)
  BY <1>1, <1>4 DEF WakeInv, AttemptOK
<1> QED BY <1>1, <1>5, <1>6 DEF WakeInv

-----------------------------------------------------------------------------
(* The invariant holds, and what it shows. *)

LEMMA InitWake == Init => WakeInv
<1> SUFFICES ASSUME Init PROVE WakeInv
  OBVIOUS
<1>1. /\ wakeOf = [e \in Events |-> 0] /\ wakes = <<>> /\ runs = <<>> /\ epoch = 1
      /\ queue = {} /\ joining = {} /\ members = {} /\ att = Idle
      /\ unlinked = {} /\ closed = FALSE /\ faults = 0 /\ crashes = 0
      /\ told = {} /\ took = <<>> /\ line = <<>> /\ revoked = {} /\ lost = {}
  BY DEF Init
<1>2. /\ wakes \in Seq(Wake) /\ runs \in Seq(Run) /\ took \in Seq(SUBSET (1..MaxRuns))
      /\ line \in Seq(SUBSET (1..MaxRuns))
      /\ DOMAIN wakes = {} /\ DOMAIN runs = {} /\ DOMAIN took = {} /\ DOMAIN line = {} /\ Len(wakes) = 0
  BY <1>1
<1>3. epoch \in 1..MaxEpoch /\ faults \in 0..MaxFaults /\ crashes \in 0..MaxCrashes
  BY <1>1, WakeAssumption
<1>4. RunsOK(runs, line) /\ WakesOK(wakes, took, runs, line, unlinked \cup lost, epoch)
  BY <1>2 DEF RunsOK, WakesOK
<1>5. ToldOK(wakes, wakeOf, told)
  BY <1>1, <1>2 DEF ToldOK
<1>6. AttemptOK(att, runs, line, epoch) /\ att.phase = "idle"
  BY <1>1, <1>3, TurnTypes
<1>7. PlacesOK(wakes, att, queue, joining, members, took, lost)
  BY <1>1 DEF PlacesOK
<1> QED BY <1>1, <1>2, <1>3, <1>4, <1>5, <1>6, <1>7 DEF WakeInv, TakenOnce, RevokedOK

LEMMA NextWake == ASSUME WakeInv, [Next]_vars PROVE WakeInv'
<1>1. CASE \E D \in (SUBSET Events) \ {{}} : Record(D)
  BY <1>1, RecordKeeps
<1>2. CASE Ticker \/ GateOpens
  BY <1>2, TickerKeeps, GateKeeps
<1>3. CASE LaneStep
  BY <1>3, TurnKeeps, BeginKeeps, SteersKeep, JoinKeeps, AttemptKeeps, CompletionKeeps, DeathKeeps
  DEF LaneStep
<1>4. CASE Operator
  <2>1. CASE Stop
    <3>1. StopLane /\ closed' \in BOOLEAN
      BY <2>1 DEF Stop, WakeInv
    <3> QED BY <3>1, StopKeeps
  <2> QED BY <1>4, <2>1, TurnKeeps, SettingsKeep, ResumeKeeps, AbandonKeeps DEF Operator
<1>5. CASE Shutdown
  <2>1. closed' \in BOOLEAN
    BY <1>5 DEF Shutdown
  <2>2. CASE Busy
    BY <1>5, <2>1, <2>2, StopKeeps DEF Shutdown
  <2>3. CASE ~Busy
    BY <1>5, <2>1, <2>3 DEF Shutdown, WakeInv, rows, lane, budget, history
  <2> QED BY <2>2, <2>3
<1>6. CASE Restart \/ Crash \/ CrashInHook
  BY <1>6, CrashKeeps, CutBeginKeeps, CutDeathKeeps DEF CrashInHook
<1>7. CASE UNCHANGED vars
  BY <1>7 DEF vars, rows, lane, budget, history, WakeInv
<1> QED BY <1>1, <1>2, <1>3, <1>4, <1>5, <1>6, <1>7 DEF Next, Process

LEMMA WakeHolds == Spec => []WakeInv
  BY InitWake, NextWake, PTL DEF Spec

\* Nothing the store, the dispatcher or the lane does takes a row, a place or a history
\* out of its type: a wake is linked to a run that exists, and what the process keeps in
\* memory names rows that exist (wake-store.ts, wake-dispatcher.ts).
THEOREM WakeTypeCorrect == Spec => []TypeOK
<1>1. ASSUME WakeInv PROVE TypeOK
  <2>1. /\ wakes \in Seq(Wake) /\ runs \in Seq(Run) /\ took \in Seq(SUBSET (1..MaxRuns))
        /\ line \in Seq(SUBSET (1..MaxRuns)) /\ DOMAIN took = DOMAIN wakes /\ DOMAIN line = DOMAIN runs
        /\ \A w \in DOMAIN wakes : wakes[w].run \in {0} \cup DOMAIN runs
    BY <1>1 DEF WakeInv, RunsOK, WakesOK, WakeOK
  <2>2. queue \cup joining \cup members \cup unlinked \cup revoked \cup lost \subseteq DOMAIN wakes
    BY <1>1 DEF WakeInv, PlacesOK, RevokedOK
  <2>3. wakeOf \in [Events -> 0..Len(wakes)] /\ told \subseteq Events
    BY <1>1 DEF WakeInv, ToldOK
  <2>4. att \in Attempt
    BY <1>1 DEF WakeInv, AttemptOK
  <2> QED BY <1>1, <2>1, <2>2, <2>3, <2>4 DEF WakeInv, TypeOK
<1> QED BY <1>1, WakeHolds, PTL

\* The runs that took a trigger as input lie on one chain of hand-offs and resumes: the
\* ownership link, its retarget at a hand-off and the fence of a refused link keep a
\* second turn off it, whatever is refused, stopped or restarted (beginRun's hook,
\* retargetRun, linkRun, failUnlinked).
THEOREM WakeProcessedOnce == Spec => []ProcessedOnce
<1>1. WakeInv => ProcessedOnce
  BY DEF WakeInv, TakenOnce, ProcessedOnce
<1> QED BY <1>1, WakeHolds, PTL

\* The store's books: besides, a development is told in the trigger of its wake, and a
\* wake is booked settled only when a run that continues one which had its trigger has
\* completed (reconcile, qPendingWake, settle).
THEOREM WakesAccounted == Spec => []Accounted
<1>1. ASSUME WakeInv PROVE NothingUntold
  BY <1>1 DEF WakeInv, ToldOK, NothingUntold
<1>2. ASSUME WakeInv PROVE SettledWasAnswered
  <2> SUFFICES ASSUME NEW w \in DOMAIN wakes, wakes[w].state = "settled" PROVE Answered(w)
    BY DEF SettledWasAnswered
  <2>1. WakeOK(wakes[w], took[w], runs, line, w \in unlinked \cup lost, epoch)
    BY <1>2 DEF WakeInv, WakesOK
  <2> QED BY <2>1 DEF WakeOK, Answered
<1> QED BY <1>1, <1>2, WakeHolds, WakeTypeCorrect, WakeProcessedOnce, PTL DEF Accounted

\* What waited unowned when the operator stopped the conversation is taken by no run
\* afterwards: its claim is of an older authority, which reconcile fails instead of
\* submitting, and beginRun and the join of steers check the attempt's own (runtime.ts).
THEOREM WakeStopRevokes == Spec => StopRevokes
<1>1. ASSUME WakeInv, [Next]_vars, NEW w \in revoked PROVE took'[w] = took[w]
  <2>1. /\ w \in DOMAIN wakes /\ DOMAIN took = DOMAIN wakes /\ took \in Seq(SUBSET (1..MaxRuns))
    BY <1>1 DEF WakeInv, RevokedOK, WakesOK
  <2>2. ASSUME Authority PROVE w \notin joining \cup members
    <3>1. epoch \in Nat /\ att.epoch = epoch
      BY <1>1, <2>2 DEF WakeInv, Authority
    <3> QED BY <1>1, <3>1 DEF WakeInv, RevokedOK
  <2>3. ASSUME NEW D \in SUBSET Events, Record(D) PROVE took'[w] = took[w]
    <3>1. took' = Append(took, {}) \/ took' = took
      BY <2>3 DEF Record
    <3> DEFINE T == SUBSET (1..MaxRuns)
    <3>2. took \in Seq(T) /\ {} \in T
      BY <2>1
    <3> HIDE DEF T
    <3>3. \A k \in DOMAIN took : Append(took, {})[k] = took[k]
      BY <3>2, AppendFacts
    <3> QED BY <2>1, <3>1, <3>3
  <2>4. CASE Begin \/ CrashInBegin
    <3>1. Authority /\ \E r : took' = [v \in DOMAIN took |-> IF v \in members THEN took[v] \cup {r} ELSE took[v]]
      BY <2>4, Zenon DEF Begin, LinkEvents, CrashInBegin, CanBegin
    <3>2. PICK r : took' = [v \in DOMAIN took |-> IF v \in members THEN took[v] \cup {r} ELSE took[v]]
      BY <3>1
    <3>3. w \in DOMAIN took /\ w \notin members
      BY <2>1, <2>2, <3>1
    <3> QED BY ONLY <3>2, <3>3
  <2>5. CASE JoinSteers
    <3>1. \/ took' = took
          \/ /\ Authority
             /\ took' = [v \in DOMAIN took |-> IF v \in joining THEN took[v] \cup {att.run} ELSE took[v]]
      BY <2>5 DEF JoinSteers, LinkEvents
    <3> QED BY <2>1, <2>2, <3>1
  <2>6. CASE /\ Next /\ ~Begin /\ ~CrashInBegin /\ ~JoinSteers /\ \A D \in SUBSET Events : ~Record(D)
    BY <2>6 DEF Next, LaneStep, Operator, Process, Ticker, GateOpens, ClaimQueue, StartTurn, ClaimSteers,
       Land, Complete, Die, Stamp, DieBeforeRun, TurnOver, FallBackBeforeRun, HandOff, NextAttempt,
       OperatorTurn, Stop, StopLane, ApplySettings, Resume, Abandon, Shutdown, Restart, Crash, CrashInHook,
       CrashInDeath, history
  <2>7. CASE UNCHANGED vars
    BY <2>7 DEF vars, history
  <2> QED BY <1>1, <2>3, <2>4, <2>5, <2>6, <2>7
<1>2. WakeInv /\ [Next]_vars => \A w \in revoked : took'[w] = took[w]
  BY <1>1
<1>3. WakeInv /\ [Next]_vars => [\A w \in revoked : took'[w] = took[w]]_vars
  BY <1>2
<1> QED BY <1>3, WakeHolds, PTL DEF Spec, StopRevokes

-----------------------------------------------------------------------------
(* The run decides.  Where writes succeed, settings stay, and an attempt's      *)
(* messages are handed over at most once, a wake is not booked failed while any *)
(* run that continues one which had its trigger may still complete, unless a    *)
(* crash within a hook left no row that names that run.                         *)

\* One hand-off in a turn: to the one fallback model, or past a fold in a conversation
\* where nothing is resumed.
HandsOverOnce ==
    /\ ~Settings /\ MaxFaults = 0 /\ Fallbacks <= 1
    /\ Compaction => Fallbacks = 0 /\ MaxCrashes = 0

\* The run whose wakes the attempt at answers for, 0 for none.
Carried(at) == IF at.phase # "setup" THEN at.run ELSE IF at.src # 0 THEN at.src ELSE at.pred

\* The runs that continue one which took a trigger.
Reached(tk, rs, ln) == {k \in DOMAIN rs : tk \cap ln[k] # {}}

\* Claimed under the authority that stands, and of no run.
Ready(row, ep) == row.state = "claimed" /\ row.run = 0 /\ row.epoch = ep

\* A wake of a run: whatever else continues what took its trigger has ended without an
\* answer, and the attempt that goes on from there carries it.
OwnedOK(row, w, tk, rs, ln, at, m) ==
    row.state = "claimed" /\ row.run # 0 =>
        /\ rs[row.run].status # "resumed"
        /\ \A k \in Reached(tk, rs, ln) : k = row.run \/ rs[k].status \in {"resumed", "error"}
        /\ at.phase \in {"setup", "between", "running", "landed"} /\ tk \cap at.line # {}
              => row.run = Carried(at)
        /\ at.phase \in {"setup", "between", "running"} /\ at.src = 0 /\ row.run = Carried(at)
              => w \in m

\* A failed wake: nothing that continues what took its trigger can complete any more.
FailedOK(row, tk, rs, ln, at, ep) ==
    row.state = "failed" =>
        /\ \A k \in Reached(tk, rs, ln) : rs[k].status \in {"resumed", "error", "fenced", "abandoned"}
        /\ at.epoch = ep /\ at.phase \in {"setup", "between"} => tk \cap at.line = {}

RowDecides(row, w, tk, rs, ln, at, m, ep) ==
    /\ row.state \in {"pending", "claimed"} /\ row.run = 0 => tk = {}
    /\ OwnedOK(row, w, tk, rs, ln, at, m)
    /\ FailedOK(row, tk, rs, ln, at, ep)

\* The rows, but for those of which the run is not on record.
RowsDecide(ws, lo, tk, rs, ln, at, m, ep) ==
    \A w \in DOMAIN ws \ lo : RowDecides(ws[w], w, tk[w], rs, ln, at, m, ep)

\* The rows as a pump reads them: at the live end of their chain.
AtEnd(row, rs) == IF row.state = "claimed" /\ row.run # 0 /\ rs[row.run].status = "resumed"
                  THEN [row EXCEPT !.run = ChainEnd(rs, @)] ELSE row
EndsDecide(ws, lo, tk, rs, ln, at, m, ep) ==
    \A w \in DOMAIN ws \ lo : RowDecides(AtEnd(ws[w], rs), w, tk[w], rs, ln, at, m, ep)

\* What waits or is on its way into a turn with authority is claimed, and is of no other run.
PlacesDecide(ws, at, q, j, m, ep) ==
    /\ \A w \in q : Ready(ws[w], ep)
    /\ at.epoch = ep => \A w \in j : Ready(ws[w], ep)
    /\ at.epoch = ep /\ at.phase \in {"setup", "between"} =>
          \A w \in m : \/ Ready(ws[w], ep)
                       \/ ws[w].state = "claimed" /\ ws[w].run # 0 /\ ws[w].run = Carried(at)
    /\ at.epoch = ep /\ at.phase = "running" =>
          \A w \in m : ws[w].state = "claimed" /\ ws[w].run = at.run

\* An attempt hands over once, its line is the line of the run it goes on from, and no run
\* continues the one it is at.
AttemptDecides(at, rs, ln, m) ==
    /\ at.phase \in {"running", "landed"} =>
          /\ rs[at.run].epoch = at.epoch /\ ln[at.run] = at.line
          /\ \A k \in DOMAIN rs : at.run \in ln[k] => k = at.run
    /\ at.phase \in {"setup", "between"} =>
          IF Carried(at) = 0 THEN at.line = {} ELSE at.line = ln[Carried(at)]
    /\ at.phase \in {"setup", "between"} /\ at.src = 0 /\ Carried(at) # 0 =>
          /\ rs[Carried(at)].status = "error" /\ rs[Carried(at)].undelivered
          /\ rs[Carried(at)].epoch = at.epoch
    /\ at.phase = "between" \/ at.pred # 0 =>
          at.src = 0 /\ ~ (at.misses < Fallbacks) /\ (Compaction => at.folded)
    /\ at.phase = "setup" => at.run = 0
    /\ at.src # 0 => ~Compaction
    /\ at.src # 0 /\ at.phase = "setup" => m = {}

\* What runs is the attempt's run; with compaction nothing is interrupted.
RunsDecide(rs, at) ==
    \A k \in DOMAIN rs : /\ rs[k].status = "running" => k = at.run /\ at.phase \in {"running", "landed"}
                         /\ rs[k].status = "interrupted" => ~Compaction

DecideInv ==
    /\ unlinked = {}
    /\ RowsDecide(wakes, lost, took, runs, line, att, members, epoch)
    /\ PlacesDecide(wakes, att, queue, joining, members, epoch)
    /\ AttemptDecides(att, runs, line, members)
    /\ RunsDecide(runs, att)

LEMMA EndOfChain ==
  ASSUME NEW rs, NEW ln, RunsOK(rs, ln), NEW r \in DOMAIN rs, rs[r].status # "resumed"
  PROVE  ChainEnd(rs, r) = r
<1> DEFINE f == CHOOSE g : EndsAt(rs, g)
<1>1. EndsAt(rs, f)
  BY EndExists
<1>2. ChainEnd(rs, r) = f[r]
  BY DEF ChainEnd, EndsAt
<1> HIDE DEF f
<1> DEFINE body(k) == IF rs[k].status = "resumed" THEN f[Successor(rs, k)] ELSE k
<1>3. f = [k \in DOMAIN rs |-> body(k)]
  BY <1>1 DEF EndsAt
<1> HIDE DEF body
<1>4. f[r] = body(r)
  BY <1>3
<1>5. body(r) = r
  BY DEF body
<1> QED BY <1>2, <1>4, <1>5

LEMMA ResumedChain ==
  ASSUME NEW rs, NEW ln, RunsOK(rs, ln), NEW r \in DOMAIN rs, rs[r].status = "resumed"
  PROVE  ChainEnd(rs, r) = ChainEnd(rs, Successor(rs, r))
<1> DEFINE f == CHOOSE g : EndsAt(rs, g)
           j == Successor(rs, r)
<1>1. EndsAt(rs, f)
  BY EndExists
<1>2. \A k : ChainEnd(rs, k) = f[k]
  BY DEF ChainEnd, EndsAt
<1> HIDE DEF f
<1> DEFINE body(k) == IF rs[k].status = "resumed" THEN f[Successor(rs, k)] ELSE k
<1>3. f = [k \in DOMAIN rs |-> body(k)]
  BY <1>1 DEF EndsAt
<1> HIDE DEF body
<1>4. f[r] = body(r)
  BY <1>3
<1>5. body(r) = f[j]
  BY DEF body
<1> HIDE DEF j
<1>6. ChainEnd(rs, r) = ChainEnd(rs, j)
  BY <1>2, <1>4, <1>5
<1> QED BY <1>6 DEF j

\* A row that names no resumed run is read as it stands.
LEMMA RowsAtEnd ==
  ASSUME NEW ws, NEW lo, NEW tk, NEW rs, NEW ln, NEW at, NEW m, NEW ep,
         RowsDecide(ws, lo, tk, rs, ln, at, m, ep)
  PROVE  EndsDecide(ws, lo, tk, rs, ln, at, m, ep)
<1>1. ASSUME NEW w \in DOMAIN ws \ lo PROVE RowDecides(AtEnd(ws[w], rs), w, tk[w], rs, ln, at, m, ep)
  <2>1. RowDecides(ws[w], w, tk[w], rs, ln, at, m, ep)
    BY DEF RowsDecide
  <2>2. AtEnd(ws[w], rs) = ws[w]
    BY <2>1 DEF AtEnd, RowDecides, OwnedOK
  <2> QED BY <2>1, <2>2
<1> QED BY <1>1 DEF EndsDecide

\* When every write succeeds nothing is refused.
LEMMA NoneRefused ==
  ASSUME HandsOverOnce, faults \in 0..MaxFaults, NEW bad, Refuses(bad)
  PROVE  bad = {}
  BY WakeAssumption DEF HandsOverOnce, Refuses

Wrote(new, row) == \E g : new = [row EXCEPT !.gated = g]

\* What a pump writes into a row where every write succeeds and nothing is fenced.
LEMMA PumpWrites ==
  ASSUME HandsOverOnce, faults \in 0..MaxFaults, NEW ws, NEW wo, NEW rs, NEW mem, mem.unlinked = {},
         Pump(ws, wo, rs, mem), NEW w \in DOMAIN ws
  PROVE  Wrote(wakes'[w], Pumped(ws[w], rs, Classify(ws, rs, mem.admitted, w), FALSE))
<1> DEFINE class(v) == Classify(ws, rs, mem.admitted, v)
           offerable == {v \in DOMAIN ws : Offerable(mem, class(v), v)}
           row(bad, thrown, v) ==
             IF v \in bad THEN ws[v]
             ELSE [Pumped(ws[v], rs, class(v), v \in mem.unlinked) EXCEPT !.gated = @ \/ v \in thrown]
<1>1. PICK bad \in SUBSET DOMAIN ws : \E thrown \in SUBSET (offerable \ bad) :
        wakes' = [v \in DOMAIN ws |-> row(bad, thrown, v)] /\ Refuses(bad \cup thrown)
  BY DEF Pump
<1>2. PICK thrown \in SUBSET (offerable \ bad) :
        wakes' = [v \in DOMAIN ws |-> row(bad, thrown, v)] /\ Refuses(bad \cup thrown)
  BY <1>1
<1>3. bad \cup thrown = {}
  <2> HIDE DEF row, offerable, class
  <2> QED BY <1>2, NoneRefused
<1>4. w \notin bad /\ (w \in mem.unlinked) = FALSE
  BY <1>3
<1>5. wakes'[w] = row(bad, thrown, w)
  <2> HIDE DEF row
  <2> QED BY <1>2
<1> HIDE DEF class
<1>6. wakes'[w] = [Pumped(ws[w], rs, class(w), FALSE) EXCEPT !.gated = @ \/ w \in thrown]
  BY <1>4, <1>5
<1> QED BY <1>6 DEF class, Wrote

\* A claimed row that a pump settles or fails was put down to it, and one of a run that
\* stays claimed is left at the end of its chain.
LEMMA PumpClaimed ==
  ASSUME HandsOverOnce, faults \in 0..MaxFaults, NEW ws, NEW wo, NEW rs, NEW ln, RunsOK(rs, ln), NEW mem,
         mem.unlinked = {}, Pump(ws, wo, rs, mem), NEW w \in DOMAIN ws, ws[w] \in Wake,
         ws[w].state = "claimed", ws[w].run \in {0} \cup DOMAIN rs
  PROVE  /\ wakes'[w].state = "failed" => Classify(ws, rs, mem.admitted, w) = "fail"
         /\ ws[w].run # 0 /\ wakes'[w].state = "claimed" =>
               Becomes(wakes'[w], "claimed", ws[w].epoch, ChainEnd(rs, ws[w].run))
<1> DEFINE c == Classify(ws, rs, mem.admitted, w)
           row == ws[w]
           end == ChainEnd(rs, row.run)
<1>1. PICK g : wakes'[w] = [Pumped(row, rs, c, FALSE) EXCEPT !.gated = g]
  <2>1. Wrote(wakes'[w], Pumped(ws[w], rs, Classify(ws, rs, mem.admitted, w), FALSE))
    BY PumpWrites
  <2> QED BY <2>1 DEF Wrote
<1>2. c # "append"
  BY ClassFacts
<1>3. row.run # 0 => c \in {"settle", "fail", "preserve"}
  <2>1. row.run # 0 => rs[end].status \in RunStatus /\ rs[end].status # "resumed"
    <3>1. ASSUME row.run # 0 PROVE rs[end] \in Run /\ rs[end].status # "resumed"
      BY <3>1, ChainEndFacts, SeqFacts DEF RunsOK
    <3> QED BY <3>1 DEF Run
  <2> QED BY <2>1 DEF Classify, Disposition, Owned, Unowned, Open, RunStatus
<1> HIDE DEF c, end
<1>4. \A x, g2 : /\ [[row EXCEPT !.state = x] EXCEPT !.gated = g2].state = x
                /\ [row EXCEPT !.gated = g2].state = row.state
                /\ LET q == [[row EXCEPT !.run = x] EXCEPT !.gated = g2]
                   IN  q.state = row.state /\ q.epoch = row.epoch /\ q.run = x
  BY DEF Wake
<1> HIDE DEF row
<1>5. CASE c = "settle"
  <2>1. wakes'[w] = [[row EXCEPT !.state = "settled"] EXCEPT !.gated = g]
    BY <1>1, <1>5 DEF Pumped
  <2> QED BY <1>4, <2>1
<1>6. CASE c = "fail"
  <2>1. wakes'[w] = [[row EXCEPT !.state = "failed"] EXCEPT !.gated = g]
    BY <1>1, <1>6 DEF Pumped, Fail
  <2>2. wakes'[w].state = "failed"
    BY <1>4, <2>1
  <2> QED BY <1>6, <2>2 DEF c
<1>7. CASE c = "preserve"
  <2>1. wakes'[w] = [[row EXCEPT !.run = end] EXCEPT !.gated = g]
    BY <1>1, <1>7 DEF Pumped, end
  <2>2. row.state = "claimed"
    BY DEF row
  <2>3. wakes'[w].state = "claimed" /\ wakes'[w].epoch = row.epoch /\ wakes'[w].run = end
    BY <1>4, <2>1, <2>2
  <2> QED BY <2>3 DEF Becomes, row, end
<1>8. CASE c \notin {"settle", "fail", "preserve"}
  <2>1. wakes'[w] = [row EXCEPT !.gated = g]
    BY <1>1, <1>2, <1>8 DEF Pumped
  <2>2. row.state = "claimed" /\ row.run = 0
    BY <1>3, <1>8 DEF row
  <2>3. wakes'[w].state = "claimed"
    BY <1>4, <2>1, <2>2
  <2> QED BY <2>2, <2>3 DEF row
<1> QED BY <1>5, <1>6, <1>7, <1>8

\* What a disposition to fail says of the row, read at the end of its chain.
LEMMA FailFacts ==
  ASSUME NEW ws, NEW rs, NEW adm, NEW w, ws[w] \in Wake,
         Classify(ws, rs, adm, w) = "fail"
  PROVE  LET end == ChainEnd(rs, ws[w].run)
         IN  /\ ws[w].run = 0 => ws[w].epoch # epoch
             /\ ws[w].run # 0 =>
                  /\ rs[end].status \in {"error", "fenced", "abandoned"}
                  /\ ~ /\ rs[end].status = "error" /\ rs[end].undelivered /\ rs[end].epoch = epoch
                       /\ \E v \in adm : ws[v].run = end
<1> DEFINE end == ChainEnd(rs, ws[w].run)
<1>1. ws[w].run = 0 => ws[w].epoch # epoch
  BY ClassFacts
<1>2. ASSUME ws[w].run # 0
      PROVE  rs[end].status \in {"error", "fenced", "abandoned"} /\ ~Held(ws, rs, adm, end)
  <2>2. Disposition(ws, rs, adm, ws[w].run) = IF Held(ws, rs, adm, end) THEN "running" ELSE rs[end].status
    BY DEF Disposition
  <2>3. Disposition(ws, rs, adm, ws[w].run) \in {"error", "fenced", "abandoned"}
    BY <1>2 DEF Classify, Unowned, Owned
  <2> QED BY <2>2, <2>3
<1> QED BY <1>1, <1>2 DEF Held

\* What a pump does to a row, read at the end of its chain, and from where it fails one.
PumpMove(row, adm, ws, rs, new) ==
    \/ Becomes(new, row.state, row.epoch, row.run)
    \/ row.state = "pending" /\ Becomes(new, "claimed", epoch, row.run)
    \/ row.state = "claimed" /\ row.run # 0 /\ rs[row.run].status = "completed"
       /\ new.state = "settled"
    \/ row.state = "claimed" /\ row.run = 0 /\ row.epoch # epoch /\ Becomes(new, "failed", row.epoch, 0)
    \/ /\ row.state = "claimed" /\ row.run # 0 /\ new.state = "failed"
       /\ rs[row.run].status \in {"error", "fenced", "abandoned"}
       /\ ~ /\ rs[row.run].status = "error" /\ rs[row.run].undelivered
            /\ rs[row.run].epoch = epoch
            /\ \E v \in adm : ws[v].run = row.run

\* A pump leaves a wake undecided while an attempt with authority carries it.
LEMMA PumpDecides ==
  ASSUME HandsOverOnce,
         NEW ws, NEW wo, NEW rs, NEW ln, NEW tk, NEW j, NEW lo, NEW mem,
         RunsOK(rs, ln), WakesOK(ws, tk, rs, ln, lo, epoch), AttemptOK(mem.att, rs, ln, epoch),
         PlacesOK(ws, mem.att, mem.queue, j, mem.members, tk, lo),
         mem.queue \cup j \cup mem.members \subseteq mem.admitted, mem.unlinked = {},
         EndsDecide(ws, lo, tk, rs, ln, mem.att, mem.members, epoch),
         PlacesDecide(ws, mem.att, mem.queue, j, mem.members, epoch),
         AttemptDecides(mem.att, rs, ln, mem.members), RunsDecide(rs, mem.att),
         epoch \in 1..MaxEpoch, faults \in 0..MaxFaults, Pump(ws, wo, rs, mem)
  PROVE  /\ runs' = rs /\ unlinked' = {}
         /\ RowsDecide(wakes', lo, tk, rs, ln, att', members', epoch)
         /\ PlacesDecide(wakes', att', queue', j, members', epoch)
         /\ AttemptDecides(att', rs, ln, members') /\ RunsDecide(rs, att')
<1> DEFINE at == mem.att
           m == mem.members
<1>0. /\ ws \in Seq(Wake)
      /\ \A w \in DOMAIN ws : ws[w] \in Wake /\ ws[w].run \in {0} \cup DOMAIN rs
                              /\ WakeOK(ws[w], tk[w], rs, ln, w \in lo, epoch)
  <2>1. \A w \in DOMAIN ws : WakeOK(ws[w], tk[w], rs, ln, w \in lo, epoch)
    BY DEF WakesOK
  <2> QED BY <2>1, SeqFacts DEF WakesOK, WakeOK
<1>1. /\ runs' = rs /\ DOMAIN wakes' = DOMAIN ws
      /\ \A w \in DOMAIN ws : RowStep(ws[w], rs, wakes'[w])
      /\ unlinked' = {}
      /\ LaneTakes(ws, mem, wakes')
  BY <1>0, PumpSteps
<1>2. ASSUME NEW w \in DOMAIN ws
      PROVE  LET row == AtEnd(ws[w], rs)
             IN  /\ row.state = ws[w].state /\ row.epoch = ws[w].epoch
                 /\ ws[w].run = 0 \/ ws[w].state # "claimed" => row.run = ws[w].run
                 /\ ws[w].run # 0 /\ ws[w].state = "claimed" => row.run = ChainEnd(rs, ws[w].run)
                 /\ ws[w].run # 0 /\ rs[ws[w].run].status # "resumed" => row.run = ws[w].run
  <2>1. ws[w] \in Wake /\ (ws[w].run # 0 => ws[w].run \in DOMAIN rs)
    BY <1>0
  <2> QED BY <2>1, EndOfChain DEF AtEnd, Wake
<1>3. ASSUME NEW w \in DOMAIN ws
      PROVE  PumpMove(AtEnd(ws[w], rs), mem.admitted, ws, rs, wakes'[w])
  <2> DEFINE row == AtEnd(ws[w], rs)
             end == ChainEnd(rs, ws[w].run)
             new == wakes'[w]
  <2>1. RowStep(ws[w], rs, new)
    BY <1>1
  <2>2. /\ row.state = ws[w].state /\ row.epoch = ws[w].epoch
        /\ ws[w].run = 0 \/ ws[w].state # "claimed" => row.run = ws[w].run
        /\ ws[w].run # 0 /\ ws[w].state = "claimed" => row.run = end
    BY <1>2
  <2>3. ws[w].run # 0 => end # 0
    BY <1>0, ChainEndFacts
  <2> SUFFICES PumpMove(row, mem.admitted, ws, rs, new)
    OBVIOUS
  <2>4. CASE ws[w].state = "claimed" /\ new.state = "failed"
    <3>1. Classify(ws, rs, mem.admitted, w) = "fail"
      BY <1>0, <2>4, PumpClaimed
    <3>2. /\ ws[w].run = 0 => ws[w].epoch # epoch
          /\ ws[w].run # 0 =>
               /\ rs[end].status \in {"error", "fenced", "abandoned"}
               /\ ~ /\ rs[end].status = "error" /\ rs[end].undelivered /\ rs[end].epoch = epoch
                    /\ \E v \in mem.admitted : ws[v].run = end
      BY <1>0, <3>1, FailFacts
    <3>3. Becomes(new, "failed", ws[w].epoch, ws[w].run)
      BY <2>1, <2>4 DEF RowStep, Becomes
    <3> HIDE DEF row, end, new
    <3> QED BY <2>2, <2>3, <2>4, <3>2, <3>3 DEF PumpMove
  <2>5. CASE ws[w].state = "claimed" /\ ws[w].run # 0 /\ new.state = "claimed"
    <3>1. Becomes(new, "claimed", ws[w].epoch, end)
      BY <1>0, <2>5, PumpClaimed
    <3> HIDE DEF row, end, new
    <3> QED BY <2>2, <2>5, <3>1 DEF PumpMove
  <2> HIDE DEF row, new
  <2>6. CASE ~ (ws[w].state = "claimed" /\ (new.state = "failed" \/ (ws[w].run # 0 /\ new.state = "claimed")))
    BY <2>1, <2>2, <2>3, <2>6 DEF RowStep, PumpMove, Becomes
  <2> QED BY <2>4, <2>5, <2>6
<1>4. ASSUME NEW w \in DOMAIN ws \ lo
      PROVE  RowDecides(AtEnd(ws[w], rs), w, tk[w], rs, ln, at, m, epoch)
  BY DEF EndsDecide
<1>5. ASSUME NEW w \in DOMAIN ws, at.phase \in {"setup", "between"}, w \in m, at.epoch = epoch,
             ws[w].run # 0, ws[w].run = Carried(at)
      PROVE  /\ rs[ws[w].run].status = "error" /\ rs[ws[w].run].undelivered
             /\ rs[ws[w].run].epoch = epoch /\ \E v \in mem.admitted : ws[v].run = ws[w].run
  <2>1. at.src = 0
    BY <1>5 DEF AttemptDecides
  <2> QED BY <1>5, <2>1 DEF AttemptDecides
<1>6. ASSUME NEW w \in DOMAIN ws \ lo
      PROVE  RowDecides(wakes'[w], w, tk[w], rs, ln, at, m, epoch)
  <2> DEFINE row == AtEnd(ws[w], rs)
             new == wakes'[w]
  <2>0. /\ PumpMove(row, mem.admitted, ws, rs, new) /\ RowDecides(row, w, tk[w], rs, ln, at, m, epoch)
        /\ row.state = "pending" => row.run = 0 /\ tk[w] = {}
    <3>1. WakeOK(ws[w], tk[w], rs, ln, w \in lo, epoch) /\ row.state = ws[w].state
          /\ (ws[w].run = 0 => row.run = ws[w].run)
      BY <1>0, <1>2
    <3> QED BY <1>3, <1>4, <3>1 DEF WakeOK
  <2>a. ASSUME at.phase \in {"setup", "between"}, at.epoch = epoch, row.state = "claimed", row.run # 0,
               tk[w] \cap at.line # {}, rs[row.run].status \in {"error", "fenced", "abandoned"},
               ~ /\ rs[row.run].status = "error" /\ rs[row.run].undelivered
                 /\ rs[row.run].epoch = epoch
                 /\ \E v \in mem.admitted : ws[v].run = row.run
        PROVE  FALSE
    <3>1. row.run = Carried(at)
      BY <2>0, <2>a DEF RowDecides, OwnedOK
    <3>2. at.src = 0
      <4>1. CASE at.src # 0
        <5>1. at.phase = "setup" /\ Carried(at) = at.src
          BY <2>a, <4>1 DEF AttemptDecides, Carried
        <5>2. rs[at.src].status \in {"interrupted", "resumed"}
          BY <4>1 DEF AttemptOK
        <5> QED BY <2>a, <3>1, <5>1, <5>2
      <4> QED BY <4>1
    <3>3. w \in m
      BY <2>0, <2>a, <3>1, <3>2 DEF RowDecides, OwnedOK
    <3>4. /\ rs[row.run].status = "error" /\ rs[row.run].undelivered /\ rs[row.run].epoch = epoch
      BY <2>a, <3>1, <3>2 DEF AttemptDecides
    <3>5. ws[w].run = row.run
      <4>1. \/ Ready(ws[w], epoch)
            \/ ws[w].state = "claimed" /\ ws[w].run # 0 /\ ws[w].run = Carried(at)
        BY <2>a, <3>3 DEF PlacesDecide
      <4>2. ~Ready(ws[w], epoch)
        BY <1>2, <2>a DEF Ready
      <4> QED BY <3>1, <4>1, <4>2
    <3> QED BY <2>a, <3>3, <3>4, <3>5
  <2> SUFFICES RowDecides(new, w, tk[w], rs, ln, at, m, epoch)
    OBVIOUS
  <2> HIDE DEF row, new, at, m
  <2>1. CASE Becomes(new, row.state, row.epoch, row.run)
    BY <2>0, <2>1 DEF RowDecides, OwnedOK, FailedOK, Becomes
  <2>2. CASE row.state = "pending" /\ Becomes(new, "claimed", epoch, row.run)
    <3>1. row.run = 0 /\ tk[w] = {}
      BY <2>0, <2>2
    <3> QED BY <2>2, <3>1 DEF RowDecides, OwnedOK, FailedOK, Becomes
  <2>3. CASE new.state = "settled"
    BY <2>3 DEF RowDecides, OwnedOK, FailedOK
  <2>4. CASE row.state = "claimed" /\ row.run = 0 /\ new.state = "failed"
    <3>1. tk[w] = {}
      BY <2>0, <2>4 DEF RowDecides
    <3> QED BY <2>4, <3>1 DEF RowDecides, OwnedOK, FailedOK, Reached
  <2>5. CASE /\ row.state = "claimed" /\ row.run # 0 /\ new.state = "failed"
             /\ rs[row.run].status \in {"error", "fenced", "abandoned"}
             /\ ~ /\ rs[row.run].status = "error" /\ rs[row.run].undelivered
                  /\ rs[row.run].epoch = epoch
                  /\ \E v \in mem.admitted : ws[v].run = row.run
    <3>1. \A k \in Reached(tk[w], rs, ln) : k = row.run \/ rs[k].status \in {"resumed", "error"}
      BY <2>0, <2>5 DEF RowDecides, OwnedOK
    <3>2. \A k \in Reached(tk[w], rs, ln) : rs[k].status \in {"resumed", "error", "fenced", "abandoned"}
      BY <2>5, <3>1
    <3>3. at.epoch = epoch /\ at.phase \in {"setup", "between"} => tk[w] \cap at.line = {}
      BY <2>a, <2>5
    <3> QED BY <2>5, <3>2, <3>3 DEF RowDecides, OwnedOK, FailedOK
  <2> QED BY <2>0, <2>1, <2>2, <2>3, <2>4, <2>5 DEF PumpMove, Becomes
<1>7. ASSUME NEW w \in DOMAIN ws \ lo, at.phase = "idle", NEW n
      PROVE  RowDecides(wakes'[w], w, tk[w], rs, ln, FreshTurn, n, epoch)
  <2>1. /\ FreshTurn.phase = "setup" /\ FreshTurn.line = {} /\ FreshTurn.src = 0 /\ FreshTurn.pred = 0
        /\ Carried(FreshTurn) = 0
    BY DEF FreshTurn, Idle, Carried
  <2> QED BY <1>6, <1>7, <2>1 DEF RowDecides, OwnedOK, FailedOK
<1>8. ASSUME NEW w \in DOMAIN ws, Ready(ws[w], epoch) PROVE Ready(wakes'[w], epoch)
  <2>1. /\ PumpMove(AtEnd(ws[w], rs), mem.admitted, ws, rs, wakes'[w])
        /\ AtEnd(ws[w], rs).state = "claimed" /\ AtEnd(ws[w], rs).run = 0
        /\ AtEnd(ws[w], rs).epoch = epoch
    BY <1>2, <1>3, <1>8 DEF Ready
  <2> QED BY <2>1 DEF Ready, PumpMove, Becomes
<1>9. PlacesDecide(wakes', at, mem.queue, j, m, epoch)
  <2>0. mem.queue \cup j \cup m \subseteq DOMAIN ws
    BY DEF PlacesOK
  <2>1. \A w \in mem.queue : Ready(wakes'[w], epoch)
    BY <1>8, <2>0 DEF PlacesDecide
  <2>2. at.epoch = epoch => \A w \in j : Ready(wakes'[w], epoch)
    BY <1>8, <2>0 DEF PlacesDecide
  <2>3. ASSUME at.epoch = epoch, at.phase \in {"setup", "between"}, NEW w \in m
        PROVE  \/ Ready(wakes'[w], epoch)
               \/ wakes'[w].state = "claimed" /\ wakes'[w].run # 0 /\ wakes'[w].run = Carried(at)
    <3>1. CASE Ready(ws[w], epoch)
      BY <1>8, <2>0, <3>1
    <3>2. CASE ws[w].state = "claimed" /\ ws[w].run # 0 /\ ws[w].run = Carried(at)
      <4>1. /\ rs[ws[w].run].status = "error" /\ rs[ws[w].run].undelivered
            /\ rs[ws[w].run].epoch = epoch /\ \E v \in mem.admitted : ws[v].run = ws[w].run
        BY <1>5, <2>0, <2>3, <3>2
      <4>2. /\ PumpMove(AtEnd(ws[w], rs), mem.admitted, ws, rs, wakes'[w])
            /\ AtEnd(ws[w], rs).state = "claimed" /\ AtEnd(ws[w], rs).run = ws[w].run
        BY <1>2, <1>3, <2>0, <3>2, <4>1
      <4> QED BY <3>2, <4>1, <4>2 DEF PumpMove, Becomes
    <3> QED BY <2>3, <3>1, <3>2 DEF PlacesDecide
  <2>4. ASSUME at.epoch = epoch, at.phase = "running", NEW w \in m
        PROVE  wakes'[w].state = "claimed" /\ wakes'[w].run = at.run
    <3>1. ws[w].state = "claimed" /\ ws[w].run = at.run /\ at.run # 0 /\ rs[at.run].status = "running"
      BY <2>4 DEF PlacesDecide, AttemptOK
    <3>2. /\ PumpMove(AtEnd(ws[w], rs), mem.admitted, ws, rs, wakes'[w])
          /\ AtEnd(ws[w], rs).state = "claimed" /\ AtEnd(ws[w], rs).run = ws[w].run
      BY <1>2, <1>3, <2>0, <3>1
    <3> QED BY <3>1, <3>2 DEF PumpMove, Becomes
  <2> QED BY <2>1, <2>2, <2>3, <2>4 DEF PlacesDecide
<1>10. CASE att' = at /\ members' = m /\ \E S \in SUBSET DOMAIN ws :
               (\A w \in S : Offered(ws, mem, wakes', w)) /\ queue' \subseteq mem.queue \cup S
  <2>1. PICK S \in SUBSET DOMAIN ws :
          (\A w \in S : Offered(ws, mem, wakes', w)) /\ queue' \subseteq mem.queue \cup S
    BY <1>10
  <2>2. \A w \in S : Ready(wakes'[w], epoch)
    BY <1>0, <2>1 DEF Offered, Ready, WakeOK
  <2>3. PlacesDecide(wakes', at, queue', j, m, epoch)
    BY <1>9, <2>1, <2>2 DEF PlacesDecide
  <2> QED BY <1>1, <1>6, <1>10, <2>3 DEF RowsDecide
<1>11. ASSUME NEW S \in SUBSET DOMAIN ws, \A w \in S : Offered(ws, mem, wakes', w),
              at.phase = "idle", att' = FreshTurn, queue' \subseteq S, members' \subseteq S
       PROVE  /\ RowsDecide(wakes', lo, tk, rs, ln, att', members', epoch)
              /\ PlacesDecide(wakes', att', queue', j, members', epoch)
              /\ AttemptDecides(att', rs, ln, members') /\ RunsDecide(rs, att')
  <2>1. /\ FreshTurn.phase = "setup" /\ FreshTurn.line = {} /\ FreshTurn.src = 0 /\ FreshTurn.pred = 0
        /\ FreshTurn.run = 0 /\ Carried(FreshTurn) = 0
    BY DEF FreshTurn, Idle, Carried
  <2>2. \A w \in S : Ready(wakes'[w], epoch)
    BY <1>0, <1>11 DEF Offered, Ready, WakeOK
  <2>3. j = {}
    BY <1>11 DEF PlacesOK
  <2>4. PlacesDecide(wakes', att', queue', j, members', epoch)
    BY <1>11, <2>1, <2>2, <2>3 DEF PlacesDecide
  <2>5. AttemptDecides(att', rs, ln, members')
    BY <1>11, <2>1 DEF AttemptDecides
  <2>6. RunsDecide(rs, att')
    BY <1>11 DEF RunsDecide
  <2> QED BY <1>1, <1>7, <1>11, <2>4, <2>5, <2>6 DEF RowsDecide
<1> QED BY <1>1, <1>10, <1>11 DEF LaneTakes

-----------------------------------------------------------------------------
(* The steps that pump. *)

LEMMA TickerDecides == ASSUME HandsOverOnce, WakeInv, DecideInv, Ticker PROVE DecideInv'
<1> DEFINE mem == Memory(att)
<1>1. mem.att = att /\ mem.queue = queue /\ mem.members = members /\ mem.unlinked = {}
      /\ mem.queue \cup joining \cup mem.members \subseteq mem.admitted
  BY MemoryFacts DEF DecideInv
<1>2. Pump(wakes, wakeOf, runs, mem)
  BY DEF Ticker
<1> HIDE DEF mem
<1>3. UNCHANGED <<epoch, joining, took, line, lost>>
  BY DEF Ticker
<1>4. WakesOK(wakes, took, runs, line, lost, epoch)
  BY DEF WakeInv, DecideInv
<1>5. EndsDecide(wakes, lost, took, runs, line, att, members, epoch)
  BY RowsAtEnd DEF DecideInv
<1> QED BY <1>1, <1>2, <1>3, <1>4, <1>5, PumpDecides DEF WakeInv, DecideInv

\* stampRun has ended the attempt's run, with status st, withheld or not as x says: the
\* attempt goes on as at, which is over or hands its messages over.
Stamped(at, st, x) ==
    /\ AttemptOK(at, runs, line, epoch) /\ at.phase \in {"over", "between"}
    /\ at.line = att.line /\ at.epoch = att.epoch /\ at.src = att.src
    /\ at.run = att.run /\ at.pred = att.pred
    /\ st \in {"completed", "error", "fenced"} /\ x \in BOOLEAN
    /\ att.phase \in {"running", "landed"} /\ joining = {}
    /\ at.phase = "between" => /\ att.phase = "running" /\ st = "error" /\ x = TRUE /\ att.src = 0
                               /\ ~ (at.misses < Fallbacks) /\ (Compaction => at.folded)
    /\ at.phase = "over" => at.misses = att.misses /\ at.folded = att.folded

LEMMA StampDecides ==
  ASSUME HandsOverOnce, WakeInv, DecideInv, NEW st, NEW x, NEW at, Stamped(at, st, x), Stamp(st, x, at)
  PROVE  DecideInv'
<1> DEFINE mem == Memory(at)
           r == att.run
           rs == [runs EXCEPT ![att.run].status = st, ![att.run].undelivered = x]
<1>0. /\ AttemptOK(at, runs, line, epoch) /\ at.phase \in {"over", "between"}
      /\ at.line = att.line /\ at.epoch = att.epoch /\ at.src = att.src
      /\ at.run = att.run /\ at.pred = att.pred
      /\ st \in {"completed", "error", "fenced"} /\ x \in BOOLEAN
      /\ att.phase \in {"running", "landed"} /\ joining = {}
      /\ at.phase = "between" => /\ att.phase = "running" /\ st = "error" /\ x = TRUE /\ att.src = 0
                                 /\ ~ (at.misses < Fallbacks) /\ (Compaction => at.folded)
      /\ at.phase = "over" => at.misses = att.misses /\ at.folded = att.folded
  BY DEF Stamped
<1>1. mem.att = at /\ mem.queue = queue /\ mem.members = members /\ mem.unlinked = {}
      /\ mem.queue \cup joining \cup mem.members \subseteq mem.admitted
  BY <1>0, MemoryFacts DEF DecideInv
<1>2. Pump(wakes, wakeOf, rs, mem)
  BY DEF Stamp
<1>3. r \in DOMAIN runs /\ runs[r].status = "running" /\ runs \in Seq(Run) /\ r # 0
  BY <1>0 DEF WakeInv, AttemptOK, RunsOK
<1>4. /\ rs \in Seq(Run) /\ DOMAIN rs = DOMAIN runs
      /\ rs[r].status = st /\ rs[r].from = runs[r].from /\ rs[r].undelivered = x /\ rs[r].epoch = runs[r].epoch
      /\ \A k \in DOMAIN runs : k # r => rs[k] = runs[k]
  <2> DEFINE row == [runs[r] EXCEPT !.status = st, !.undelivered = x]
  <2>1. st \in RunStatus /\ runs[r] \in Run
    BY <1>0, <1>3, SeqFacts DEF RunStatus
  <2>2. row \in Run /\ row.status = st /\ row.from = runs[r].from /\ row.undelivered = x
        /\ row.epoch = runs[r].epoch
    <3> HIDE DEF r
    <3> QED BY ONLY <2>1, <1>0 DEF Run
  <2>3. rs = [runs EXCEPT ![r] = row]
    BY <1>3
  <2> HIDE DEF rs, r, row
  <2> QED BY <1>3, <2>2, <2>3, RowRewritten
<1> HIDE DEF mem, rs
<1>5. RunsOK(rs, line) /\ WakesOK(wakes, took, rs, line, lost, epoch)
  <2>1. unlinked \cup lost = lost
    BY DEF DecideInv
  <2>2. RunsOK(runs, line) /\ WakesOK(wakes, took, runs, line, lost, epoch)
    BY <2>1 DEF WakeInv
  <2>3. ASSUME NEW k \in DOMAIN runs
        PROVE  /\ rs[k].from = runs[k].from
               /\ rs[k].status = "resumed" => runs[k].status = "resumed"
               /\ runs[k].status = "completed" => rs[k].status = "completed"
    BY <1>0, <1>3, <1>4
  <2>4. rs \in Seq(Run) /\ DOMAIN rs = DOMAIN runs
    BY <1>4
  <2> HIDE DEF rs
  <2>5. /\ RunsOK(rs, line)
        /\ \A ws, tk, F, ep : WakesOK(ws, tk, runs, line, F, ep) => WakesOK(ws, tk, rs, line, F, ep)
    BY ONLY <2>2, <2>3, <2>4, Restamped
  <2> QED BY <2>2, <2>5
<1>6. AttemptOK(at, rs, line, epoch)
  BY <1>0, <1>3, <1>4 DEF AttemptOK, WakeInv
<1>7. PlacesOK(wakes, at, queue, joining, members, took, lost)
  BY <1>0 DEF PlacesOK, WakeInv, DecideInv
<1>8. rs[r].epoch = att.epoch /\ line[r] = att.line
      /\ \A k \in DOMAIN runs : r \in line[k] => k = r
  BY <1>0, <1>4 DEF DecideInv, AttemptDecides
<1>9. ASSUME NEW w \in DOMAIN wakes \ lost
      PROVE  RowDecides(wakes[w], w, took[w], rs, line, at, members, epoch)
  <2> DEFINE row == wakes[w]
             tk == took[w]
  <2>1. RowDecides(row, w, tk, runs, line, att, members, epoch)
    BY DEF DecideInv, RowsDecide
  <2>2. row.state = "claimed" /\ row.run # 0 => row.run \in DOMAIN runs
    BY DEF WakeInv, WakesOK, WakeOK
  <2>3. Carried(at) = r
    BY <1>0 DEF Carried
  <2>4. at.phase = "between" => Carried(att) = r
    BY <1>0 DEF Carried
  <2> SUFFICES RowDecides(row, w, tk, rs, line, at, members, epoch)
    OBVIOUS
  <2> HIDE DEF row, tk
  <2>5. ASSUME row.state = "claimed", row.run # 0
        PROVE  /\ rs[row.run].status # "resumed"
               /\ \A k \in Reached(tk, rs, line) : k = row.run \/ rs[k].status \in {"resumed", "error"}
    <3>1. runs[row.run].status # "resumed"
      BY <2>1, <2>5 DEF RowDecides, OwnedOK
    <3>2. ASSUME NEW k \in Reached(tk, rs, line) PROVE k = row.run \/ rs[k].status \in {"resumed", "error"}
      <4>1. k \in Reached(tk, runs, line) /\ k \in DOMAIN runs
        BY <1>4 DEF Reached
      <4>2. k = row.run \/ runs[k].status \in {"resumed", "error"}
        BY <2>1, <2>5, <4>1 DEF RowDecides, OwnedOK
      <4> QED BY <1>0, <1>3, <1>4, <4>1, <4>2
    <3> QED BY <1>0, <1>4, <2>2, <2>5, <3>1, <3>2
  <2>6. ASSUME row.state = "claimed", row.run # 0, at.phase = "between"
        PROVE  /\ tk \cap at.line # {} => row.run = Carried(at)
               /\ row.run = Carried(at) => w \in members
    BY <1>0, <2>1, <2>3, <2>4, <2>6 DEF RowDecides, OwnedOK
  <2>7. ASSUME row.state = "failed"
        PROVE  /\ \A k \in Reached(tk, rs, line) : rs[k].status \in {"resumed", "error", "fenced", "abandoned"}
               /\ tk \cap at.line = {}
    <3>1. \A k \in Reached(tk, runs, line) : runs[k].status \in {"resumed", "error", "fenced", "abandoned"}
      BY <2>1, <2>7 DEF RowDecides, FailedOK
    <3>2. r \notin Reached(tk, runs, line)
      BY <1>3, <3>1
    <3>3. Reached(tk, rs, line) = Reached(tk, runs, line) /\ Reached(tk, runs, line) \subseteq DOMAIN runs
      BY <1>4 DEF Reached
    <3>4. tk \cap at.line = {}
      BY <1>0, <1>3, <1>8, <3>2 DEF Reached
    <3> QED BY <1>4, <3>1, <3>2, <3>3, <3>4
  <2>8. row.state \in {"pending", "claimed"} /\ row.run = 0 => tk = {}
    BY <2>1 DEF RowDecides
  <2> QED BY <1>0, <2>5, <2>6, <2>7, <2>8 DEF RowDecides, OwnedOK, FailedOK
<1>10. PlacesDecide(wakes, at, queue, joining, members, epoch)
  <2>1. Carried(at) = r
    BY <1>0 DEF Carried
  <2>2. PlacesDecide(wakes, att, queue, joining, members, epoch)
    BY DEF DecideInv
  <2> QED BY <1>0, <1>3, <2>1, <2>2 DEF PlacesDecide
<1>11. AttemptDecides(at, rs, line, members)
  <2>1. Carried(at) = r
    BY <1>0 DEF Carried
  <2>2. AttemptDecides(att, runs, line, members)
    BY DEF DecideInv
  <2> QED BY <1>0, <1>3, <1>4, <1>8, <2>1, <2>2 DEF AttemptDecides
<1>12. RunsDecide(rs, at)
  BY <1>0, <1>3, <1>4 DEF DecideInv, RunsDecide
<1>13. UNCHANGED <<epoch, joining, took, line, lost>>
  BY <1>0 DEF Stamp
<1>14. EndsDecide(wakes, lost, took, rs, line, at, members, epoch)
  <2>1. RowsDecide(wakes, lost, took, rs, line, at, members, epoch)
    BY <1>0, <1>9 DEF RowsDecide
  <2> QED BY <2>1, RowsAtEnd
<1>15. epoch \in 1..MaxEpoch /\ faults \in 0..MaxFaults
  BY DEF WakeInv
<1>16. /\ runs' = rs /\ unlinked' = {}
       /\ RowsDecide(wakes', lost, took, rs, line, att', members', epoch)
       /\ PlacesDecide(wakes', att', queue', joining, members', epoch)
       /\ AttemptDecides(att', rs, line, members') /\ RunsDecide(rs, att')
  BY ONLY HandsOverOnce, <1>1, <1>2, <1>5, <1>6, <1>7, <1>10, <1>11, <1>12, <1>14, <1>15, PumpDecides
<1> QED BY <1>13, <1>16 DEF DecideInv

LEMMA CompletionDecides ==
  ASSUME HandsOverOnce, WakeInv, DecideInv, Complete \/ Die \/ HandOff PROVE DecideInv'
<1> DEFINE folded == [att EXCEPT !.phase = "between", !.folded = TRUE]
<1>1. att \in Attempt /\ {att.misses, Fallbacks} \subseteq Nat
  BY WakeAssumption DEF WakeInv, AttemptOK, Attempt
<1>2. /\ Ending \in Attempt /\ Ending.phase = "over" /\ Ending.epoch = att.epoch /\ Ending.line = att.line
      /\ Ending.run = att.run /\ Ending.pred = att.pred /\ Ending.src = att.src
      /\ Ending.misses = att.misses /\ Ending.folded = att.folded
  BY <1>1 DEF Ending, Attempt
<1>3. /\ NextModel \in Attempt /\ NextModel.phase = "between" /\ NextModel.epoch = att.epoch
      /\ NextModel.line = att.line /\ NextModel.run = att.run /\ NextModel.pred = att.pred
      /\ NextModel.src = att.src /\ NextModel.misses = att.misses + 1
  <2>1. att.misses + 1 \in Nat
    BY <1>1
  <2> QED BY <1>1, <2>1 DEF NextModel, Attempt
<1>4. /\ folded \in Attempt /\ folded.phase = "between" /\ folded.epoch = att.epoch
      /\ folded.line = att.line /\ folded.run = att.run /\ folded.pred = att.pred
      /\ folded.src = att.src /\ folded.misses = att.misses /\ folded.folded
  BY <1>1 DEF Attempt
<1>5. AttemptOK(Ending, runs, line, epoch) /\ AttemptOK(NextModel, runs, line, epoch)
      /\ AttemptOK(folded, runs, line, epoch)
  <2> HIDE DEF folded
  <2> QED BY <1>2, <1>3, <1>4 DEF AttemptOK, WakeInv
<1>6. Compaction => att.src = 0
  BY DEF DecideInv, AttemptDecides
<1> HIDE DEF folded
<1>7. CASE Complete
  <2>0. att.phase = "landed" /\ Stamp("completed", FALSE, Ending)
    BY <1>7 DEF Complete
  <2>1. PICK st \in {"completed", "error", "fenced"}, x \in BOOLEAN :
          att.phase = "landed" /\ Stamp(st, x, Ending)
    BY <2>0
  <2>2. joining = {}
    BY <2>1 DEF WakeInv, PlacesOK
  <2>3. Stamped(Ending, st, x)
    BY <1>2, <1>5, <2>1, <2>2 DEF Stamped
  <2> QED BY <2>1, <2>3, StampDecides
<1>8. CASE Die
  <2>1. PICK st \in {"completed", "error", "fenced"}, x \in BOOLEAN : Stamp(st, x, Ending)
    BY <1>8 DEF Die
  <2>2. att.phase = "running" /\ joining = {}
    BY <1>8 DEF Die
  <2>3. Stamped(Ending, st, x)
    BY <1>2, <1>5, <2>1, <2>2 DEF Stamped
  <2> QED BY <2>1, <2>3, StampDecides
<1>9. CASE HandOff
  <2>1. /\ att.phase = "running" /\ joining = {}
        /\ \/ CanFallBack /\ Stamp("error", TRUE, NextModel)
           \/ Compaction /\ Stamp("error", TRUE, folded)
    BY <1>9 DEF HandOff, folded
  <2>2. CASE CanFallBack /\ Stamp("error", TRUE, NextModel)
    <3>1. att.src = 0 /\ att.misses < Fallbacks /\ Fallbacks <= 1
      BY <2>2 DEF CanFallBack, HandsOverOnce
    <3>2. ~ (NextModel.misses < Fallbacks) /\ ~Compaction
      BY <1>1, <1>3, <3>1 DEF HandsOverOnce
    <3>3. PICK st \in {"completed", "error", "fenced"}, x \in BOOLEAN :
            st = "error" /\ x = TRUE /\ Stamp(st, x, NextModel)
      BY <2>2
    <3>4. Stamped(NextModel, st, x)
      BY <1>3, <1>5, <2>1, <3>1, <3>2, <3>3 DEF Stamped
    <3> QED BY <3>3, <3>4, StampDecides
  <2>3. CASE Compaction /\ Stamp("error", TRUE, folded)
    <3>1. att.src = 0 /\ ~ (folded.misses < Fallbacks)
      BY <1>1, <1>4, <1>6, <2>3 DEF HandsOverOnce
    <3>3. PICK st \in {"completed", "error", "fenced"}, x \in BOOLEAN :
            st = "error" /\ x = TRUE /\ Stamp(st, x, folded)
      BY <2>3
    <3>4. Stamped(folded, st, x)
      BY <1>4, <1>5, <2>1, <3>1, <3>3 DEF Stamped
    <3> QED BY <3>3, <3>4, StampDecides
  <2> QED BY <2>1, <2>2, <2>3
<1> QED BY <1>7, <1>8, <1>9

LEMMA RecordDecides ==
  ASSUME HandsOverOnce, WakeInv, DecideInv, NEW D \in SUBSET Events, Record(D) PROVE DecideInv'
<1>1. PICK ws, tk, wo :
        /\ Pump(ws, wo, runs, Memory(att)) /\ took' = tk
        /\ DOMAIN wakes \subseteq DOMAIN ws
        /\ \A w \in DOMAIN wakes : ws[w] = wakes[w] /\ tk[w] = took[w]
        /\ \A w \in DOMAIN ws \ DOMAIN wakes : ws[w] = Opened /\ tk[w] = {}
        /\ WakesOK(ws, tk, runs, line, unlinked \cup lost, epoch)
        /\ PlacesOK(ws, att, queue, joining, members, tk, lost)
  BY RecordedRows
<1> DEFINE mem == Memory(att)
<1>2. mem.att = att /\ mem.queue = queue /\ mem.members = members /\ mem.unlinked = {}
      /\ mem.queue \cup joining \cup mem.members \subseteq mem.admitted
  BY MemoryFacts DEF DecideInv
<1>3. Pump(ws, wo, runs, mem)
  BY <1>1
<1> HIDE DEF mem
<1>4. UNCHANGED <<epoch, joining, line, lost>>
  BY DEF Record
<1>5. WakesOK(ws, tk, runs, line, lost, epoch) /\ PlacesOK(ws, att, queue, joining, members, tk, lost)
  <2>1. unlinked \cup lost = lost
    BY DEF DecideInv
  <2> QED BY <1>1, <2>1
<1>6. ASSUME NEW w \in DOMAIN ws \ lost
      PROVE  RowDecides(ws[w], w, tk[w], runs, line, att, members, epoch)
  <2>1. CASE w \in DOMAIN wakes
    BY <1>1, <2>1 DEF DecideInv, RowsDecide
  <2>2. CASE w \notin DOMAIN wakes
    <3>1. ws[w] = Opened /\ tk[w] = {} /\ Opened.state = "pending"
      BY <1>1, <2>2 DEF Opened
    <3> QED BY <3>1 DEF RowDecides, OwnedOK, FailedOK
  <2> QED BY <2>1, <2>2
<1>7. EndsDecide(ws, lost, tk, runs, line, att, members, epoch)
  <2>1. RowsDecide(ws, lost, tk, runs, line, att, members, epoch)
    BY <1>6 DEF RowsDecide
  <2> QED BY <2>1, RowsAtEnd
<1>8. PlacesDecide(ws, att, queue, joining, members, epoch)
  <2>1. queue \cup joining \cup members \subseteq DOMAIN wakes
    BY DEF WakeInv, PlacesOK
  <2>2. \A w \in queue \cup joining \cup members : ws[w] = wakes[w]
    BY <1>1, <2>1
  <2> QED BY <2>2 DEF DecideInv, PlacesDecide
<1> QED BY <1>1, <1>2, <1>3, <1>4, <1>5, <1>7, <1>8, PumpDecides DEF WakeInv, DecideInv

\* When what ran is interrupted and no turn is left, a row that decided decides still.
LEMMA InterruptedRow ==
  ASSUME NEW rs, NEW ln, RunsOK(rs, ln), NEW row, row.run \in {0} \cup DOMAIN rs, NEW w, NEW tk,
         NEW at, NEW m, NEW ep, RowDecides(row, w, tk, rs, ln, at, m, ep)
  PROVE  RowDecides(row, w, tk, Interrupted(rs), ln, Idle, {}, ep)
<1> DEFINE rs2 == Interrupted(rs)
<1>1. Idle.phase = "idle"
  BY DEF Idle
<1>2. ASSUME NEW k \in DOMAIN rs
      PROVE  rs2[k].status # "running" /\ (rs[k].status # "running" => rs2[k] = rs[k])
             /\ (rs[k].status = "running" => rs2[k].status = "interrupted")
  <2>1. rs[k] \in Run
    BY SeqFacts DEF RunsOK
  <2> QED BY <2>1 DEF Run, RunStatus, Interrupted
<1>3. \A k : k \in Reached(tk, rs2, ln) => k \in DOMAIN rs /\ k \in Reached(tk, rs, ln)
  BY DEF Reached, Interrupted
<1> HIDE DEF rs2
<1>4. RowDecides(row, w, tk, rs2, ln, Idle, {}, ep)
  BY <1>1, <1>2, <1>3 DEF RowDecides, OwnedOK, FailedOK
<1> QED BY <1>4 DEF rs2

\* After a boot over rows that decide, the wakes of what ran wait at an interrupted run.
LEMMA BootDecides ==
  ASSUME HandsOverOnce, WakeInv, DecideInv, NEW ws, NEW rs, NEW ln, NEW tk, NEW fg,
         RunsOK(rs, ln), WakesOK(ws, tk, rs, ln, lost \cup fg, epoch),
         EndsDecide(ws, lost \cup fg, tk, Interrupted(rs), ln, Idle, {}, epoch),
         \A k \in DOMAIN rs : rs[k].status \in {"running", "interrupted"} => ~Compaction,
         Boot(ws, rs, fg), took' = tk, line' = ln
  PROVE  DecideInv'
<1> DEFINE rs2 == Interrupted(rs)
           lo == lost \cup fg
           mem == [att |-> Idle, queue |-> {}, members |-> {}, admitted |-> {}, unlinked |-> {},
                   closed |-> FALSE]
<1>1. mem.att = Idle /\ mem.queue = {} /\ mem.members = {} /\ mem.unlinked = {}
      /\ mem.queue \cup {} \cup mem.members \subseteq mem.admitted
  OBVIOUS
<1>2. Pump(ws, wakeOf, rs2, mem)
  BY DEF Boot, Interrupted
<1>3. ASSUME NEW k \in DOMAIN rs
      PROVE  rs2[k].status # "running" /\ (rs2[k].status = "interrupted" => ~Compaction)
  <2>1. rs[k] \in Run
    BY SeqFacts DEF RunsOK
  <2> QED BY <2>1 DEF Run, RunStatus, Interrupted
<1> HIDE DEF mem, rs2, lo
<1>4. RunsOK(rs2, ln) /\ WakesOK(ws, tk, rs2, ln, lo, epoch) /\ DOMAIN rs2 = DOMAIN rs
  BY InterruptedRuns DEF rs2, lo
<1>5. AttemptOK(Idle, rs2, ln, epoch)
  BY TurnTypes DEF WakeInv
<1>6. Idle.phase = "idle" /\ Idle.pred = 0 /\ Idle.src = 0 /\ Idle.epoch = 0
  BY DEF Idle
<1>7. PlacesOK(ws, Idle, {}, {}, {}, tk, lo)
  BY <1>6 DEF PlacesOK
<1>8. EndsDecide(ws, lo, tk, rs2, ln, Idle, {}, epoch)
  BY DEF rs2, lo
<1>9. PlacesDecide(ws, Idle, {}, {}, {}, epoch)
  BY <1>6 DEF PlacesDecide
<1>10. AttemptDecides(Idle, rs2, ln, {})
  BY <1>6 DEF AttemptDecides
<1>11. RunsDecide(rs2, Idle)
  BY <1>3, <1>4 DEF RunsDecide
<1>12. epoch' = epoch /\ joining' = {} /\ lost' = lo
  BY DEF Boot, lo
<1> QED BY <1>1, <1>2, <1>4, <1>5, <1>7, <1>8, <1>9, <1>10, <1>11, <1>12, PumpDecides
        DEF WakeInv, DecideInv

LEMMA CrashDecides ==
  ASSUME HandsOverOnce, WakeInv, DecideInv, Crash \/ Restart, Compaction => att.phase = "idle"
  PROVE  DecideInv'
<1>1. Boot(wakes, runs, unlinked) /\ took' = took /\ line' = line /\ unlinked = {}
  BY DEF Crash, Restart, DecideInv
<1>2. WakesOK(wakes, took, runs, line, lost \cup unlinked, epoch) /\ RunsOK(runs, line)
  <2>1. lost \cup unlinked = unlinked \cup lost
    OBVIOUS
  <2> QED BY <2>1 DEF WakeInv
<1>3. RowsDecide(wakes, lost \cup unlinked, took, Interrupted(runs), line, Idle, {}, epoch)
  <2>1. ASSUME NEW w \in DOMAIN wakes \ lost
        PROVE  RowDecides(wakes[w], w, took[w], Interrupted(runs), line, Idle, {}, epoch)
    <3>1. RowDecides(wakes[w], w, took[w], runs, line, att, members, epoch)
      BY DEF DecideInv, RowsDecide
    <3>2. wakes[w].run \in {0} \cup DOMAIN runs
      BY <1>2 DEF WakesOK, WakeOK
    <3> QED BY <1>2, <3>1, <3>2, InterruptedRow
  <2> QED BY <2>1 DEF RowsDecide
<1>4. EndsDecide(wakes, lost \cup unlinked, took, Interrupted(runs), line, Idle, {}, epoch)
  BY <1>3, RowsAtEnd
<1>5. \A k \in DOMAIN runs : runs[k].status \in {"running", "interrupted"} => ~Compaction
  BY DEF DecideInv, RunsDecide
<1> QED BY <1>1, <1>2, <1>4, <1>5, BootDecides

-----------------------------------------------------------------------------
(* The steps that link, and those that rewrite rows without a pump. *)

\* A link that the store does not refuse, of wakes that wait or are the run's already.
LEMMA Linked ==
  ASSUME NEW ws \in Seq(Wake), NEW S \in SUBSET DOMAIN ws, NEW r \in 0..MaxRuns,
         \A w \in S : ws[w].state = "claimed" /\ ws[w].run \in {0, r},
         DOMAIN took = DOMAIN ws, unlinked = {}, LinkEvents(ws, S, r, {}, {})
  PROVE  /\ DOMAIN wakes' = DOMAIN ws /\ unlinked' = {}
         /\ \A w \in S : Becomes(wakes'[w], "claimed", ws[w].epoch, r) /\ took'[w] = took[w] \cup {r}
         /\ \A w \in DOMAIN ws \ S : wakes'[w] = ws[w] /\ took'[w] = took[w]
<1> DEFINE claimed == {w \in S : Open(ws, w)}
           linked == {w \in claimed \ {} : ws[w].run \in {0, r}}
           gs == Given(ws, linked, r)
<1>1. claimed = S /\ linked = S /\ claimed \ linked = {}
  BY DEF Open
<1>2. /\ wakes' = [w \in DOMAIN gs |-> IF w \in (claimed \ linked) \ {} /\ Unowned(gs, w) THEN Fail(gs[w]) ELSE gs[w]]
      /\ unlinked' = ((unlinked \ linked) \ (claimed \ linked)) \cup ((claimed \ linked) \cap {})
      /\ took' = [w \in DOMAIN took |-> IF w \in S THEN took[w] \cup {r} ELSE took[w]]
  BY DEF LinkEvents, CloseUnlinked
<1>3. /\ DOMAIN gs = DOMAIN ws
      /\ \A w \in DOMAIN ws : gs[w] = IF w \in S THEN [ws[w] EXCEPT !.run = r, !.gated = FALSE] ELSE ws[w]
  BY <1>1 DEF Given
<1> HIDE DEF gs, claimed, linked
<1>4. wakes' = [w \in DOMAIN ws |-> gs[w]]
  BY <1>1, <1>2, <1>3
<1>5. ASSUME NEW w \in S PROVE Becomes(gs[w], "claimed", ws[w].epoch, r)
  <2>1. ws[w] \in Wake
    BY SeqFacts
  <2>2. gs[w] = [ws[w] EXCEPT !.run = r, !.gated = FALSE]
    BY <1>3
  <2>3. Becomes(gs[w], ws[w].state, ws[w].epoch, r)
    BY <2>1, <2>2, LinkRow
  <2> QED BY <2>3
<1>6. /\ unlinked' = {}
      /\ \A w \in S : took'[w] = took[w] \cup {r}
      /\ \A w \in DOMAIN ws \ S : took'[w] = took[w]
  BY <1>1, <1>2
<1>7. \A w \in DOMAIN ws : wakes'[w] = gs[w]
  BY <1>4
<1>8. DOMAIN wakes' = DOMAIN ws
  BY <1>4
<1> QED BY <1>3, <1>5, <1>6, <1>7, <1>8

\* The wakes of run r, which the attempt begins as at: what is claimed for it and what it takes over.
BegunRow(w, r, tk, new) ==
    IF w \in members \cup Moved THEN new.state = "claimed" /\ new.run = r /\ tk \subseteq took[w] \cup {r}
                                ELSE new = wakes[w] /\ tk = took[w]
Runs(at, r) == /\ at.phase = "running" /\ at.run = r /\ at.line = att.line \cup {r}
               /\ at.src = att.src /\ Carried(at) = r

\* What the attempt carries into its run.
LEMMA CarriedFacts ==
  ASSUME WakeInv, DecideInv, att.phase = "setup", att.epoch = epoch
  PROVE  LET c == Carried(att)
         IN  /\ att.src # 0 => att.pred = 0 /\ c = att.src
             /\ \A w : w \in Moved <=> w \in DOMAIN wakes /\ wakes[w].state = "claimed" /\ wakes[w].run # 0
                                       /\ wakes[w].run = c
             /\ c # 0 => att.line = line[c]
             /\ c # 0 /\ att.src = 0 => runs[c].status = "error"
             /\ \A w \in members : \/ Ready(wakes[w], epoch)
                                   \/ wakes[w].state = "claimed" /\ wakes[w].run # 0 /\ wakes[w].run = c
<1> DEFINE c == Carried(att)
<1>1. att.src # 0 => att.pred = 0 /\ c = att.src
  BY DEF DecideInv, AttemptDecides, Carried
<1>2. att.src = 0 => c = att.pred
  BY DEF Carried
<1>3. \A w : w \in Moved <=> w \in DOMAIN wakes /\ wakes[w].state = "claimed" /\ wakes[w].run # 0
                             /\ wakes[w].run = c
  <2> HIDE DEF c
  <2> QED BY <1>1, <1>2 DEF Moved, Owned, Open
<1>4. /\ c # 0 => att.line = line[c]
      /\ c # 0 /\ att.src = 0 => runs[c].status = "error"
  BY DEF DecideInv, AttemptDecides
<1>5. \A w \in members : \/ Ready(wakes[w], epoch)
                         \/ wakes[w].state = "claimed" /\ wakes[w].run # 0 /\ wakes[w].run = c
  BY DEF DecideInv, PlacesDecide
<1> HIDE DEF c
<1> QED BY <1>1, <1>3, <1>4, <1>5 DEF c

LEMMA BegunRows ==
  ASSUME WakeInv, DecideInv, att.phase = "setup", att.epoch = epoch,
         NEW r, NEW rs, NEW ln, NewRun(r, rs, ln), NEW at, Runs(at, r),
         NEW w \in DOMAIN wakes \ lost, NEW tk, NEW new, BegunRow(w, r, tk, new)
  PROVE  RowDecides(new, w, tk, rs, ln, at, members, epoch)
<1> DEFINE c == Carried(att)
           old == wakes[w]
           was == took[w]
<1>1. /\ RunsOK(rs, ln) /\ r \in DOMAIN rs /\ ln[r] = att.line \cup {r}
      /\ rs[r].status = "running"
      /\ DOMAIN rs = DOMAIN runs \cup {r} /\ r \notin DOMAIN runs
      /\ \A k \in DOMAIN runs : ln[k] = line[k]
      /\ att.src # 0 => rs[att.src].status = "resumed"
      /\ \A k \in DOMAIN runs : k # att.src => rs[k] = runs[k]
  BY DEF NewRun
<1>2. r # 0 /\ \A k \in DOMAIN runs : k # 0 /\ line[k] \subseteq DOMAIN runs
  BY <1>1 DEF RunsOK, WakeInv
<1>3. /\ at.phase = "running" /\ at.run = r /\ at.line = att.line \cup {r} /\ at.src = att.src /\ Carried(at) = r
  BY DEF Runs
<1>4. /\ att.src # 0 => c = att.src
      /\ w \in Moved <=> old.state = "claimed" /\ old.run # 0 /\ old.run = c
      /\ c # 0 => att.line = line[c]
      /\ c # 0 /\ att.src = 0 => runs[c].status = "error"
      /\ w \in members => \/ Ready(old, epoch)
                          \/ old.state = "claimed" /\ old.run # 0 /\ old.run = c
  BY CarriedFacts
<1>5. RowDecides(old, w, was, runs, line, att, members, epoch)
  BY DEF DecideInv, RowsDecide
<1>6. was \subseteq DOMAIN runs /\ old.run \in {0} \cup DOMAIN runs
  BY DEF WakeInv, WakesOK, WakeOK
<1>7. \A k \in DOMAIN runs : rs[k] = runs[k] \/ (k = att.src /\ rs[k].status = "resumed")
  BY <1>1, <1>2
<1> HIDE DEF old, was
<1>8. CASE w \in members \cup Moved
  <2>1. new.state = "claimed" /\ new.run = r /\ tk \subseteq was \cup {r}
    BY <1>8 DEF BegunRow, was
  <2>2. was = {} \/ (old.state = "claimed" /\ old.run = c /\ c # 0)
    BY <1>4, <1>5, <1>8 DEF RowDecides, Ready
  <2>3. att.src = 0 => w \in members
    <3>1. CASE w \in Moved /\ att.src = 0
      BY <1>4, <1>5, <3>1 DEF RowDecides, OwnedOK, c
    <3> QED BY <1>8, <3>1
  <2> HIDE DEF c
  <2>4. ASSUME NEW k \in Reached(tk, rs, ln), k # r
        PROVE  rs[k].status \in {"resumed", "error"}
    <3>1. k \in DOMAIN runs /\ tk \cap line[k] # {}
      BY <1>1, <2>4 DEF Reached
    <3>2. was \cap line[k] # {}
      BY <1>1, <1>2, <2>1, <3>1
    <3>3. old.state = "claimed" /\ old.run = c /\ c # 0
      BY <2>2, <3>2
    <3>4. k = c \/ runs[k].status \in {"resumed", "error"}
      BY <1>5, <3>1, <3>2, <3>3 DEF RowDecides, OwnedOK, Reached
    <3>5. CASE k = att.src
      BY <1>1, <1>2, <3>1, <3>5
    <3>6. CASE k # att.src
      <4>1. rs[k] = runs[k]
        BY <1>1, <3>1, <3>6
      <4>2. k = c => att.src = 0
        BY <1>4, <3>6
      <4> QED BY <1>4, <3>3, <3>4, <4>1, <4>2
    <3> QED BY <3>5, <3>6
  <2> QED BY <1>1, <1>2, <1>3, <2>1, <2>3, <2>4 DEF RowDecides, OwnedOK, FailedOK
<1>9. CASE w \notin members \cup Moved
  <2>1. new = old /\ tk = was
    BY <1>9 DEF BegunRow, old, was
  <2>2. \A k \in DOMAIN runs : k \in Reached(was, rs, ln) <=> k \in Reached(was, runs, line)
    BY <1>1 DEF Reached
  <2>3. r \in Reached(was, rs, ln) => was \cap att.line # {}
    BY <1>1, <1>6 DEF Reached
  <2>4. was \cap at.line # {} => was \cap att.line # {}
    BY <1>1, <1>3, <1>6
  <2>5. \A k \in Reached(was, rs, ln) : k \in DOMAIN runs \/ k = r
    BY <1>1 DEF Reached
  <2>6. ASSUME old.state = "claimed", old.run # 0
        PROVE  OwnedOK(old, w, was, rs, ln, at, members)
    <3>1. old.run # c
      BY <1>4, <1>9, <2>6
    <3>2. was \cap att.line = {}
      BY <1>5, <2>6, <3>1 DEF RowDecides, OwnedOK, c
    <3>3. old.run \in DOMAIN runs /\ old.run # r
      BY <1>1, <1>6, <2>6
    <3>4. rs[old.run] = runs[old.run]
      <4>1. old.run # att.src
        BY <1>4, <2>6, <3>1 DEF c
      <4> QED BY <1>1, <3>3, <4>1
    <3>5. \A k \in Reached(was, rs, ln) : k = old.run \/ rs[k].status \in {"resumed", "error"}
      BY <1>5, <1>7, <2>2, <2>3, <2>5, <2>6, <3>2 DEF RowDecides, OwnedOK
    <3>6. runs[old.run].status # "resumed"
      BY <1>5, <2>6 DEF RowDecides, OwnedOK
    <3> QED BY <1>3, <2>4, <3>2, <3>3, <3>4, <3>5, <3>6 DEF OwnedOK
  <2>7. ASSUME old.state = "failed"
        PROVE  FailedOK(old, was, rs, ln, at, epoch)
    <3>1. was \cap att.line = {}
      BY <1>5, <2>7 DEF RowDecides, FailedOK
    <3>2. \A k \in Reached(was, rs, ln) : rs[k].status \in {"resumed", "error", "fenced", "abandoned"}
      BY <1>5, <1>7, <2>2, <2>3, <2>5, <2>7, <3>1 DEF RowDecides, FailedOK
    <3> QED BY <1>3, <3>2 DEF FailedOK
  <2>8. old.state \in {"pending", "claimed"} /\ old.run = 0 => was = {}
    BY <1>5 DEF RowDecides
  <2> QED BY <2>1, <2>6, <2>7, <2>8 DEF RowDecides, OwnedOK, FailedOK
<1> QED BY <1>8, <1>9

\* The run that begins takes over every wake its attempt carries.
LEMMA BeginDecides == ASSUME HandsOverOnce, WakeInv, DecideInv, Begin PROVE DecideInv'
<1> DEFINE r == Len(runs) + 1
<1>1. /\ CanBegin /\ att.phase = "setup" /\ att.epoch = epoch
      /\ runs' = Begun /\ line' = Append(line, att.line \cup {r})
      /\ att' = [att EXCEPT !.phase = "running", !.run = r, !.line = @ \cup {r}]
      /\ UNCHANGED <<epoch, queue, joining, members, lost>>
  BY DEF Begin, CanBegin, Authority
<1>2. PICK bad \in SUBSET DOMAIN wakes : \E worse \in SUBSET bad :
        Refuses(bad) /\ LinkEvents(Given(wakes, Moved \ bad, r), members, r, bad, worse)
  BY DEF Begin
<1>3. bad = {}
  <2>1. faults \in 0..MaxFaults /\ Refuses(bad)
    BY <1>2 DEF WakeInv
  <2> QED BY <2>1, NoneRefused
<1>4. LinkEvents(Given(wakes, Moved, r), members, r, {}, {})
  <2>1. Moved \ bad = Moved /\ SUBSET bad = {{}}
    BY <1>3
  <2> HIDE DEF r
  <2> QED BY <1>2, <1>3, <2>1
<1>5. att \in Attempt /\ epoch \in 1..MaxEpoch
  BY DEF WakeInv, AttemptOK
<1>6. PICK rs, ln : rs = runs' /\ ln = line' /\ Begins(r, rs, ln)
  BY <1>1 DEF Begins
<1> HIDE DEF r
<1>7. NewRun(r, rs, ln)
  BY <1>1, <1>6, BegunRuns
<1>8. /\ r \in DOMAIN rs /\ ln[r] = att.line \cup {r} /\ rs[r].epoch = att.epoch /\ rs[r].status = "running"
      /\ DOMAIN rs = DOMAIN runs \cup {r} /\ r \notin DOMAIN runs /\ r \in 1..MaxRuns
      /\ \A k \in DOMAIN runs : ln[k] = line[k]
      /\ att.src # 0 => rs[att.src].status = "resumed"
      /\ \A k \in DOMAIN runs : k # att.src => rs[k] = runs[k]
  BY <1>7 DEF NewRun
<1>9. r # 0 /\ \A k \in DOMAIN runs : k # 0 /\ line[k] \subseteq DOMAIN runs
  BY <1>8 DEF RunsOK, WakeInv
<1>10. /\ att'.phase = "running" /\ att'.run = r /\ att'.line = att.line \cup {r} /\ att'.src = att.src
       /\ att'.pred = att.pred /\ att'.epoch = epoch /\ att'.misses = att.misses /\ att'.folded = att.folded
  BY <1>1, <1>5 DEF Attempt
<1>11. PICK at : at = att'
  OBVIOUS
<1>12. Runs(at, r)
  BY <1>10, <1>11 DEF Runs, Carried
<1>13. /\ wakes \in Seq(Wake) /\ DOMAIN took = DOMAIN wakes /\ members \subseteq DOMAIN wakes
       /\ \A w \in DOMAIN wakes : wakes[w] \in Wake
       /\ unlinked = {} /\ queue \cap members = {} /\ joining = {} /\ queue \subseteq DOMAIN wakes
  BY <1>1, SeqFacts DEF WakeInv, WakesOK, PlacesOK, DecideInv
<1>14. /\ \A w \in Moved : w \in DOMAIN wakes /\ wakes[w].state = "claimed" /\ wakes[w].run # 0
       /\ \A w \in members : \/ Ready(wakes[w], epoch)
                             \/ wakes[w].state = "claimed" /\ wakes[w].run # 0 /\ w \in Moved
  BY <1>1, <1>13, CarriedFacts
<1> DEFINE gs == Given(wakes, Moved, r)
<1>15. /\ DOMAIN gs = DOMAIN wakes /\ gs \in Seq(Wake)
       /\ \A w \in DOMAIN wakes \ Moved : gs[w] = wakes[w]
       /\ \A w \in Moved : Becomes(gs[w], "claimed", wakes[w].epoch, r)
  <2>1. DOMAIN gs = DOMAIN wakes
    BY DEF Given
  <2>2. \A w \in DOMAIN wakes : gs[w] = IF w \in Moved THEN [wakes[w] EXCEPT !.run = r, !.gated = FALSE]
                                        ELSE wakes[w]
    BY DEF Given
  <2> HIDE DEF gs
  <2>3. ASSUME NEW w \in DOMAIN wakes
        PROVE  gs[w] \in Wake /\ (w \in Moved => Becomes(gs[w], "claimed", wakes[w].epoch, r))
    <3>1. wakes[w] \in Wake
      BY <1>13
    <3>2. CASE w \in Moved
      <4>1. gs[w] = [wakes[w] EXCEPT !.run = r, !.gated = FALSE] /\ wakes[w].state = "claimed"
        BY <1>14, <2>2, <3>2
      <4>2. gs[w] \in Wake /\ Becomes(gs[w], wakes[w].state, wakes[w].epoch, r)
        <5>1. r \in 0..MaxRuns
          BY <1>8
        <5> QED BY <3>1, <4>1, <5>1, LinkRow
      <4> QED BY <4>1, <4>2
    <3>3. CASE w \notin Moved
      BY <2>2, <3>1, <3>3
    <3> QED BY <3>2, <3>3
  <2>4. gs \in Seq(Wake)
    BY <2>3, GivenRows DEF gs
  <2> QED BY <1>14, <2>1, <2>2, <2>3, <2>4
<1>16. ASSUME NEW w \in members PROVE gs[w].state = "claimed" /\ gs[w].run \in {0, r}
  <2>1. CASE w \in Moved
    BY <1>15, <2>1 DEF Becomes
  <2>2. CASE w \notin Moved
    BY <1>13, <1>14, <1>15, <2>2 DEF Ready
  <2> QED BY <2>1, <2>2
<1> HIDE DEF gs
<1>17. /\ DOMAIN wakes' = DOMAIN wakes /\ unlinked' = {}
       /\ \A w \in members : Becomes(wakes'[w], "claimed", gs[w].epoch, r) /\ took'[w] = took[w] \cup {r}
       /\ \A w \in DOMAIN wakes \ members : wakes'[w] = gs[w] /\ took'[w] = took[w]
  <2>1. LinkEvents(gs, members, r, {}, {})
    BY <1>4 DEF gs
  <2>2. members \in SUBSET DOMAIN gs /\ DOMAIN took = DOMAIN gs
    BY <1>13, <1>15
  <2>3. gs \in Seq(Wake) /\ unlinked = {} /\ r \in 0..MaxRuns
    BY <1>8, <1>13, <1>15
  <2>5. /\ DOMAIN wakes' = DOMAIN gs /\ unlinked' = {}
        /\ \A w \in members : Becomes(wakes'[w], "claimed", gs[w].epoch, r) /\ took'[w] = took[w] \cup {r}
        /\ \A w \in DOMAIN gs \ members : wakes'[w] = gs[w] /\ took'[w] = took[w]
    BY ONLY <2>1, <2>2, <2>3, <1>16, Linked
  <2> QED BY <1>15, <2>5
<1>18. ASSUME NEW w \in DOMAIN wakes PROVE BegunRow(w, r, took'[w], wakes'[w])
  <2>1. CASE w \in members
    BY <1>17, <2>1 DEF BegunRow, Becomes
  <2>2. CASE w \notin members
    BY <1>15, <1>17, <2>2 DEF BegunRow, Becomes
  <2> QED BY <2>1, <2>2
<1>19. ASSUME NEW w \in DOMAIN wakes \ lost
       PROVE  RowDecides(wakes'[w], w, took'[w], rs, ln, at, members, epoch)
  <2>1. PICK tk, new : tk = took'[w] /\ new = wakes'[w]
    OBVIOUS
  <2>2. BegunRow(w, r, tk, new)
    BY <1>18, <2>1
  <2>3. RowDecides(new, w, tk, rs, ln, at, members, epoch)
    BY <1>1, <1>7, <1>12, <2>2, BegunRows
  <2> QED BY <2>1, <2>3
<1>20. RowsDecide(wakes', lost', took', runs', line', att', members', epoch')
  BY <1>1, <1>6, <1>11, <1>17, <1>19 DEF RowsDecide
<1>21. PlacesDecide(wakes', att', queue', joining', members', epoch')
  <2>1. ASSUME NEW w \in queue PROVE Ready(wakes'[w], epoch)
    <3>1. Ready(wakes[w], epoch) /\ w \in DOMAIN wakes /\ w \notin members
      BY <1>13 DEF DecideInv, PlacesDecide
    <3>2. w \notin Moved
      BY <1>14, <3>1 DEF Ready
    <3>3. wakes'[w] = wakes[w]
      BY <1>15, <1>17, <3>1, <3>2
    <3> QED BY <3>1, <3>3
  <2>2. \A w \in members : wakes'[w].state = "claimed" /\ wakes'[w].run = r
    BY <1>17 DEF Becomes
  <2> QED BY <1>1, <1>10, <1>13, <2>1, <2>2 DEF PlacesDecide
<1>22. AttemptDecides(at, rs, ln, members)
  <2>1. \A k \in DOMAIN rs : r \in ln[k] => k = r
    BY <1>8, <1>9
  <2>2. rs[r].epoch = at.epoch /\ ln[r] = at.line
    BY <1>1, <1>8, <1>10, <1>11
  <2>3. /\ att.pred # 0 => att.src = 0 /\ ~ (att.misses < Fallbacks) /\ (Compaction => att.folded)
        /\ att.src # 0 => ~Compaction
    BY DEF DecideInv, AttemptDecides
  <2> QED BY <1>10, <1>11, <2>1, <2>2, <2>3 DEF AttemptDecides
<1>23. RunsDecide(rs, at)
  <2>1. ASSUME NEW k \in DOMAIN rs, k # r
        PROVE  rs[k].status # "running" /\ (rs[k].status = "interrupted" => ~Compaction)
    <3>1. k \in DOMAIN runs /\ (rs[k] = runs[k] \/ rs[k].status = "resumed")
      BY <1>8, <1>9, <2>1
    <3>2. runs[k].status # "running" /\ (runs[k].status = "interrupted" => ~Compaction)
      BY <1>1, <3>1 DEF DecideInv, RunsDecide
    <3> QED BY <3>1, <3>2
  <2> QED BY <1>8, <1>10, <1>11, <2>1 DEF RunsDecide
<1> QED BY <1>1, <1>6, <1>11, <1>17, <1>20, <1>21, <1>22, <1>23 DEF DecideInv

\* The run that a resume began is the live end of its source's chain.
LEMMA ResumedEnd ==
  ASSUME WakeInv, CanBegin, NEW r, NEW rs, NEW ln, Begins(r, rs, ln), att.src # 0
  PROVE  ChainEnd(Interrupted(rs), att.src) = r
<1>1. NewRun(r, rs, ln) /\ r = Len(runs) + 1
  BY BegunRuns DEF Begins
<1>2. /\ RunsOK(rs, ln) /\ r \in DOMAIN rs /\ DOMAIN rs = DOMAIN runs \cup {r}
      /\ rs[r].status = "running" /\ rs[r].from = att.src /\ rs[att.src].status = "resumed"
  BY <1>1 DEF NewRun
<1>3. Len(runs) \in Nat /\ \A k \in DOMAIN runs : k \in 1..Len(runs)
  BY SeqFacts DEF WakeInv, RunsOK
<1>4. att.src \in DOMAIN runs
  BY DEF WakeInv, AttemptOK
<1> DEFINE rs2 == Interrupted(rs)
           S == {k \in DOMAIN rs2 : rs2[k].from = att.src}
<1>5. RunsOK(rs2, ln) /\ DOMAIN rs2 = DOMAIN rs
  BY <1>2, InterruptedRuns
<1>6. \A k \in DOMAIN rs : rs[k] \in Run
  BY <1>2, SeqFacts DEF RunsOK
<1>7. rs2[r].status = "interrupted" /\ rs2[r].from = att.src /\ rs2[att.src].status = "resumed"
  BY <1>2, <1>4, <1>6 DEF Run, RunStatus, Interrupted
<1> HIDE DEF rs2
<1>8. S \in SUBSET (1..r) /\ r \in S /\ r \in Nat
  BY <1>1, <1>2, <1>3, <1>5, <1>7
<1>9. Successor(rs2, att.src) = r
  <2>1. Successor(rs2, att.src) = MaxOf(S)
    BY DEF Successor
  <2> HIDE DEF S
  <2>2. MaxOf(S) \in S /\ r <= MaxOf(S)
    BY <1>8, MaxOfIn
  <2>3. MaxOf(S) \in 1..r
    BY <1>8, <2>2
  <2>4. MaxOf(S) = r
    <3> HIDE DEF MaxOf
    <3> QED BY ONLY <1>8, <2>2, <2>3
  <2> QED BY <2>1, <2>4
<1>10. ChainEnd(rs2, att.src) = ChainEnd(rs2, r)
  <2>1. att.src \in DOMAIN rs2
    BY <1>2, <1>4, <1>5
  <2> QED BY <1>5, <1>7, <1>9, <2>1, ResumedChain
<1>11. ChainEnd(rs2, r) = r
  BY <1>2, <1>5, <1>7, EndOfChain
<1> QED BY <1>10, <1>11 DEF rs2

\* A crash within the begin hook: the boot takes a resumed run's wakes to the new one,
\* and the wakes of which no row names a run on its chain are lost.
LEMMA CutBeginDecides ==
  ASSUME HandsOverOnce, WakeInv, DecideInv, CrashInBegin, ~Compaction PROVE DecideInv'
<1>1. PICK D, r, rs, ln, tk, gs, fg : CutAt(D, r, rs, ln, tk, gs, fg)
  BY CutRows
<1>2. /\ D \in SUBSET (Moved \cup Loose) /\ CanBegin /\ Begins(r, rs, ln) /\ NewRun(r, rs, ln)
      /\ fg = unlinked \cup (({w \in Moved : wakes[w].run = att.pred} \cup Loose) \ D)
      /\ Boot(gs, rs, fg) /\ took' = tk /\ line' = ln
      /\ \A w \in DOMAIN wakes : tk[w] = IF w \in members THEN took[w] \cup {r} ELSE took[w]
      /\ WakesOK(gs, tk, rs, ln, lost \cup fg, epoch)
      /\ DOMAIN gs = DOMAIN wakes
      /\ \A w \in DOMAIN wakes : /\ w \notin D => gs[w] = wakes[w]
                                 /\ w \in D => /\ wakes[w].state = "claimed"
                                               /\ Becomes(gs[w], "claimed", wakes[w].epoch, r)
  BY <1>1 DEF CutAt
<1>3. att.phase = "setup" /\ att.epoch = epoch /\ att \in Attempt
  BY <1>2 DEF CanBegin, Authority, WakeInv, AttemptOK
<1>4. /\ RunsOK(rs, ln) /\ r \in DOMAIN rs /\ DOMAIN rs = DOMAIN runs \cup {r} /\ r \in 1..MaxRuns
      /\ att.src # 0 => rs[att.src].status = "resumed"
  BY <1>2 DEF NewRun
<1> DEFINE at == [att EXCEPT !.phase = "running", !.run = r, !.line = @ \cup {r}]
<1>5. PICK now : now = at
  OBVIOUS
<1>6. Runs(now, r)
  BY <1>3, <1>5 DEF Runs, Carried, Attempt
<1> HIDE DEF at
<1>7. /\ \A w \in Moved : /\ w \in DOMAIN wakes /\ wakes[w].state = "claimed"
                          /\ wakes[w].run # 0 /\ wakes[w].run \in {att.src, att.pred}
      /\ \A w \in members : w \in Moved \cup Loose
      /\ Loose \subseteq members /\ members \subseteq DOMAIN wakes
  <2>1. members \subseteq DOMAIN wakes
    BY DEF WakeInv, PlacesOK
  <2>2. \A w \in members : w \in Moved \/ Ready(wakes[w], epoch)
    BY <1>3, <2>1, CarriedFacts
  <2> QED BY <2>1, <2>2 DEF Moved, Loose, Owned, Unowned, Open, Ready
<1>8. \A w \in DOMAIN wakes : wakes[w] \in Wake
  BY SeqFacts DEF WakeInv, WakesOK
<1> DEFINE rs2 == Interrupted(rs)
<1>9. ASSUME NEW w \in DOMAIN wakes \ (lost \cup fg)
      PROVE  RowDecides(AtEnd(gs[w], rs2), w, tk[w], rs2, ln, Idle, {}, epoch)
  <2>1. ASSUME NEW new, BegunRow(w, r, tk[w], new), new.run \in {0} \cup DOMAIN rs
        PROVE  RowDecides(new, w, tk[w], rs2, ln, Idle, {}, epoch) /\ AtEnd(new, rs2) = new
    <3>1. PICK t : t = tk[w]
      OBVIOUS
    <3>2. RowDecides(new, w, t, rs, ln, now, members, epoch)
      BY <1>2, <1>3, <1>6, <2>1, <3>1, BegunRows
    <3>3. RowDecides(new, w, t, rs2, ln, Idle, {}, epoch)
      BY <1>4, <2>1, <3>2, InterruptedRow
    <3> HIDE DEF rs2
    <3>4. AtEnd(new, rs2) = new
      BY <3>3 DEF AtEnd, RowDecides, OwnedOK
    <3> QED BY <3>1, <3>3, <3>4
  <2>2. tk[w] = IF w \in members THEN took[w] \cup {r} ELSE took[w]
    BY <1>2
  <2> HIDE DEF rs2
  <2>3. CASE w \in D
    <3>1. gs[w].state = "claimed" /\ gs[w].run = r /\ w \in members \cup Moved
      BY <1>2, <1>7, <2>3 DEF Becomes
    <3>2. BegunRow(w, r, tk[w], gs[w])
      BY <2>2, <3>1 DEF BegunRow
    <3> QED BY <1>4, <2>1, <3>1, <3>2
  <2>4. CASE w \notin D /\ w \in members \cup Moved
    <3>1. w \in Moved /\ wakes[w].run = att.src /\ att.src # 0 /\ wakes[w].state = "claimed"
      BY <1>2, <1>7, <2>4
    <3>2. gs[w] = wakes[w] /\ wakes[w] \in Wake
      BY <1>2, <1>8, <2>4
    <3>3. ChainEnd(rs2, att.src) = r
      BY <1>2, <3>1, ResumedEnd DEF rs2
    <3>4. rs2[att.src].status = "resumed"
      <4>1. att.src \in DOMAIN rs
        BY <1>4, <3>1 DEF WakeInv, AttemptOK
      <4> QED BY <1>4, <3>1, <4>1 DEF rs2, Interrupted
    <3>5. PICK new : new = [wakes[w] EXCEPT !.run = r]
      OBVIOUS
    <3>6. new = AtEnd(gs[w], rs2)
      BY <3>1, <3>2, <3>3, <3>4, <3>5 DEF AtEnd
    <3>7. new.state = "claimed" /\ new.run = r
      BY <3>1, <3>2, <3>5 DEF Wake
    <3>8. BegunRow(w, r, tk[w], new)
      BY <2>2, <2>4, <3>7 DEF BegunRow
    <3>9. RowDecides(new, w, tk[w], rs2, ln, Idle, {}, epoch)
      BY <1>4, <2>1, <3>7, <3>8
    <3> QED BY <3>6, <3>9
  <2>5. CASE w \notin members \cup Moved
    <3>1. gs[w] = wakes[w] /\ tk[w] = took[w]
      BY <1>2, <1>7, <2>2, <2>5
    <3>2. wakes[w].run \in {0} \cup DOMAIN rs
      BY <1>4 DEF WakeInv, WakesOK, WakeOK
    <3>3. BegunRow(w, r, tk[w], wakes[w])
      BY <2>5, <3>1 DEF BegunRow
    <3> QED BY <2>1, <3>1, <3>2, <3>3
  <2> QED BY <2>3, <2>4, <2>5
<1>10. EndsDecide(gs, lost \cup fg, tk, rs2, ln, Idle, {}, epoch)
  BY <1>2, <1>9 DEF EndsDecide
<1> QED BY <1>2, <1>4, <1>10, BootDecides

\* A crash among the closures of a death before the run.
LEMMA CutDeathDecides ==
  ASSUME HandsOverOnce, WakeInv, DecideInv, CrashInDeath, ~Compaction PROVE DecideInv'
<1>1. PICK D, fs : /\ D \in SUBSET Loose
                   /\ fs = [w \in DOMAIN wakes |-> IF w \in D THEN Fail(wakes[w]) ELSE wakes[w]]
                   /\ WakesOK(fs, took, runs, line, lost \cup unlinked, epoch)
                   /\ Boot(fs, runs, unlinked) /\ took' = took /\ line' = line
  BY CutDeathRows
<1>2. /\ wakes \in Seq(Wake) /\ \A w \in DOMAIN wakes : wakes[w] \in Wake
      /\ RunsOK(runs, line) /\ DOMAIN fs = DOMAIN wakes
  BY <1>1, SeqFacts DEF WakeInv, WakesOK
<1>3. ASSUME NEW w \in DOMAIN fs \ (lost \cup unlinked)
      PROVE  RowDecides(fs[w], w, took[w], Interrupted(runs), line, Idle, {}, epoch)
  <2>1. RowDecides(wakes[w], w, took[w], runs, line, att, members, epoch)
    BY <1>2 DEF DecideInv, RowsDecide
  <2>2. wakes[w].run \in {0} \cup DOMAIN runs
    BY <1>2 DEF WakeInv, WakesOK, WakeOK
  <2>3. RowDecides(wakes[w], w, took[w], Interrupted(runs), line, Idle, {}, epoch)
    BY <1>2, <2>1, <2>2, InterruptedRow
  <2>4. CASE w \in D
    <3>1. wakes[w].state = "claimed" /\ wakes[w].run = 0 /\ wakes[w] \in Wake
      BY <1>1, <1>2, <2>4 DEF Loose, Unowned, Open
    <3>2. fs[w] = [wakes[w] EXCEPT !.state = "failed"]
      BY <1>1, <1>2, <2>4 DEF Fail
    <3>3. fs[w].state = "failed"
      BY <3>1, <3>2 DEF Wake
    <3>4. took[w] = {}
      BY <2>1, <3>1 DEF RowDecides
    <3> QED BY <3>3, <3>4 DEF RowDecides, OwnedOK, FailedOK, Reached
  <2>5. CASE w \notin D
    BY <1>1, <1>2, <2>3, <2>5
  <2> QED BY <2>4, <2>5
<1>4. EndsDecide(fs, lost \cup unlinked, took, Interrupted(runs), line, Idle, {}, epoch)
  <2>1. RowsDecide(fs, lost \cup unlinked, took, Interrupted(runs), line, Idle, {}, epoch)
    BY <1>3 DEF RowsDecide
  <2> QED BY <2>1, RowsAtEnd
<1> QED BY <1>1, <1>2, <1>4, BootDecides

LEMMA JoinDecides == ASSUME HandsOverOnce, WakeInv, DecideInv, JoinSteers PROVE DecideInv'
<1> DEFINE r == att.run
<1>1. /\ joining # {} /\ joining' = {}
      /\ UNCHANGED <<runs, epoch, queue, att, line, lost>>
  BY DEF JoinSteers
<1>2. /\ joining \subseteq DOMAIN wakes /\ queue \subseteq DOMAIN wakes /\ members \subseteq DOMAIN wakes
      /\ queue \cap joining = {} /\ joining \cap members = {} /\ att.phase = "running"
  BY <1>1 DEF WakeInv, PlacesOK
<1>3. /\ r \in DOMAIN runs /\ r # 0 /\ r \in 0..MaxRuns /\ runs[r].status = "running" /\ Carried(att) = r
      /\ \A k \in DOMAIN runs : r \in line[k] => k = r
  BY <1>2 DEF WakeInv, AttemptOK, RunsOK, DecideInv, AttemptDecides, Carried
<1>4. wakes \in Seq(Wake) /\ DOMAIN took = DOMAIN wakes /\ unlinked = {}
  BY DEF WakeInv, WakesOK, DecideInv
<1>5. ASSUME NEW w \in DOMAIN wakes \ lost PROVE RowDecides(wakes[w], w, took[w], runs, line, att, members, epoch)
  BY DEF DecideInv, RowsDecide
<1>6. CASE ~Authority /\ UNCHANGED <<wakes, unlinked, faults, members, took>>
  <2>1. PlacesDecide(wakes, att, queue, {}, members, epoch)
    BY DEF DecideInv, PlacesDecide
  <2> QED BY <1>1, <1>6, <2>1 DEF DecideInv
<1>7. CASE /\ Authority /\ members' = members \cup joining
           /\ \E bad \in SUBSET joining : \E worse \in SUBSET bad :
                 Refuses(bad) /\ LinkEvents(wakes, joining, att.run, bad, worse)
  <2>1. PICK bad \in SUBSET joining : \E worse \in SUBSET bad :
          Refuses(bad) /\ LinkEvents(wakes, joining, r, bad, worse)
    BY <1>7
  <2> HIDE DEF r
  <2>2. bad = {}
    <3>1. faults \in 0..MaxFaults /\ Refuses(bad)
      BY <2>1 DEF WakeInv
    <3> QED BY <3>1, NoneRefused
  <2>3. LinkEvents(wakes, joining, r, {}, {})
    <3>1. SUBSET bad = {{}}
      BY <2>2
    <3> QED BY <2>1, <2>2, <3>1
  <2>4. \A w \in joining : Ready(wakes[w], epoch)
    BY <1>7 DEF DecideInv, PlacesDecide, Authority
  <2>5. \A w \in joining : wakes[w].state = "claimed" /\ wakes[w].run \in {0, r}
    BY <2>4 DEF Ready
  <2>6. /\ DOMAIN wakes' = DOMAIN wakes /\ unlinked' = {}
        /\ \A w \in joining : Becomes(wakes'[w], "claimed", wakes[w].epoch, r) /\ took'[w] = took[w] \cup {r}
        /\ \A w \in DOMAIN wakes \ joining : wakes'[w] = wakes[w] /\ took'[w] = took[w]
    <3>1. joining \in SUBSET DOMAIN wakes /\ r \in 0..MaxRuns
      BY <1>2, <1>3
    <3> QED BY ONLY <1>4, <2>3, <2>5, <3>1, Linked
  <2>7. ASSUME NEW w \in DOMAIN wakes \ lost
        PROVE  RowDecides(wakes'[w], w, took'[w], runs, line, att, members', epoch)
    <3>1. CASE w \in joining
      <4>1. took[w] = {}
        BY <1>5, <2>4, <3>1 DEF Ready, RowDecides
      <4>2. wakes'[w].state = "claimed" /\ wakes'[w].run = r /\ took'[w] = {r} /\ w \in members'
        BY <1>7, <2>6, <3>1, <4>1 DEF Becomes
      <4>3. \A k \in Reached(took'[w], runs, line) : k = r
        BY <1>3, <4>2 DEF Reached
      <4> QED BY <1>3, <4>2, <4>3 DEF RowDecides, OwnedOK, FailedOK
    <3>2. CASE w \notin joining
      <4>1. wakes'[w] = wakes[w] /\ took'[w] = took[w]
        BY <2>6, <3>2
      <4> QED BY <1>5, <1>7, <4>1 DEF RowDecides, OwnedOK, FailedOK
    <3> QED BY <3>1, <3>2
  <2>8. RowsDecide(wakes', lost, took', runs, line, att, members', epoch)
    BY <2>6, <2>7 DEF RowsDecide
  <2>9. PlacesDecide(wakes', att, queue, {}, members', epoch)
    <3>1. \A w \in queue : wakes'[w] = wakes[w]
      BY <1>2, <2>6
    <3>2. \A w \in joining : wakes'[w].state = "claimed" /\ wakes'[w].run = r
      BY <2>6 DEF Becomes
    <3>3. \A w \in members : wakes'[w] = wakes[w]
      BY <1>2, <2>6
    <3> QED BY <1>2, <1>7, <3>1, <3>2, <3>3 DEF DecideInv, PlacesDecide, r
  <2>10. AttemptDecides(att, runs, line, members')
    BY <1>2 DEF DecideInv, AttemptDecides
  <2> QED BY <1>1, <2>6, <2>8, <2>9, <2>10 DEF DecideInv
<1> QED BY <1>6, <1>7 DEF JoinSteers

\* What a death before the run closes was taken by none.
LEMMA DeathDecides == ASSUME HandsOverOnce, WakeInv, DecideInv, DieBeforeRun PROVE DecideInv'
<1> DEFINE S == {w \in members : Unowned(wakes, w)}
<1>1. /\ att.phase = "setup" /\ att' = [att EXCEPT !.phase = "over"]
      /\ UNCHANGED <<runs, epoch, queue, joining, members, took, line, lost>>
  BY DEF DieBeforeRun, Ending, history
<1>2. PICK bad \in SUBSET members :
        /\ Refuses(bad)
        /\ wakes' = [w \in DOMAIN wakes |-> IF w \in S \ bad /\ Unowned(wakes, w) THEN Fail(wakes[w]) ELSE wakes[w]]
        /\ unlinked' = (unlinked \ S) \cup (S \cap bad)
  BY DEF DieBeforeRun, CloseUnlinked, Loose
<1>3. bad = {}
  <2>1. faults \in 0..MaxFaults /\ Refuses(bad)
    BY <1>2 DEF WakeInv
  <2> QED BY <2>1, NoneRefused
<1>4. /\ att'.phase = "over" /\ att'.epoch = att.epoch /\ att'.line = att.line
      /\ att'.run = att.run /\ att'.pred = att.pred /\ att'.src = att.src
      /\ att'.misses = att.misses /\ att'.folded = att.folded
  <2>1. att \in Attempt
    BY DEF WakeInv, AttemptOK
  <2> QED BY <1>1, <2>1 DEF Attempt
<1>5. joining = {} /\ queue \cap members = {} /\ queue \subseteq DOMAIN wakes
  BY <1>1 DEF WakeInv, PlacesOK
<1>6. DOMAIN wakes' = DOMAIN wakes /\ unlinked' = {}
  BY <1>2, <1>3 DEF DecideInv
<1>7. ASSUME NEW w \in DOMAIN wakes
      PROVE  \/ w \notin S /\ wakes'[w] = wakes[w]
             \/ w \in S /\ wakes[w].state = "claimed" /\ wakes[w].run = 0 /\ wakes'[w].state = "failed"
  <2>1. CASE w \in S
    <3>1. wakes[w] \in Wake
      BY SeqFacts DEF WakeInv, WakesOK
    <3>2. wakes'[w] = [wakes[w] EXCEPT !.state = "failed"]
      BY <1>2, <1>3, <2>1 DEF Fail
    <3> QED BY <2>1, <3>1, <3>2 DEF Wake, Unowned, Open
  <2>2. CASE w \notin S
    BY <1>2, <2>2
  <2> QED BY <2>1, <2>2
<1> HIDE DEF S
<1>8. ASSUME NEW w \in DOMAIN wakes \ lost
      PROVE  RowDecides(wakes'[w], w, took[w], runs, line, att', members, epoch)
  <2>1. RowDecides(wakes[w], w, took[w], runs, line, att, members, epoch)
    BY DEF DecideInv, RowsDecide
  <2>2. CASE wakes'[w] = wakes[w]
    BY <1>4, <2>1, <2>2 DEF RowDecides, OwnedOK, FailedOK
  <2>3. CASE wakes[w].state = "claimed" /\ wakes[w].run = 0 /\ wakes'[w].state = "failed"
    <3>1. took[w] = {}
      BY <2>1, <2>3 DEF RowDecides
    <3> QED BY <2>3, <3>1 DEF RowDecides, OwnedOK, FailedOK, Reached
  <2> QED BY <1>7, <2>2, <2>3
<1>9. RowsDecide(wakes', lost, took, runs, line, att', members, epoch)
  BY <1>6, <1>8 DEF RowsDecide
<1>10. PlacesDecide(wakes', att', queue, joining, members, epoch)
  <2>1. \A w \in queue : wakes'[w] = wakes[w]
    BY <1>5, <1>7 DEF S
  <2> QED BY <1>4, <1>5, <2>1 DEF DecideInv, PlacesDecide
<1>11. AttemptDecides(att', runs, line, members) /\ RunsDecide(runs, att')
  BY <1>1, <1>4 DEF DecideInv, AttemptDecides, RunsDecide
<1> QED BY <1>1, <1>6, <1>9, <1>10, <1>11 DEF DecideInv

LEMMA GateDecides == ASSUME WakeInv, DecideInv, GateOpens PROVE DecideInv'
<1> DEFINE row(w) == [wakes[w] EXCEPT !.gated = FALSE]
<1>1. /\ wakes' = [w \in DOMAIN wakes |-> row(w)]
      /\ UNCHANGED <<runs, epoch, queue, joining, members, att, unlinked, took, line, lost>>
  BY DEF GateOpens, lane, history
<1>2. \A w \in DOMAIN wakes : Becomes(row(w), wakes[w].state, wakes[w].epoch, wakes[w].run)
  <2>1. \A w \in DOMAIN wakes : wakes[w] \in Wake
    BY SeqFacts DEF WakeInv, WakesOK
  <2> QED BY <2>1, GatedRow
<1> HIDE DEF row
<1>3. DOMAIN wakes' = DOMAIN wakes
      /\ \A w \in DOMAIN wakes : /\ wakes'[w].state = wakes[w].state /\ wakes'[w].epoch = wakes[w].epoch
                                 /\ wakes'[w].run = wakes[w].run
  BY <1>1, <1>2 DEF Becomes
<1>4. RowsDecide(wakes', lost, took, runs, line, att, members, epoch)
  <2>1. ASSUME NEW w \in DOMAIN wakes \ lost
        PROVE  RowDecides(wakes'[w], w, took[w], runs, line, att, members, epoch)
    <3>1. RowDecides(wakes[w], w, took[w], runs, line, att, members, epoch)
      BY DEF DecideInv, RowsDecide
    <3> QED BY <1>3, <3>1 DEF RowDecides, OwnedOK, FailedOK
  <2> QED BY <1>3, <2>1 DEF RowsDecide
<1>5. PlacesDecide(wakes', att, queue, joining, members, epoch)
  <2>1. queue \cup joining \cup members \subseteq DOMAIN wakes
    BY DEF WakeInv, PlacesOK
  <2> QED BY <1>3, <2>1 DEF DecideInv, PlacesDecide, Ready
<1> QED BY <1>1, <1>4, <1>5 DEF DecideInv

-----------------------------------------------------------------------------
(* The steps that move wakes between the places of the lane, or revoke authority. *)

\* What has to be shown of a step that changes neither rows nor runs.
LEMMA MovesDecide ==
  ASSUME DecideInv, UNCHANGED <<wakes, runs, took, line, lost, unlinked>>,
         \A w \in DOMAIN wakes \ lost :
             /\ OwnedOK(wakes[w], w, took[w], runs, line, att', members')
             /\ FailedOK(wakes[w], took[w], runs, line, att', epoch'),
         PlacesDecide(wakes, att', queue', joining', members', epoch'),
         AttemptDecides(att', runs, line, members'), RunsDecide(runs, att')
  PROVE  DecideInv'
<1>1. \A w \in DOMAIN wakes \ lost : RowDecides(wakes[w], w, took[w], runs, line, att', members', epoch')
  BY DEF DecideInv, RowsDecide, RowDecides
<1> QED BY <1>1 DEF DecideInv, RowsDecide

LEMMA TurnDecides == ASSUME WakeInv, DecideInv, ClaimQueue \/ OperatorTurn PROVE DecideInv'
<1>1. PICK S \in SUBSET queue : StartTurn(S)
  BY DEF ClaimQueue, OperatorTurn
<1>2. /\ att.phase = "idle" /\ members' = S /\ queue' = queue \ S /\ att' = FreshTurn
      /\ UNCHANGED <<wakes, runs, epoch, joining, unlinked, took, line, lost>>
  BY <1>1 DEF StartTurn, rows, history
<1>3. /\ att'.phase = "setup" /\ att'.line = {} /\ att'.src = 0 /\ att'.pred = 0
      /\ att'.run = 0 /\ Carried(att') = 0
  BY <1>2 DEF FreshTurn, Idle, Carried
<1>4. joining = {}
  BY <1>2 DEF WakeInv, PlacesOK
<1>5. ASSUME NEW w \in DOMAIN wakes \ lost
      PROVE  /\ OwnedOK(wakes[w], w, took[w], runs, line, att', members')
             /\ FailedOK(wakes[w], took[w], runs, line, att', epoch')
  <2>1. RowDecides(wakes[w], w, took[w], runs, line, att, members, epoch)
    BY DEF DecideInv, RowsDecide
  <2> QED BY <1>3, <2>1 DEF RowDecides, OwnedOK, FailedOK
<1>6. PlacesDecide(wakes, att', queue', joining', members', epoch')
  BY <1>1, <1>2, <1>3, <1>4 DEF DecideInv, PlacesDecide
<1>7. AttemptDecides(att', runs, line, members') /\ RunsDecide(runs, att')
  BY <1>2, <1>3 DEF DecideInv, AttemptDecides, RunsDecide
<1> QED BY <1>2, <1>5, <1>6, <1>7, MovesDecide

LEMMA SteersDecide == ASSUME WakeInv, DecideInv, ClaimSteers PROVE DecideInv'
<1>1. PICK S \in SUBSET queue : joining' = S /\ queue' = queue \ S
  BY DEF ClaimSteers
<1>2. UNCHANGED <<wakes, runs, epoch, members, att, unlinked, took, line, lost>>
  BY DEF ClaimSteers, rows, history
<1>3. PlacesDecide(wakes, att, queue', joining', members, epoch)
  BY <1>1, <1>2 DEF DecideInv, PlacesDecide
<1> QED BY <1>2, <1>3 DEF DecideInv

\* The attempt's own steps.
LEMMA AttemptMoves ==
  ASSUME WakeInv, DecideInv, Land \/ TurnOver \/ FallBackBeforeRun \/ NextAttempt, HandsOverOnce
  PROVE  DecideInv'
<1>0. att \in Attempt /\ {att.misses, Fallbacks} \subseteq Nat
  BY WakeAssumption DEF WakeInv, AttemptOK, Attempt
<1>1. UNCHANGED <<wakes, runs, epoch, joining, unlinked, took, line, lost>>
  BY DEF Land, TurnOver, FallBackBeforeRun, NextAttempt, rows, history
<1>2. ASSUME NEW w \in DOMAIN wakes \ lost
      PROVE  RowDecides(wakes[w], w, took[w], runs, line, att, members, epoch)
  BY DEF DecideInv, RowsDecide
<1>3. CASE Land
  <2>1. /\ att.phase = "running" /\ joining = {} /\ members' = {} /\ queue' = queue
        /\ att'.phase = "landed" /\ att'.epoch = att.epoch /\ att'.line = att.line
        /\ att'.run = att.run /\ att'.pred = att.pred /\ att'.src = att.src
        /\ att'.misses = att.misses /\ att'.folded = att.folded
    BY <1>0, <1>3 DEF Land, Attempt
  <2>2. Carried(att') = Carried(att)
    BY <2>1 DEF Carried
  <2>3. \A w \in DOMAIN wakes \ lost : /\ OwnedOK(wakes[w], w, took[w], runs, line, att', members')
                                       /\ FailedOK(wakes[w], took[w], runs, line, att', epoch')
    BY <1>1, <1>2, <2>1, <2>2 DEF RowDecides, OwnedOK, FailedOK
  <2>4. PlacesDecide(wakes, att', queue', joining', members', epoch')
    BY <1>1, <2>1 DEF DecideInv, PlacesDecide
  <2>5. AttemptDecides(att', runs, line, members') /\ RunsDecide(runs, att')
    BY <2>1 DEF DecideInv, AttemptDecides, RunsDecide
  <2> QED BY <1>1, <2>3, <2>4, <2>5, MovesDecide
<1>4. CASE TurnOver
  <2>1. /\ att.phase = "over" /\ att' = Idle /\ members' = {} /\ queue' = queue
        /\ Idle.phase = "idle" /\ Idle.src = 0 /\ Idle.pred = 0
    BY <1>4 DEF TurnOver, Idle
  <2>2. \A w \in DOMAIN wakes \ lost : /\ OwnedOK(wakes[w], w, took[w], runs, line, att', members')
                                       /\ FailedOK(wakes[w], took[w], runs, line, att', epoch')
    BY <1>2, <2>1 DEF RowDecides, OwnedOK, FailedOK
  <2>3. joining = {}
    BY <2>1 DEF WakeInv, PlacesOK
  <2>4. PlacesDecide(wakes, att', queue', joining', members', epoch')
    BY <1>1, <2>1, <2>3 DEF DecideInv, PlacesDecide
  <2>5. AttemptDecides(att', runs, line, members') /\ RunsDecide(runs, att')
    BY <2>1 DEF DecideInv, AttemptDecides, RunsDecide
  <2> QED BY <1>1, <2>2, <2>4, <2>5, MovesDecide
<1>5. CASE FallBackBeforeRun
  <2>1. /\ att.phase = "setup" /\ att.src = 0 /\ att.misses < Fallbacks
        /\ members' = members /\ queue' = queue
    BY <1>5 DEF FallBackBeforeRun, CanFallBack
  <2>2. att.pred = 0 /\ ~Compaction /\ Fallbacks <= 1
    BY <1>0, <2>1 DEF DecideInv, AttemptDecides, HandsOverOnce
  <2>3. /\ att'.phase = "between" /\ att'.epoch = att.epoch /\ att'.line = att.line
        /\ att'.run = att.run /\ att'.pred = 0 /\ att'.src = 0
        /\ att'.misses = att.misses + 1 /\ att'.folded = att.folded
    <3>1. att' = [att EXCEPT !.phase = "between", !.misses = @ + 1]
      BY <1>5 DEF FallBackBeforeRun, NextModel
    <3> QED BY <1>0, <2>1, <2>2, <3>1 DEF Attempt
  <2>4. att.run = 0
    BY <2>1 DEF DecideInv, AttemptDecides
  <2>5. Carried(att) = 0 /\ Carried(att') = 0 /\ att.line = {}
    BY <2>1, <2>2, <2>3, <2>4 DEF Carried, DecideInv, AttemptDecides
  <2>6. ~ (att'.misses < Fallbacks)
    BY <1>0, <2>2, <2>3
  <2>7. \A w \in DOMAIN wakes \ lost : /\ OwnedOK(wakes[w], w, took[w], runs, line, att', members')
                                       /\ FailedOK(wakes[w], took[w], runs, line, att', epoch')
    BY <1>1, <1>2, <2>1, <2>3, <2>5 DEF RowDecides, OwnedOK, FailedOK
  <2>8. PlacesDecide(wakes, att', queue', joining', members', epoch')
    BY <1>1, <2>1, <2>3, <2>5 DEF DecideInv, PlacesDecide
  <2>9. AttemptDecides(att', runs, line, members') /\ RunsDecide(runs, att')
    BY <2>1, <2>2, <2>3, <2>5, <2>6 DEF DecideInv, AttemptDecides, RunsDecide
  <2> QED BY <1>1, <2>7, <2>8, <2>9, MovesDecide
<1>6. CASE NextAttempt
  <2>1. PICK S \in SUBSET queue : members' = members \cup S /\ queue' = queue \ S
    BY <1>6 DEF NextAttempt
  <2>2. att.phase = "between" /\ att' = [att EXCEPT !.phase = "setup", !.pred = att.run, !.run = 0]
    BY <1>6 DEF NextAttempt
  <2>3. /\ att'.phase = "setup" /\ att'.epoch = att.epoch /\ att'.line = att.line /\ att'.run = 0
        /\ att'.pred = att.run /\ att'.src = att.src /\ att'.misses = att.misses /\ att'.folded = att.folded
    BY <1>0, <2>2 DEF Attempt
  <2>4. att.src = 0 /\ ~ (att.misses < Fallbacks) /\ (Compaction => att.folded)
    BY <2>2 DEF DecideInv, AttemptDecides
  <2>5. Carried(att') = Carried(att)
    BY <2>2, <2>3, <2>4 DEF Carried
  <2>6. joining = {}
    BY <2>2 DEF WakeInv, PlacesOK
  <2>7. \A w \in DOMAIN wakes \ lost : /\ OwnedOK(wakes[w], w, took[w], runs, line, att', members')
                                       /\ FailedOK(wakes[w], took[w], runs, line, att', epoch')
    BY <1>1, <1>2, <2>1, <2>2, <2>3, <2>5 DEF RowDecides, OwnedOK, FailedOK
  <2>8. PlacesDecide(wakes, att', queue', joining', members', epoch')
    BY <1>1, <2>1, <2>2, <2>3, <2>5, <2>6 DEF DecideInv, PlacesDecide
  <2>9. AttemptDecides(att', runs, line, members') /\ RunsDecide(runs, att')
    BY <2>2, <2>3, <2>4, <2>5 DEF DecideInv, AttemptDecides, RunsDecide
  <2> QED BY <1>1, <2>7, <2>8, <2>9, MovesDecide
<1> QED BY <1>3, <1>4, <1>5, <1>6

\* No attempt has authority after a stop, and nothing waits.
LEMMA StopDecides == ASSUME WakeInv, DecideInv, StopLane PROVE DecideInv'
<1>1. /\ epoch' = epoch + 1 /\ queue' = {}
      /\ UNCHANGED <<wakes, runs, joining, members, att, unlinked, took, line, lost>>
  BY DEF StopLane
<1>2. att.epoch # epoch'
  BY <1>1 DEF WakeInv, AttemptOK, Attempt
<1>3. \A w \in DOMAIN wakes \ lost : /\ OwnedOK(wakes[w], w, took[w], runs, line, att', members')
                                     /\ FailedOK(wakes[w], took[w], runs, line, att', epoch')
  BY <1>1, <1>2 DEF DecideInv, RowsDecide, RowDecides, OwnedOK, FailedOK
<1>4. PlacesDecide(wakes, att', queue', joining', members', epoch')
  BY <1>1, <1>2 DEF PlacesDecide
<1> QED BY <1>1, <1>3, <1>4, MovesDecide DEF DecideInv

\* The attempt that resumes an interrupted run carries the wakes of that run.
LEMMA ResumeDecides ==
  ASSUME WakeInv, DecideInv, NEW r \in DOMAIN runs, Resume(r) PROVE DecideInv'
<1>1. /\ runs[r].status = "interrupted" /\ att.phase = "idle" /\ queue = {}
      /\ att' = [FreshTurn EXCEPT !.src = r, !.line = line[r]]
      /\ UNCHANGED <<wakes, runs, epoch, queue, joining, members, unlinked, took, line, lost>>
  BY DEF Resume, Busy, rows, history
<1>2. /\ att'.phase = "setup" /\ att'.line = line[r] /\ att'.pred = 0 /\ att'.src = r
      /\ att'.run = 0
  BY <1>1 DEF FreshTurn, Idle
<1>3. r # 0 /\ Carried(att') = r
  BY <1>2 DEF WakeInv, RunsOK, Carried
<1>4. members = {} /\ joining = {}
  BY <1>1 DEF WakeInv, PlacesOK
<1>5. ~Compaction
  BY <1>1 DEF DecideInv, RunsDecide
<1>6. ASSUME NEW w \in DOMAIN wakes \ lost
      PROVE  /\ OwnedOK(wakes[w], w, took[w], runs, line, att', members')
             /\ FailedOK(wakes[w], took[w], runs, line, att', epoch')
  <2>1. RowDecides(wakes[w], w, took[w], runs, line, att, members, epoch)
    BY DEF DecideInv, RowsDecide
  <2>2. took[w] \cap att'.line # {} => r \in Reached(took[w], runs, line)
    BY <1>2 DEF Reached
  <2> QED BY <1>1, <1>2, <1>3, <2>1, <2>2 DEF RowDecides, OwnedOK, FailedOK
<1>7. PlacesDecide(wakes, att', queue', joining', members', epoch')
  BY <1>1, <1>4 DEF PlacesDecide
<1>8. AttemptDecides(att', runs, line, members')
  BY <1>1, <1>2, <1>3, <1>4, <1>5 DEF AttemptDecides
<1>9. RunsDecide(runs, att')
  BY <1>1 DEF DecideInv, RunsDecide
<1> QED BY <1>1, <1>6, <1>7, <1>8, <1>9, MovesDecide

LEMMA AbandonDecides ==
  ASSUME WakeInv, DecideInv, NEW r \in DOMAIN runs, Abandon(r) PROVE DecideInv'
<1> DEFINE row == [runs[r] EXCEPT !.status = "abandoned"]
<1>1. /\ runs[r].status = "interrupted" /\ att.src # r
      /\ runs' = [runs EXCEPT ![r] = row]
      /\ UNCHANGED <<wakes, epoch, queue, joining, members, att, unlinked, took, line, lost>>
  BY DEF Abandon, lane, history
<1>2. runs \in Seq(Run) /\ runs[r] \in Run
  BY SeqFacts DEF WakeInv, RunsOK
<1>3. row.status = "abandoned"
  BY <1>2 DEF Run
<1> HIDE DEF row
<1>4. DOMAIN runs' = DOMAIN runs /\ runs'[r] = row /\ \A k \in DOMAIN runs : k # r => runs'[k] = runs[k]
  BY <1>1
<1>5. ASSUME NEW w \in DOMAIN wakes \ lost
      PROVE  RowDecides(wakes[w], w, took[w], runs', line, att, members, epoch)
  <2>1. RowDecides(wakes[w], w, took[w], runs, line, att, members, epoch)
    BY DEF DecideInv, RowsDecide
  <2>2. Reached(took[w], runs', line) = Reached(took[w], runs, line)
        /\ Reached(took[w], runs, line) \subseteq DOMAIN runs
    BY <1>4 DEF Reached
  <2>3. wakes[w].state = "claimed" /\ wakes[w].run # 0 => wakes[w].run \in DOMAIN runs
    BY DEF WakeInv, WakesOK, WakeOK
  <2> QED BY <1>1, <1>3, <1>4, <2>1, <2>2, <2>3 DEF RowDecides, OwnedOK, FailedOK
<1>6. RowsDecide(wakes, lost, took, runs', line, att, members, epoch)
  BY <1>5 DEF RowsDecide
<1>7. AttemptDecides(att, runs', line, members)
  <2>1. att.run # 0 => att.run \in DOMAIN runs
    BY DEF WakeInv, AttemptOK
  <2>2. att.phase \in {"running", "landed"} => att.run # r /\ att.run \in DOMAIN runs
    BY <1>1, <2>1 DEF WakeInv, AttemptOK
  <2>3. Carried(att) # 0 => Carried(att) \in DOMAIN runs
    BY <2>1 DEF WakeInv, AttemptOK, Carried
  <2>4. att.phase \in {"setup", "between"} /\ att.src = 0 /\ Carried(att) # 0 => Carried(att) # r
    BY <1>1 DEF DecideInv, AttemptDecides
  <2> QED BY <1>4, <2>2, <2>3, <2>4 DEF DecideInv, AttemptDecides
<1>8. RunsDecide(runs', att)
  BY <1>3, <1>4 DEF DecideInv, RunsDecide
<1> QED BY <1>1, <1>6, <1>7, <1>8 DEF DecideInv

LEMMA NextDecides == ASSUME HandsOverOnce, WakeInv, DecideInv, [Next]_vars PROVE DecideInv'
<1>1. CASE \E D \in (SUBSET Events) \ {{}} : Record(D)
  BY <1>1, RecordDecides
<1>2. CASE Ticker \/ GateOpens
  BY <1>2, TickerDecides, GateDecides
<1>3. CASE LaneStep
  BY <1>3, TurnDecides, BeginDecides, SteersDecide, JoinDecides, AttemptMoves, CompletionDecides, DeathDecides
  DEF LaneStep
<1>4. CASE Operator
  <2>1. CASE Stop
    BY <2>1, StopDecides DEF Stop
  <2>2. ~ApplySettings
    BY DEF ApplySettings, HandsOverOnce
  <2> QED BY <1>4, <2>1, <2>2, TurnDecides, ResumeDecides, AbandonDecides DEF Operator
<1>5. CASE Shutdown
  <2>1. CASE Busy
    BY <1>5, <2>1, StopDecides DEF Shutdown
  <2>2. CASE ~Busy
    BY <1>5, <2>2 DEF Shutdown, DecideInv, rows, lane, history
  <2> QED BY <2>1, <2>2
<1>6. CASE Restart
  BY <1>6, CrashDecides DEF Restart, Busy
<1>7. CASE Crash \/ CrashInHook
  <2>1. Dies
    BY <1>7 DEF Crash, CrashInHook, CrashInBegin, CrashInDeath
  <2>2. ~Compaction
    BY <2>1, WakeAssumption DEF Dies, HandsOverOnce, WakeInv
  <2> QED BY <1>7, <2>2, CrashDecides, CutBeginDecides, CutDeathDecides DEF CrashInHook
<1>8. CASE UNCHANGED vars
  BY <1>8 DEF vars, rows, lane, history, DecideInv
<1> QED BY <1>1, <1>2, <1>3, <1>4, <1>5, <1>6, <1>7, <1>8 DEF Next, Process

\* The journal's terminal row decides: where a turn hands its messages over at most once
\* and writes succeed, a wake booked failed is one that no completed run continues, through
\* any number of crashes, between hooks or within one, stops and resumes (runStatus,
\* reconcile, retargetRun).  The wakes whose run no row names are excepted: a crash came
\* between the run's row and their link.
THEOREM WakeRunDecides == HandsOverOnce => (Spec => []RunDecides)
<1> SUFFICES ASSUME HandsOverOnce PROVE Spec => []RunDecides
  OBVIOUS
<1>1. Init => DecideInv
  <2> SUFFICES ASSUME Init PROVE DecideInv
    OBVIOUS
  <2>1. /\ wakes = <<>> /\ runs = <<>> /\ queue = {} /\ joining = {} /\ members = {} /\ att = Idle
        /\ unlinked = {} /\ lost = {}
    BY DEF Init
  <2>2. Idle.phase = "idle" /\ Idle.src = 0 /\ Idle.pred = 0
    BY DEF Idle
  <2>3. DOMAIN wakes = {} /\ DOMAIN runs = {}
    BY <2>1
  <2> QED BY <2>1, <2>2, <2>3 DEF DecideInv, RowsDecide, PlacesDecide, AttemptDecides, RunsDecide
<1>2. WakeInv /\ DecideInv /\ [Next]_vars => DecideInv'
  BY NextDecides
<1>3. DecideInv => RunDecides
  <2> SUFFICES ASSUME DecideInv, NEW w \in DOMAIN wakes \ lost, wakes[w].state = "failed",
                      NEW r \in DOMAIN runs, runs[r].status = "completed", took[w] \cap line[r] # {}
               PROVE  FALSE
    BY DEF RunDecides, Answered
  <2>1. r \in Reached(took[w], runs, line)
    BY DEF Reached
  <2>2. FailedOK(wakes[w], took[w], runs, line, att, epoch)
    BY DEF DecideInv, RowsDecide, RowDecides
  <2> QED BY <2>1, <2>2 DEF FailedOK
<1> QED BY <1>1, <1>2, <1>3, WakeHolds, PTL DEF Spec
=============================================================================
