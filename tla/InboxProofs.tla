------------------------------ MODULE InboxProofs ------------------------------
(***************************************************************************)
(* The intake, for any number of updates, conversations and mishaps.  The  *)
(* flush's items, the bucket and the chain are one queue in the order of   *)
(* the updates; the histories stay in order because what goes into one of  *)
(* them leaves nothing that still waits for it behind.                     *)
(***************************************************************************)
EXTENDS MCIntake, NaturalsInduction, WellFoundedInduction, TLAPS

-----------------------------------------------------------------------------
(* The parts of the inductive invariant. *)

\* No update twice; the updates never refused in the order they were sent.
Distinct(s) == \A j, k \in DOMAIN s : s[j].u = s[k].u => j = k
Ordered(s, R) ==
    \A j, k \in DOMAIN s : j < k /\ s[j].u \notin R /\ s[k].u \notin R => s[j].u < s[k].u
Before(us, vs, R) == \A u \in us \ R, v \in vs \ R : u < v

\* The downloads of a chain.
Steps(ch) == {k \in DOMAIN ch : ch[k].edit = 0}
StepIds(ch) == {ch[k].u : k \in Steps(ch)}
StepsDistinct(ch) == \A j, k \in Steps(ch) : ch[j].u = ch[k].u => j = k
StepsOrdered(ch, R) ==
    \A j, k \in Steps(ch) : j < k /\ ch[j].u \notin R /\ ch[k].u \notin R => ch[j].u < ch[k].u

\* A flush's items, the bucket and the chain are one queue.
Queue(items, bk, ch, R) ==
    /\ Distinct(items) /\ Distinct(bk) /\ StepsDistinct(ch)
    /\ Chat!Ids(items) \cap Chat!Ids(bk) = {}
    /\ Chat!Ids(items) \cap StepIds(ch) = {}
    /\ Chat!Ids(bk) \cap StepIds(ch) = {}
    /\ Ordered(items, R) /\ Ordered(bk, R) /\ StepsOrdered(ch, R)
    /\ Before(Chat!Ids(items), Chat!Ids(bk), R)
    /\ Before(Chat!Ids(items), StepIds(ch), R)
    /\ Before(Chat!Ids(bk), StepIds(ch), R)

HeldIds(items, bk, ch) == Chat!Ids(items) \cup Chat!Ids(bk) \cup StepIds(ch)
Texts(d, s) == \A k \in DOMAIN s : Chat!Pending(d, s[k].u) => s[k].text = d.rows[s[k].u].text

\* What the queue holds is recorded; an item has the text of its row.
Backed(d, items, bk, ch) ==
    /\ \A u \in HeldIds(items, bk, ch) : d.rows[u].state # "none"
    /\ Texts(d, items) /\ Texts(d, bk)

\* The batch is what remains of the items.
Batched(d, items, batch, R) ==
    /\ Chat!Ids(batch) \subseteq Chat!Ids(items)
    /\ Chat!Ids(items) \cap Chat!Waiting(d) \subseteq Chat!Ids(batch)
    /\ Distinct(batch) /\ Ordered(batch, R) /\ Texts(d, batch)

\* A navigation assigns all that is in front of it.
Passed(d, R) ==
    \A u, v \in Chat!Waiting(d) \ R : u < v /\ d.rows[v].target # 0 => d.rows[u].target # 0

\* What landed; what is in front of it and still waits goes to another history.
Landed(d) ==
    /\ \A j, k \in DOMAIN d.log : d.log[j].u = d.log[k].u => j = k
    /\ \A k \in DOMAIN d.log :
        d.rows[d.log[k].u].state = "committed" /\ d.log[k].text = d.rows[d.log[k].u].text
Cut(d) ==
    \A k \in DOMAIN d.log :
        LET target == d.rows[d.log[k].u].target
        IN  IF target = 0 THEN d.log[k].turn ELSE ~d.log[k].turn /\ d.log[k].conv = target
Sorted(d, R) ==
    \A j, k \in DOMAIN d.log :
        j < k /\ d.log[j].conv = d.log[k].conv /\ d.log[j].u \notin R /\ d.log[k].u \notin R
            => d.log[j].u < d.log[k].u
Behind(d, R) ==
    \A k \in DOMAIN d.log, u \in Chat!Waiting(d) \ R :
        d.log[k].u \notin R /\ u < d.log[k].u
            => d.rows[u].target # 0 /\ d.rows[u].target # d.log[k].conv
Histories(d, R) == Passed(d, R) /\ Landed(d) /\ Cut(d) /\ Sorted(d, R) /\ Behind(d, R)

\* A text handled and not refused is recorded.
Recorded ==
    \A u \in Chat!Updates :
        /\ db.rows[u].state # "none" => u <= Len(sent)
        /\ u <= Len(sent) /\ u \notin refused /\ sent[u].kind = "text" => db.rows[u].state # "none"

AppOnly ==
    lane = "app" =>
        /\ db.pin = 1 /\ db.prev = <<0>>
        /\ \A u \in Chat!Updates : db.rows[u].target = 0
        /\ HeldIds(flight.items, bucket, chain) \subseteq Chat!Waiting(db)
        /\ flight = Chat!NoFlight

Phased ==
    /\ flight.at = "none" => flight = Chat!NoFlight
    /\ flight.at = "over" => flight = [Chat!NoFlight EXCEPT !.at = "over"]
    /\ flight.at \in {"checking", "marking"} => flight.items # <<>> /\ db.pin # 0
    /\ bot \in {"second", "off"} => chain = <<>>
    /\ bot = "second" /\ bucket # <<>> => spoiled \/ (deferred /\ flight.at # "none")
    /\ bot = "off" => bucket = <<>> /\ flight.at = "none"

Kept ==
    /\ bot # "down" => Chat!Waiting(db) \subseteq HeldIds(flight.items, bucket, chain)
    /\ bot = "down" => chain = <<>> /\ bucket = <<>> /\ flight = Chat!NoFlight

IInv ==
    /\ Chat!TypeOK
    /\ Queue(flight.items, bucket, chain, refused)
    /\ Backed(db, flight.items, bucket, chain)
    /\ Batched(db, flight.items, flight.batch, refused)
    /\ Kept /\ Histories(db, refused) /\ Recorded /\ AppOnly /\ Phased

\* A set of naturals that is not empty has a least member.
LEMMA LeastExists ==
  ASSUME NEW S \in SUBSET Nat, S # {}
  PROVE  \E x \in S : \A y \in S : x <= y
<1>1. ASSUME NEW x \in Nat, NEW y \in Nat, x < y
      PROVE  <<x, y>> \in OpToRel(<, Nat)
  BY <1>1, Zenon DEF OpToRel
<1> DEFINE R == OpToRel(<, Nat)
<1>2. IsWellFoundedOn(R, Nat)
  BY NatLessThanWellFounded
<1>3. \A x, y \in Nat : x < y => <<x, y>> \in R
  BY <1>1
<1> HIDE DEF R
<1>4. PICK x \in S : \A y \in S : ~ (<<y, x>> \in R)
  BY <1>2, WFMin
<1>5. ASSUME NEW y \in S PROVE x <= y
  <2>1. x \in Nat /\ y \in Nat /\ ~ (y < x)
    BY <1>3, <1>4
  <2> QED BY <2>1
<1> QED BY <1>5

\* Picks(s, us, n, f): f[k] is what Only takes of the first k items.
Picks(s, us, n, f) ==
  f = [k \in 0 .. n |->
         IF k = 0 THEN <<>>
         ELSE IF s[k].u \in us THEN Append(f[k - 1], s[k]) ELSE f[k - 1]]

\* The steps of a selection exist, up to any length.
LEMMA PicksExist ==
  ASSUME NEW s, NEW us, NEW n \in Nat
  PROVE  \E f : Picks(s, us, n, f)
<1> DEFINE Bad == {m \in Nat : ~ \E f : Picks(s, us, m, f)}
<1> SUFFICES ASSUME Bad # {} PROVE FALSE
  OBVIOUS
<1>1. PICK m \in Bad : \A y \in Bad : m <= y
  <2>1. Bad \in SUBSET Nat
    OBVIOUS
  <2> HIDE DEF Bad
  <2> QED BY <2>1, LeastExists
<1>2. CASE m = 0
  <2> DEFINE f == [k \in 0 .. 0 |-> <<>>]
  <2>1. Picks(s, us, 0, f)
    BY DEF Picks
  <2> QED BY <1>2, <2>1
<1>3. CASE m # 0
  <2>1. m - 1 \in Nat /\ m - 1 \notin Bad
    BY <1>1, <1>3
  <2>2. PICK f : Picks(s, us, m - 1, f)
    BY <2>1
  <2> DEFINE g == [k \in 0 .. m |-> IF k < m THEN f[k]
                     ELSE IF s[m].u \in us THEN Append(f[m - 1], s[m]) ELSE f[m - 1]]
  <2>3. Picks(s, us, m, g)
    <3>1. ASSUME NEW k \in 0 .. m
          PROVE  g[k] = IF k = 0 THEN <<>>
                   ELSE IF s[k].u \in us THEN Append(g[k - 1], s[k]) ELSE g[k - 1]
      <4>1. CASE k < m
        <5>1. k \in 0 .. m - 1 /\ g[k] = f[k] /\ (k # 0 => g[k - 1] = f[k - 1])
          BY <4>1, <1>1
        <5> QED BY <5>1, <2>2 DEF Picks
      <4>2. CASE k = m
        BY <4>2, <1>3, <2>1
      <4> QED BY <4>1, <4>2, <1>1
    <3> HIDE DEF g
    <3>2. g = [k \in 0 .. m |-> g[k]]
      BY DEF g
    <3> QED BY <3>1, <3>2 DEF Picks
  <2> QED BY <2>3
<1> QED BY <1>2, <1>3

\* Only is the last step of its selection.
LEMMA OnlyPicks ==
  ASSUME NEW X, NEW s \in Seq(X), NEW us
  PROVE  \E f : Picks(s, us, Len(s), f) /\ Chat!Only(s, us) = f[Len(s)]
<1> DEFINE f == CHOOSE f : Picks(s, us, Len(s), f)
<1>1. Len(s) \in Nat
  OBVIOUS
<1>2. Picks(s, us, Len(s), f)
  BY <1>1, PicksExist
<1>3. Chat!Only(s, us) = f[Len(s)]
  BY DEF Chat!Only, Picks
<1> QED BY <1>2, <1>3

\* e places r in s: the items of s whose update is in us, in their order.
Embeds(e, r, s, n, us) ==
  /\ e \in [1 .. Len(r) -> 1 .. n]
  /\ \A k \in 1 .. Len(r) : r[k] = s[e[k]] /\ s[e[k]].u \in us
  /\ \A j, k \in 1 .. Len(r) : j < k => e[j] < e[k]
  /\ \A i \in 1 .. n : s[i].u \in us => \E k \in 1 .. Len(r) : e[k] = i

\* A selection keeps the order: each of its items has a place in the sequence, and all that
\* fit are in it.
LEMMA PicksEmbed ==
  ASSUME NEW X, NEW s \in Seq(X), NEW us, NEW f, Picks(s, us, Len(s), f)
  PROVE  \A m \in 0 .. Len(s) : f[m] \in Seq(X) /\ \E e : Embeds(e, f[m], s, m, us)
<1> DEFINE Good(m) == f[m] \in Seq(X) /\ \E e : Embeds(e, f[m], s, m, us)
<1> DEFINE Bad == {m \in 0 .. Len(s) : ~ Good(m)}
<1>0. Len(s) \in Nat /\ \A i \in 1 .. Len(s) : s[i] \in X
  OBVIOUS
<1> SUFFICES ASSUME Bad # {} PROVE FALSE
  OBVIOUS
<1>1. PICK m \in Bad : \A y \in Bad : m <= y
  <2>1. Bad \in SUBSET Nat
    BY <1>0
  <2> HIDE DEF Bad
  <2> QED BY <2>1, LeastExists
<1>2. m \in 0 .. Len(s)
  OBVIOUS
<1>3. f[0] = <<>> /\ \A k \in 1 .. Len(s) :
         f[k] = IF s[k].u \in us THEN Append(f[k - 1], s[k]) ELSE f[k - 1]
  <2> HIDE DEF Good, Bad
  <2>1. \A k \in 0 .. Len(s) : f[k] = IF k = 0 THEN <<>>
          ELSE IF s[k].u \in us THEN Append(f[k - 1], s[k]) ELSE f[k - 1]
    BY DEF Picks
  <2>2. 0 \in 0 .. Len(s) /\ \A k \in 1 .. Len(s) : k \in 0 .. Len(s) /\ k # 0
    BY <1>0
  <2> QED BY <2>1, <2>2
<1>4. CASE m = 0
  <2> DEFINE e == [k \in 1 .. 0 |-> 0]
  <2>1. Embeds(e, <<>>, s, 0, us)
    <3>1. Len(<<>>) = 0 /\ 1 .. 0 = {}
      OBVIOUS
    <3>2. e \in [1 .. 0 -> 1 .. 0]
      BY <3>1
    <3> HIDE DEF e
    <3>3. \A k \in 1 .. 0 : FALSE
      BY <3>1
    <3>4. /\ e \in [1 .. Len(<<>>) -> 1 .. 0]
          /\ \A k \in 1 .. Len(<<>>) : FALSE
      BY <3>1, <3>2, <3>3
    <3>5. /\ \A k \in 1 .. Len(<<>>) : <<>>[k] = s[e[k]] /\ s[e[k]].u \in us
          /\ \A j, k \in 1 .. Len(<<>>) : j < k => e[j] < e[k]
          /\ \A i \in 1 .. 0 : s[i].u \in us => \E k \in 1 .. Len(<<>>) : e[k] = i
      BY <3>3, <3>4, Zenon
    <3> QED BY <3>4, <3>5, Zenon DEF Embeds
  <2> HIDE DEF e
  <2>2. f[m] = <<>>
    <3> HIDE DEF Bad
    <3> QED BY <1>3, <1>4
  <2>3. <<>> \in Seq(X) /\ m = 0
    BY <1>4
  <2>4. f[m] \in Seq(X) /\ Embeds(e, f[m], s, m, us)
    <3> HIDE DEF Bad
    <3> QED BY <2>1, <2>2, <2>3
  <2> QED BY <2>4
<1>5. CASE m # 0
  <2>1. m \in 1 .. Len(s) /\ m - 1 \in 0 .. Len(s) /\ m - 1 \notin Bad
    <3> HIDE DEF Bad
    <3> QED BY <1>0, <1>1, <1>2, <1>5
  <2>2. f[m - 1] \in Seq(X)
    BY <2>1
  <2>3. PICK e : Embeds(e, f[m - 1], s, m - 1, us)
    BY <2>1
  <2> DEFINE r == f[m - 1]
  <2> HIDE DEF Good, Bad
  <2>4. CASE s[m].u \notin us
    <3>1. f[m] = r
      BY <1>3, <2>1, <2>4
    <3>2. Embeds(e, r, s, m, us)
      <4> HIDE DEF r
      <4> QED BY <2>1, <2>3, <2>4, <1>0 DEF Embeds, r
    <3> QED BY <2>2, <3>1, <3>2, <1>1 DEF Bad, Good
  <2>5. CASE s[m].u \in us
    <3> DEFINE g == [k \in 1 .. Len(r) + 1 |-> IF k <= Len(r) THEN e[k] ELSE m]
    <3>1. f[m] = Append(r, s[m])
      BY <1>3, <2>1, <2>5
    <3> HIDE DEF r
    <3>0. r \in Seq(X) /\ Embeds(e, r, s, m - 1, us)
      BY <2>2, <2>3 DEF r
    <3>2. Len(Append(r, s[m])) = Len(r) + 1 /\ Len(r) \in Nat /\ Append(r, s[m]) \in Seq(X)
      BY <3>0, <1>0, <2>1
    <3>3. \A k \in 1 .. Len(r) + 1 : Append(r, s[m])[k] = IF k <= Len(r) THEN r[k] ELSE s[m]
      BY <3>0, <1>0, <2>1
    <3>4. Embeds(g, Append(r, s[m]), s, m, us)
      <4>1. g \in [1 .. Len(r) + 1 -> 1 .. m]
        BY <3>0, <3>2, <2>1 DEF Embeds
      <4>2. \A k \in 1 .. Len(r) + 1 : Append(r, s[m])[k] = s[g[k]] /\ s[g[k]].u \in us
        BY <3>0, <3>2, <3>3, <2>5 DEF Embeds
      <4>3. ASSUME NEW j \in 1 .. Len(r) + 1, NEW k \in 1 .. Len(r) + 1, j < k
            PROVE  g[j] < g[k]
        <5>1. j \in 1 .. Len(r) /\ g[j] = e[j] /\ e[j] \in 1 .. m - 1
          BY <4>3, <3>0, <3>2 DEF Embeds
        <5>2. CASE k = Len(r) + 1
          BY <5>1, <5>2, <3>2, <2>1, <1>0
        <5>3. CASE k # Len(r) + 1
          <6>1. k \in 1 .. Len(r) /\ g[k] = e[k]
            BY <5>3, <3>2
          <6> QED BY <5>1, <6>1, <4>3, <3>0 DEF Embeds
        <5> QED BY <5>2, <5>3
      <4>4. \A i \in 1 .. m : s[i].u \in us => \E k \in 1 .. Len(r) + 1 : g[k] = i
        <5> SUFFICES ASSUME NEW i \in 1 .. m, s[i].u \in us
                     PROVE  \E k \in 1 .. Len(r) + 1 : g[k] = i
          OBVIOUS
        <5>1. CASE i = m
          BY <5>1, <3>2
        <5>2. CASE i # m
          <6>1. i \in 1 .. m - 1
            BY <5>2, <1>0, <2>1
          <6>2. PICK k \in 1 .. Len(r) : e[k] = i
            BY <6>1, <3>0 DEF Embeds
          <6> QED BY <6>2, <3>2
        <5> QED BY <5>1, <5>2
      <4> HIDE DEF g
      <4> QED BY <4>1, <4>2, <4>3, <4>4, <3>2 DEF Embeds
    <3> QED BY <3>1, <3>2, <3>4, <1>1 DEF Bad, Good
  <2> QED BY <2>4, <2>5
<1> QED BY <1>4, <1>5, <1>2

\* So does Only.
LEMMA OnlyEmbeds ==
  ASSUME NEW X, NEW s \in Seq(X), NEW us
  PROVE  Chat!Only(s, us) \in Seq(X) /\ \E e : Embeds(e, Chat!Only(s, us), s, Len(s), us)
<1>1. PICK f : Picks(s, us, Len(s), f) /\ Chat!Only(s, us) = f[Len(s)]
  BY OnlyPicks
<1>2. Len(s) \in 0 .. Len(s)
  OBVIOUS
<1> QED BY <1>1, <1>2, PicksEmbed

-----------------------------------------------------------------------------
(* What Only keeps. *)

\* The updates of a sequence are those of its items.
LEMMA IdsIn ==
  ASSUME NEW s \in Seq(Chat!Item)
  PROVE  /\ Chat!Ids(s) \subseteq Chat!Updates
         /\ \A k \in DOMAIN s : s[k] \in Chat!Item /\ s[k].u \in Chat!Ids(s)
         /\ DOMAIN s = 1 .. Len(s) /\ Len(s) \in Nat
<1>1. DOMAIN s = 1 .. Len(s) /\ Len(s) \in Nat /\ \A k \in DOMAIN s : s[k] \in Chat!Item
  OBVIOUS
<1>2. \A k \in DOMAIN s : s[k].u \in Chat!Updates
  BY <1>1 DEF Chat!Item
<1> QED BY <1>1, <1>2 DEF Chat!Ids

\* What Only takes is of the type, distinct and ordered as the sequence was, and exactly what
\* fits.
LEMMA OnlyKeeps ==
  ASSUME NEW s \in Seq(Chat!Item), NEW us
  PROVE  /\ Chat!Only(s, us) \in Seq(Chat!Item)
         /\ Chat!Ids(Chat!Only(s, us)) = Chat!Ids(s) \cap us
         /\ Distinct(s) => Distinct(Chat!Only(s, us))
         /\ \A R : Ordered(s, R) => Ordered(Chat!Only(s, us), R)
         /\ \A d : Texts(d, s) => Texts(d, Chat!Only(s, us))
<1> DEFINE r == Chat!Only(s, us)
<1>1. r \in Seq(Chat!Item) /\ \E e : Embeds(e, r, s, Len(s), us)
  BY OnlyEmbeds
<1>2. PICK e : Embeds(e, r, s, Len(s), us)
  BY <1>1
<1> HIDE DEF r
<1>3. /\ DOMAIN r = 1 .. Len(r) /\ DOMAIN s = 1 .. Len(s)
      /\ \A k \in DOMAIN r : e[k] \in DOMAIN s /\ r[k] = s[e[k]] /\ s[e[k]].u \in us
      /\ \A j, k \in DOMAIN r : j < k => e[j] < e[k]
      /\ \A i \in DOMAIN s : s[i].u \in us => \E k \in DOMAIN r : e[k] = i
  <2>1. DOMAIN r = 1 .. Len(r) /\ DOMAIN s = 1 .. Len(s)
    BY <1>1
  <2> QED BY <1>2, <2>1 DEF Embeds
<1>4. Chat!Ids(r) = Chat!Ids(s) \cap us
  BY <1>3 DEF Chat!Ids
<1>5. ASSUME Distinct(s) PROVE Distinct(r)
  <2> SUFFICES ASSUME NEW j \in DOMAIN r, NEW k \in DOMAIN r, r[j].u = r[k].u PROVE j = k
    BY DEF Distinct
  <2>1. e[j] = e[k]
    BY <1>3, <1>5 DEF Distinct
  <2>2. j \in Nat /\ k \in Nat /\ e[j] \in Nat /\ ~ (j < k) /\ ~ (k < j)
    BY <1>1, <1>3, <2>1
  <2> QED BY <2>2
<1>6. ASSUME NEW R, Ordered(s, R) PROVE Ordered(r, R)
  BY <1>3, <1>6 DEF Ordered
<1>7. ASSUME NEW d, Texts(d, s) PROVE Texts(d, r)
  BY <1>3, <1>7 DEF Texts
<1> QED BY <1>1, <1>4, <1>5, <1>6, <1>7 DEF r

-----------------------------------------------------------------------------
(* The tables. *)

\* The fields of the tables.
LEMMA DbFields ==
  ASSUME NEW d \in Chat!Db
  PROVE  /\ d.rows \in [Chat!Updates -> Chat!Row] /\ d.receipts \subseteq Chat!Updates
         /\ d.gone \in BOOLEAN /\ d.log \in Seq(Chat!Entry) /\ d.pin \in Nat
         /\ d.prev \in Seq(Nat)
         /\ \A u \in Chat!Updates : d.rows[u] \in Chat!Row
BY DEF Chat!Db

\* The fields of a row.
LEMMA RowFields ==
  ASSUME NEW r \in Chat!Row
  PROVE  r.state \in {"none", "pending", "committed"} /\ r.text \in Nat /\ r.target \in Nat
BY DEF Chat!Row

\* What waits is a pending row.
LEMMA WaitingRows ==
  ASSUME NEW d, NEW u
  PROVE  u \in Chat!Waiting(d) <=> u \in Chat!Updates /\ d.rows[u].state = "pending"
BY DEF Chat!Waiting, Chat!Pending

\* An acknowledgement commits the rows and appends nothing.
LEMMA AckFacts ==
  ASSUME NEW d \in Chat!Db, NEW items
  PROVE  /\ Chat!Acknowledged(d, items) \in Chat!Db
         /\ \A f \in {"log", "pin", "prev", "receipts", "gone"} : Chat!Acknowledged(d, items)[f] = d[f]
         /\ Chat!Acknowledged(d, items).log = d.log /\ Chat!Acknowledged(d, items).pin = d.pin
         /\ Chat!Acknowledged(d, items).prev = d.prev
         /\ \A u \in Chat!Updates :
              LET row == Chat!Acknowledged(d, items).rows[u]
              IN  /\ row.text = d.rows[u].text /\ row.target = d.rows[u].target
                  /\ row.state = IF u \in Chat!Ids(items) THEN "committed" ELSE d.rows[u].state
         /\ Chat!Waiting(Chat!Acknowledged(d, items)) = Chat!Waiting(d) \ Chat!Ids(items)
<1> DEFINE a == Chat!Acknowledged(d, items)
           rows == [u \in Chat!Updates |->
             IF u \in Chat!Ids(items) THEN [d.rows[u] EXCEPT !.state = "committed"] ELSE d.rows[u]]
<1>1. a = [d EXCEPT !.rows = rows]
  BY DEF Chat!Acknowledged
<1>2. ASSUME NEW u \in Chat!Updates
      PROVE  /\ rows[u] \in Chat!Row
             /\ rows[u].text = d.rows[u].text /\ rows[u].target = d.rows[u].target
             /\ rows[u].state = IF u \in Chat!Ids(items) THEN "committed" ELSE d.rows[u].state
  <2>1. d.rows[u] \in Chat!Row
    BY DbFields
  <2>2. rows[u] = IF u \in Chat!Ids(items) THEN [d.rows[u] EXCEPT !.state = "committed"]
                  ELSE d.rows[u]
    OBVIOUS
  <2> HIDE DEF rows
  <2> QED BY <2>1, <2>2 DEF Chat!Row
<1>3. rows \in [Chat!Updates -> Chat!Row]
  BY <1>2
<1> HIDE DEF rows
<1>4. a \in Chat!Db /\ a.rows = rows /\ a.log = d.log /\ a.pin = d.pin /\ a.prev = d.prev
  BY <1>1, <1>3 DEF Chat!Db
<1>5. a.receipts = d.receipts /\ a.gone = d.gone
  BY <1>1, <1>3 DEF Chat!Db
<1> HIDE DEF a
<1>6. Chat!Waiting(a) = Chat!Waiting(d) \ Chat!Ids(items)
  BY <1>2, <1>4 DEF Chat!Waiting, Chat!Pending
<1> QED BY <1>2, <1>4, <1>5, <1>6 DEF a

\* The places of two sequences put together.
LEMMA Joined ==
  ASSUME NEW X, NEW s \in Seq(X), NEW t \in Seq(X)
  PROVE  /\ Len(s) \in Nat /\ Len(s \o t) = Len(s) + Len(t)
         /\ DOMAIN (s \o t) = 1 .. Len(s \o t)
         /\ \A k \in 1 .. Len(s) : (s \o t)[k] = s[k]
         /\ \A k \in 1 .. Len(t) : (s \o t)[Len(s) + k] = t[k]
OBVIOUS

\* A commit appends its items to the log and commits their rows.
LEMMA CommitFacts ==
  ASSUME NEW d \in Chat!Db, NEW items \in Seq(Chat!Item), NEW conv \in [Chat!Updates -> Nat],
         NEW turn \in BOOLEAN
  PROVE  LET c == Chat!Committed(d, items, conv, turn)
         IN  /\ c \in Chat!Db
             /\ c.pin = d.pin /\ c.prev = d.prev
             /\ c.rows = Chat!Acknowledged(d, items).rows
             /\ Chat!Waiting(c) = Chat!Waiting(d) \ Chat!Ids(items)
             /\ Len(d.log) \in Nat /\ Len(items) \in Nat
             /\ Len(c.log) = Len(d.log) + Len(items)
             /\ DOMAIN c.log = 1 .. Len(c.log)
             /\ \A k \in 1 .. Len(d.log) : c.log[k] = d.log[k]
             /\ \A k \in 1 .. Len(items) :
                  c.log[Len(d.log) + k] = [u |-> items[k].u, text |-> items[k].text,
                                           conv |-> conv[items[k].u], turn |-> turn]
<1> DEFINE a == Chat!Acknowledged(d, items)
           more == [k \in DOMAIN items |->
             [u |-> items[k].u, text |-> items[k].text, conv |-> conv[items[k].u], turn |-> turn]]
           c == Chat!Committed(d, items, conv, turn)
<1>1. a \in Chat!Db /\ a.log = d.log /\ a.pin = d.pin /\ a.prev = d.prev
      /\ Chat!Waiting(a) = Chat!Waiting(d) \ Chat!Ids(items)
  BY AckFacts
<1>2. DOMAIN items = 1 .. Len(items) /\ Len(items) \in Nat
      /\ \A k \in DOMAIN items : items[k].u \in Chat!Updates /\ items[k].text \in Chat!Updates
  BY IdsIn DEF Chat!Item
<1>3. \A k \in DOMAIN items : more[k] \in Chat!Entry
  BY <1>2 DEF Chat!Entry
<1>4. more \in Seq(Chat!Entry) /\ Len(more) = Len(items)
  <2> HIDE DEF more
  <2>1. more = [k \in 1 .. Len(items) |-> more[k]]
    BY <1>2 DEF more
  <2> QED BY <1>2, <1>3, <2>1
<1>5. d.log \in Seq(Chat!Entry)
  BY DbFields
<1>6. c = [a EXCEPT !.log = a.log \o more]
  BY DEF Chat!Committed
<1>7. \A k \in DOMAIN items :
        more[k] = [u |-> items[k].u, text |-> items[k].text, conv |-> conv[items[k].u],
                   turn |-> turn]
  OBVIOUS
<1> HIDE DEF a, more, c
<1>8. d.log \o more \in Seq(Chat!Entry)
  BY <1>4, <1>5
<1>9. c \in Chat!Db /\ c.log = d.log \o more /\ c.rows = a.rows /\ c.pin = d.pin /\ c.prev = d.prev
  BY <1>1, <1>6, <1>8 DEF Chat!Db
<1>10. Chat!Waiting(c) = Chat!Waiting(a)
  BY <1>9 DEF Chat!Waiting, Chat!Pending
<1>11. /\ Len(d.log) \in Nat
       /\ Len(c.log) = Len(d.log) + Len(items)
       /\ DOMAIN c.log = 1 .. Len(c.log)
       /\ \A k \in 1 .. Len(d.log) : c.log[k] = d.log[k]
       /\ \A k \in 1 .. Len(items) : c.log[Len(d.log) + k] = more[k]
  <2>1. c.log = d.log \o more /\ Len(more) = Len(items)
    BY <1>4, <1>9
  <2>2. /\ Len(d.log) \in Nat /\ Len(d.log \o more) = Len(d.log) + Len(more)
        /\ DOMAIN (d.log \o more) = 1 .. Len(d.log \o more)
        /\ \A k \in 1 .. Len(d.log) : (d.log \o more)[k] = d.log[k]
        /\ \A k \in 1 .. Len(more) : (d.log \o more)[Len(d.log) + k] = more[k]
    <3> DEFINE old == d.log
    <3>1. old \in Seq(Chat!Entry) /\ more \in Seq(Chat!Entry)
      BY <1>4, <1>5
    <3> HIDE DEF old
    <3>2. /\ Len(old) \in Nat /\ Len(old \o more) = Len(old) + Len(more)
          /\ DOMAIN (old \o more) = 1 .. Len(old \o more)
          /\ \A k \in 1 .. Len(old) : (old \o more)[k] = old[k]
          /\ \A k \in 1 .. Len(more) : (old \o more)[Len(old) + k] = more[k]
      BY <3>1, Joined
    <3> QED BY <3>2, Zenon DEF old
  <2> QED BY <2>1, <2>2, Zenon
<1> QED BY <1>1, <1>2, <1>7, <1>9, <1>10, <1>11 DEF a, c

\* What may be committed together: waiting items, and whatever waits in front of them goes
\* to another history.
Committable(d, items, conv, turn, R) ==
  /\ Distinct(items) /\ Ordered(items, R) /\ Texts(d, items)
  /\ Chat!Ids(items) \subseteq Chat!Waiting(d)
  /\ \A u \in Chat!Ids(items) :
       IF d.rows[u].target = 0 THEN turn ELSE ~turn /\ conv[u] = d.rows[u].target
  /\ \A u \in Chat!Ids(items) \ R, v \in Chat!Waiting(d) \ R :
       v < u /\ v \notin Chat!Ids(items) => d.rows[v].target # 0 /\ d.rows[v].target # conv[u]

\* The histories stay in order when what is committed may come next in its history.
LEMMA CommitHistories ==
  ASSUME NEW d \in Chat!Db, NEW items \in Seq(Chat!Item), NEW conv \in [Chat!Updates -> Nat],
         NEW turn \in BOOLEAN, NEW R,
         Histories(d, R), Committable(d, items, conv, turn, R)
  PROVE  Histories(Chat!Committed(d, items, conv, turn), R)
<1> DEFINE c == Chat!Committed(d, items, conv, turn)
           n == Len(d.log)
<1>1. /\ c \in Chat!Db
      /\ Chat!Waiting(c) = Chat!Waiting(d) \ Chat!Ids(items)
      /\ n \in Nat /\ Len(items) \in Nat
      /\ Len(c.log) = n + Len(items)
      /\ DOMAIN c.log = 1 .. Len(c.log)
      /\ \A k \in 1 .. n : c.log[k] = d.log[k]
      /\ \A k \in 1 .. Len(items) :
           c.log[n + k] = [u |-> items[k].u, text |-> items[k].text,
                           conv |-> conv[items[k].u], turn |-> turn]
  BY CommitFacts
<1>2. \A u \in Chat!Updates :
        /\ c.rows[u].text = d.rows[u].text /\ c.rows[u].target = d.rows[u].target
        /\ c.rows[u].state = IF u \in Chat!Ids(items) THEN "committed" ELSE d.rows[u].state
  BY CommitFacts, AckFacts
<1>3. /\ DOMAIN d.log = 1 .. n
      /\ \A k \in 1 .. n : d.log[k].u \in Chat!Updates
  <2>1. d.log \in Seq(Chat!Entry)
    BY DbFields
  <2>2. DOMAIN d.log = 1 .. n /\ \A k \in 1 .. n : d.log[k] \in Chat!Entry
    BY <2>1
  <2> QED BY <2>2 DEF Chat!Entry
<1>4. /\ DOMAIN items = 1 .. Len(items)
      /\ \A k \in DOMAIN items : items[k].u \in Chat!Updates /\ items[k].u \in Chat!Ids(items)
  BY IdsIn DEF Chat!Ids
<1> HIDE DEF c, n
<1>5. ASSUME NEW k \in DOMAIN c.log
      PROVE  \/ k \in 1 .. n /\ c.log[k] = d.log[k] /\ k \in DOMAIN d.log
             \/ \E i \in DOMAIN items :
                  /\ k = n + i /\ c.log[k].u = items[i].u /\ c.log[k].text = items[i].text
                  /\ c.log[k].conv = conv[items[i].u] /\ c.log[k].turn = turn
  <2>1. CASE k <= n
    BY <1>1, <1>3, <2>1
  <2>2. CASE ~ (k <= n)
    <3>1. k - n \in 1 .. Len(items) /\ k = n + (k - n)
      BY <1>1, <2>2
    <3> DEFINE i == k - n
    <3> HIDE DEF i
    <3>2. i \in 1 .. Len(items) /\ k = n + i
      BY <3>1 DEF i
    <3>3. c.log[k] = [u |-> items[i].u, text |-> items[i].text,
                      conv |-> conv[items[i].u], turn |-> turn]
      BY <1>1, <3>2
    <3>4. /\ c.log[k].u = items[i].u /\ c.log[k].text = items[i].text
          /\ c.log[k].conv = conv[items[i].u] /\ c.log[k].turn = turn
      BY <3>3
    <3> QED BY <1>4, <3>2, <3>4
  <2> QED BY <2>1, <2>2
\* An old entry is not waiting, a new one was.
<1>6. \A k \in DOMAIN d.log : d.rows[d.log[k].u].state = "committed" /\ d.log[k].u \in Chat!Updates
                              /\ d.log[k].u \notin Chat!Waiting(d) /\ d.log[k].u \notin Chat!Ids(items)
  <2> TAKE k \in DOMAIN d.log
  <2>1. d.rows[d.log[k].u].state = "committed"
    BY DEF Histories, Landed
  <2>2. d.log[k].u \in Chat!Updates
    BY <1>3
  <2>3. d.log[k].u \notin Chat!Waiting(d)
    BY <2>1 DEF Chat!Waiting, Chat!Pending
  <2> QED BY <2>1, <2>2, <2>3 DEF Committable
<1>7. Passed(c, R)
  BY <1>1, <1>2 DEF Histories, Passed, Chat!Waiting
<1>8. ASSUME NEW j \in DOMAIN c.log, NEW k \in DOMAIN c.log, c.log[j].u = c.log[k].u
      PROVE  j = k
  <2>1. CASE j \in DOMAIN d.log /\ c.log[j] = d.log[j]
    <3>1. ~ \E i \in DOMAIN items : c.log[k].u = items[i].u
      BY <1>4, <1>6, <1>8, <2>1
    <3>2. k \in DOMAIN d.log /\ c.log[k] = d.log[k]
      BY <1>5, <3>1
    <3> QED BY <1>8, <2>1, <3>2 DEF Histories, Landed
  <2>2. ASSUME NEW i \in DOMAIN items, j = n + i, c.log[j].u = items[i].u PROVE j = k
    <3>1. ~ (k \in DOMAIN d.log /\ c.log[k] = d.log[k])
      BY <1>4, <1>6, <1>8, <2>2
    <3>2. PICK h \in DOMAIN items : k = n + h /\ c.log[k].u = items[h].u
      BY <1>5, <3>1
    <3>3. h = i
      BY <1>8, <2>2, <3>2 DEF Committable, Distinct
    <3> QED BY <2>2, <3>2, <3>3
  <2> QED BY <1>5, <2>1, <2>2
<1>9. ASSUME NEW k \in DOMAIN c.log
      PROVE  /\ c.rows[c.log[k].u].state = "committed"
             /\ c.log[k].text = c.rows[c.log[k].u].text
             /\ IF c.rows[c.log[k].u].target = 0 THEN c.log[k].turn
                ELSE ~c.log[k].turn /\ c.log[k].conv = c.rows[c.log[k].u].target
  <2>1. CASE k \in DOMAIN d.log /\ c.log[k] = d.log[k]
    BY <1>2, <1>6, <2>1 DEF Histories, Landed, Cut
  <2>2. ASSUME NEW i \in DOMAIN items,
               c.log[k].u = items[i].u, c.log[k].text = items[i].text,
               c.log[k].conv = conv[items[i].u], c.log[k].turn = turn
        PROVE  /\ c.rows[c.log[k].u].state = "committed"
               /\ c.log[k].text = c.rows[c.log[k].u].text
               /\ IF c.rows[c.log[k].u].target = 0 THEN c.log[k].turn
                  ELSE ~c.log[k].turn /\ c.log[k].conv = c.rows[c.log[k].u].target
    <3>1. items[i].text = d.rows[items[i].u].text
      BY <1>4 DEF Committable, Texts, Chat!Waiting
    <3> QED BY <1>2, <1>4, <2>2, <3>1 DEF Committable
  <2> QED BY <1>5, <2>1, <2>2
<1>10. ASSUME NEW k \in DOMAIN c.log, NEW v \in Chat!Waiting(c) \ R,
              c.log[k].u \notin R, v < c.log[k].u
       PROVE  c.rows[v].target # 0 /\ c.rows[v].target # c.log[k].conv
  <2>0. v \in Chat!Waiting(d) \ R /\ v \notin Chat!Ids(items) /\ v \in Chat!Updates
        /\ c.rows[v].target = d.rows[v].target
    BY <1>1, <1>2 DEF Chat!Waiting
  <2>1. CASE k \in DOMAIN d.log /\ c.log[k] = d.log[k]
    BY <1>10, <2>0, <2>1 DEF Histories, Behind
  <2>2. ASSUME NEW i \in DOMAIN items, c.log[k].u = items[i].u,
               c.log[k].conv = conv[items[i].u]
        PROVE  c.rows[v].target # 0 /\ c.rows[v].target # c.log[k].conv
    BY <1>4, <1>10, <2>0, <2>2 DEF Committable
  <2> QED BY <1>5, <2>1, <2>2
<1>11. ASSUME NEW j \in DOMAIN c.log, NEW k \in DOMAIN c.log,
              j < k, c.log[j].conv = c.log[k].conv, c.log[j].u \notin R, c.log[k].u \notin R
       PROVE  c.log[j].u < c.log[k].u
  <2>1. CASE k \in DOMAIN d.log /\ c.log[k] = d.log[k]
    <3>1. j \in DOMAIN d.log /\ c.log[j] = d.log[j]
      BY <1>1, <1>3, <1>11, <2>1
    <3> QED BY <1>11, <2>1, <3>1 DEF Histories, Sorted
  <2>2. ASSUME NEW i \in DOMAIN items, k = n + i, c.log[k].u = items[i].u,
               c.log[k].conv = conv[items[i].u]
        PROVE  c.log[j].u < c.log[k].u
    <3>1. items[i].u \in Chat!Waiting(d) \ R /\ items[i].u \in Chat!Ids(items) /\ items[i].u \in Chat!Updates
      BY <1>4, <1>11, <2>2 DEF Committable
    <3>2. CASE j \in DOMAIN d.log /\ c.log[j] = d.log[j]
      <4>1. d.log[j].u # items[i].u /\ d.log[j].u \in Chat!Updates
        BY <1>6, <3>1, <3>2
      <4>2. ~ (items[i].u < d.log[j].u)
        <5> SUFFICES ASSUME items[i].u < d.log[j].u PROVE FALSE
          OBVIOUS
        <5>1. d.rows[items[i].u].target # 0 /\ d.rows[items[i].u].target # d.log[j].conv
          BY <1>11, <3>1, <3>2 DEF Histories, Behind
        <5>2. conv[items[i].u] = d.rows[items[i].u].target
          BY <3>1, <5>1 DEF Committable
        <5> QED BY <1>11, <2>2, <3>2, <5>1, <5>2
      <4> QED BY <2>2, <3>1, <3>2, <4>1, <4>2 DEF Chat!Updates
    <3>3. ASSUME NEW h \in DOMAIN items, j = n + h, c.log[j].u = items[h].u
          PROVE  c.log[j].u < c.log[k].u
      <4>1. h < i
        BY <1>1, <1>4, <1>11, <2>2, <3>3
      <4> QED BY <1>11, <2>2, <3>3, <4>1 DEF Committable, Ordered
    <3> QED BY <1>5, <3>2, <3>3
  <2> QED BY <1>5, <2>1, <2>2
<1>12. Landed(c) /\ Cut(c) /\ Sorted(c, R) /\ Behind(c, R)
  BY <1>8, <1>9, <1>10, <1>11 DEF Landed, Cut, Sorted, Behind
<1> QED BY <1>7, <1>12 DEF Histories, c

DbTyped(d) ==
  /\ d \in Chat!Db /\ d.pin <= Len(d.prev)
  /\ \A c \in DOMAIN d.prev : d.prev[c] < c
  /\ \A u \in Chat!Updates : /\ d.rows[u].target <= Len(d.prev)
                             /\ d.rows[u].state # "none" => d.rows[u].text \in Chat!Updates

\* e is d, less of it waiting.
Shrinks(d, e) ==
  /\ e.pin = d.pin /\ e.prev = d.prev
  /\ Chat!Waiting(e) \subseteq Chat!Waiting(d)
  /\ \A u \in Chat!Updates : /\ e.rows[u].text = d.rows[u].text /\ e.rows[u].target = d.rows[u].target
                             /\ e.rows[u].state = "none" <=> d.rows[u].state = "none"

\* The histories are a matter of the log, the rows and what was refused.
LEMMA SameHistories ==
  ASSUME NEW d, NEW e, NEW R, e.rows = d.rows, e.log = d.log
  PROVE  /\ Chat!Waiting(e) = Chat!Waiting(d)
         /\ Histories(d, R) => Histories(e, R)
         /\ \A s : Texts(d, s) => Texts(e, s)
<1>1. Chat!Waiting(e) = Chat!Waiting(d)
  BY DEF Chat!Waiting, Chat!Pending
<1>2. ASSUME NEW s, Texts(d, s) PROVE Texts(e, s)
  BY <1>2 DEF Texts, Chat!Pending
<1>3. Histories(d, R) => Histories(e, R)
  BY <1>1 DEF Histories, Passed, Landed, Cut, Sorted, Behind
<1> QED BY <1>1, <1>2, <1>3

\* An acknowledgement leaves the histories in order.
LEMMA AckHistories ==
  ASSUME NEW d, DbTyped(d), NEW R, NEW items, Histories(d, R),
         \A u \in Chat!Ids(items) : d.rows[u].state # "none"
  PROVE  LET a == Chat!Acknowledged(d, items)
         IN  DbTyped(a) /\ Histories(a, R) /\ Shrinks(d, a) /\ Chat!Waiting(a) = Chat!Waiting(d) \ Chat!Ids(items)
<1> DEFINE a == Chat!Acknowledged(d, items)
<1>0. d \in Chat!Db
  BY DEF DbTyped
<1>1. /\ a \in Chat!Db /\ a.log = d.log /\ a.pin = d.pin /\ a.prev = d.prev
      /\ Chat!Waiting(a) = Chat!Waiting(d) \ Chat!Ids(items)
      /\ \A u \in Chat!Updates :
           /\ a.rows[u].text = d.rows[u].text /\ a.rows[u].target = d.rows[u].target
           /\ a.rows[u].state = IF u \in Chat!Ids(items) THEN "committed" ELSE d.rows[u].state
  BY <1>0, AckFacts
<1>2. \A k \in DOMAIN d.log : d.log[k].u \in Chat!Updates
  <2>1. d.log \in Seq(Chat!Entry)
    BY <1>0, DbFields
  <2>2. \A k \in DOMAIN d.log : d.log[k] \in Chat!Entry
    BY <2>1
  <2> QED BY <2>2 DEF Chat!Entry
<1> HIDE DEF a
<1>3. DbTyped(a)
  <2>1. ASSUME NEW u \in Chat!Updates,
               a.rows[u].state # "none" PROVE a.rows[u].text \in Chat!Updates
    BY <1>1, <2>1 DEF DbTyped
  <2> QED BY <1>1, <2>1 DEF DbTyped
<1>4. Passed(a, R)
  BY <1>1 DEF Histories, Passed, Chat!Waiting
<1>5. Landed(a)
  BY <1>1, <1>2 DEF Histories, Landed
<1>6. Cut(a)
  BY <1>1, <1>2 DEF Histories, Cut
<1>7. Sorted(a, R)
  BY <1>1 DEF Histories, Sorted
<1>8. Behind(a, R)
  BY <1>1 DEF Histories, Behind, Chat!Waiting
<1>9. Shrinks(d, a)
  <2>1. ASSUME NEW u \in Chat!Updates
        PROVE  a.rows[u].state = "none" <=> d.rows[u].state = "none"
    BY <1>1
  <2> QED BY <1>1, <2>1 DEF Shrinks
<1> QED BY <1>1, <1>3, <1>4, <1>5, <1>6, <1>7, <1>8, <1>9 DEF Histories, a

-----------------------------------------------------------------------------
(* A flush. *)

Flushing(d, items, batch, bk, ch, R) ==
  /\ DbTyped(d) /\ Histories(d, R)
  /\ items \in Seq(Chat!Item) /\ batch \in Seq(Chat!Item) /\ bk \in Seq(Chat!Item)
  /\ Queue(items, bk, ch, R)
  /\ Backed(d, items, bk, ch)
  /\ Batched(d, items, batch, R)
  /\ Chat!Waiting(d) \subseteq HeldIds(items, bk, ch)

\* Rows that only get committed leave the queue backed and batched.
LEMMA ShrinkKeeps ==
  ASSUME NEW d, NEW e, Shrinks(d, e), NEW items \in Seq(Chat!Item), NEW batch \in Seq(Chat!Item),
         NEW bk \in Seq(Chat!Item), NEW ch, NEW R, StepIds(ch) \subseteq Chat!Updates
  PROVE  /\ Backed(d, items, bk, ch) => Backed(e, items, bk, ch)
         /\ Batched(d, items, batch, R) => Batched(e, items, batch, R)
         /\ \A s \in Seq(Chat!Item) : Texts(d, s) => Texts(e, s)
<1>1. ASSUME NEW s \in Seq(Chat!Item), Texts(d, s) PROVE Texts(e, s)
  <2> SUFFICES ASSUME NEW k \in DOMAIN s, Chat!Pending(e, s[k].u)
               PROVE  s[k].text = e.rows[s[k].u].text
    BY DEF Texts
  <2>1. s[k].u \in Chat!Updates
    BY IdsIn DEF Chat!Item
  <2>2. Chat!Pending(d, s[k].u)
    BY <2>1 DEF Shrinks, Chat!Waiting
  <2> QED BY <1>1, <2>1, <2>2 DEF Texts, Shrinks
<1>2. HeldIds(items, bk, ch) \subseteq Chat!Updates
  BY IdsIn DEF HeldIds
<1>3. Backed(d, items, bk, ch) => Backed(e, items, bk, ch)
  BY <1>1, <1>2 DEF Backed, Shrinks
<1>4. Batched(d, items, batch, R) => Batched(e, items, batch, R)
  BY <1>1 DEF Batched, Shrinks
<1> QED BY <1>1, <1>3, <1>4

\* A commit only commits rows.
LEMMA CommitShrinks ==
  ASSUME NEW d, DbTyped(d), NEW items \in Seq(Chat!Item), NEW conv \in [Chat!Updates -> Nat],
         NEW turn \in BOOLEAN, NEW R, Histories(d, R), Committable(d, items, conv, turn, R)
  PROVE  LET c == Chat!Committed(d, items, conv, turn)
         IN  DbTyped(c) /\ Histories(c, R) /\ Shrinks(d, c) /\ Chat!Waiting(c) = Chat!Waiting(d) \ Chat!Ids(items)
<1> DEFINE c == Chat!Committed(d, items, conv, turn)
           a == Chat!Acknowledged(d, items)
<1>0. d \in Chat!Db
  BY DEF DbTyped
<1>1. c \in Chat!Db /\ c.pin = d.pin /\ c.prev = d.prev /\ c.rows = a.rows
      /\ Chat!Waiting(c) = Chat!Waiting(d) \ Chat!Ids(items)
  BY <1>0, CommitFacts
<1>2. Histories(c, R)
  BY <1>0, CommitHistories
<1>3. \A u \in Chat!Ids(items) : d.rows[u].state # "none"
  BY DEF Committable, Chat!Waiting, Chat!Pending
<1>4. DbTyped(a) /\ Shrinks(d, a) /\ Chat!Waiting(a) = Chat!Waiting(d) \ Chat!Ids(items)
      /\ a.pin = d.pin /\ a.prev = d.prev
  BY <1>0, <1>3, AckHistories, AckFacts
<1> HIDE DEF a, c
<1>5. DbTyped(c)
  BY <1>1, <1>4 DEF DbTyped
<1>6. Shrinks(d, c)
  BY <1>1, <1>4 DEF Shrinks
<1> QED BY <1>1, <1>2, <1>5, <1>6 DEF c

\* Of what waits in the items, those assigned to some of the histories may be committed.
LEMMA ArchiveKeeps ==
  ASSUME NEW d, NEW items, NEW batch, NEW bk, NEW ch, NEW R, NEW convs,
         StepIds(ch) \subseteq Chat!Updates,
         Flushing(d, items, batch, bk, ch, R), 0 \notin convs
  PROVE  LET e == Chat!ArchivedTo(d, batch, convs)
         IN  /\ Flushing(e, items, batch, bk, ch, R) /\ Shrinks(d, e)
             /\ Chat!Waiting(e) = Chat!Waiting(d) \ {u \in Chat!Ids(batch) : d.rows[u].target \in convs}
<1> DEFINE us == {u \in Chat!Waiting(d) : d.rows[u].target \in convs}
           passed == Chat!Only(batch, us)
           conv == [u \in Chat!Updates |-> d.rows[u].target]
           e == Chat!ArchivedTo(d, batch, convs)
<1>1. e = Chat!Committed(d, passed, conv, FALSE)
  BY DEF Chat!ArchivedTo
<1>2. batch \in Seq(Chat!Item) /\ Distinct(batch) /\ Ordered(batch, R) /\ Texts(d, batch)
  BY DEF Flushing, Batched
<1>3. /\ passed \in Seq(Chat!Item) /\ Chat!Ids(passed) = Chat!Ids(batch) \cap us
      /\ Distinct(passed) /\ Ordered(passed, R) /\ Texts(d, passed)
  BY <1>2, OnlyKeeps
<1>4. d \in Chat!Db /\ DbTyped(d) /\ Histories(d, R)
  BY DEF Flushing, DbTyped
<1>5. conv \in [Chat!Updates -> Nat]
  BY <1>4, DbFields DEF Chat!Row
<1>6. \A u \in Chat!Updates : conv[u] = d.rows[u].target
  OBVIOUS
<1> HIDE DEF passed, conv
<1>7. Committable(d, passed, conv, FALSE, R)
  <2>1. Chat!Ids(passed) \subseteq Chat!Waiting(d)
    BY <1>3
  <2>2. \A u \in Chat!Ids(passed) : u \in Chat!Updates /\ d.rows[u].target \in convs
                               /\ d.rows[u].target # 0 /\ conv[u] = d.rows[u].target
    BY <1>3, <1>6 DEF Chat!Waiting
  <2>3. ASSUME NEW u \in Chat!Ids(passed) \ R, NEW v \in Chat!Waiting(d) \ R, v < u,
               v \notin Chat!Ids(passed)
        PROVE  d.rows[v].target # 0 /\ d.rows[v].target # conv[u]
    <3>1. d.rows[v].target # 0
      BY <1>4, <2>1, <2>2, <2>3 DEF Histories, Passed
    <3>2. v \in Chat!Updates /\ u \in Chat!Updates /\ ~ (u < v) /\ u \in Chat!Ids(items)
      BY <1>3, <2>2, <2>3 DEF Chat!Waiting, Chat!Updates, Flushing, Batched
    <3>3. v \in Chat!Ids(items)
      BY <2>3, <3>2 DEF Flushing, HeldIds, Queue, Before
    <3>4. v \in Chat!Ids(batch)
      BY <2>3, <3>3 DEF Flushing, Batched
    <3> QED BY <1>3, <2>2, <2>3, <3>1, <3>4
  <2> QED BY <1>3, <2>1, <2>2, <2>3 DEF Committable
<1>8. DbTyped(e) /\ Histories(e, R) /\ Shrinks(d, e) /\ Chat!Waiting(e) = Chat!Waiting(d) \ Chat!Ids(passed)
  <2>1. FALSE \in BOOLEAN
    OBVIOUS
  <2> DEFINE c == Chat!Committed(d, passed, conv, FALSE)
  <2>2. DbTyped(c) /\ Histories(c, R) /\ Shrinks(d, c) /\ Chat!Waiting(c) = Chat!Waiting(d) \ Chat!Ids(passed)
    BY <1>3, <1>4, <1>5, <1>7, <2>1, CommitShrinks
  <2> HIDE DEF e, c
  <2> QED BY <1>1, <2>2 DEF c
<1> HIDE DEF e
<1>9. Backed(e, items, bk, ch) /\ Batched(e, items, batch, R)
  BY <1>8, ShrinkKeeps DEF Flushing
<1>10. Flushing(e, items, batch, bk, ch, R)
  BY <1>8, <1>9 DEF Flushing
<1>11. Chat!Waiting(e) = Chat!Waiting(d) \ {u \in Chat!Ids(batch) : d.rows[u].target \in convs}
  BY <1>3, <1>8
<1> QED BY <1>8, <1>10, <1>11 DEF e

\* What may be admitted: all of it waits, nothing of it was passed.
Admissible(d, batch) == Chat!Ids(batch) \subseteq Chat!Waiting(d) /\ \A u \in Chat!Ids(batch) : d.rows[u].target = 0

\* What remains when all that is assigned was archived goes to the current conversation.
LEMMA RestAdmissible ==
  ASSUME NEW d, NEW items, NEW batch, NEW bk, NEW ch, NEW R,
         StepIds(ch) \subseteq Chat!Updates,
         Flushing(d, items, batch, bk, ch, R)
  PROVE  LET a == Chat!Archived(d, batch)
             rest == Chat!Remaining(d, batch)
         IN  Flushing(a, items, rest, bk, ch, R) /\ Admissible(a, rest) /\ Shrinks(d, a)
<1> DEFINE a == Chat!Archived(d, batch)
           rest == Chat!Remaining(d, batch)
           us == {u \in Chat!Waiting(d) : d.rows[u].target = 0}
           convs == 1 .. Len(d.prev)
<1>1. Flushing(a, items, batch, bk, ch, R) /\ Shrinks(d, a)
      /\ Chat!Waiting(a) = Chat!Waiting(d) \ {u \in Chat!Ids(batch) : d.rows[u].target \in convs}
  <2>1. 0 \notin convs
    OBVIOUS
  <2>2. a = Chat!ArchivedTo(d, batch, convs)
    BY DEF Chat!Archived
  <2> HIDE DEF convs, a
  <2> QED BY <2>1, <2>2, ArchiveKeeps
<1>2. batch \in Seq(Chat!Item) /\ Distinct(batch) /\ Ordered(batch, R) /\ Texts(d, batch)
      /\ items \in Seq(Chat!Item) /\ bk \in Seq(Chat!Item)
  BY DEF Flushing, Batched
<1>3. rest = Chat!Only(batch, us)
  BY DEF Chat!Remaining
<1>4. /\ rest \in Seq(Chat!Item) /\ Chat!Ids(rest) = Chat!Ids(batch) \cap us
      /\ Distinct(rest) /\ Ordered(rest, R) /\ Texts(d, rest)
  <2> HIDE DEF rest, us
  <2> QED BY <1>2, <1>3, OnlyKeeps
<1>5. \A u \in Chat!Updates : d.rows[u].target # 0 => d.rows[u].target \in convs
  <2>1. d \in Chat!Db /\ \A u \in Chat!Updates : d.rows[u].target <= Len(d.prev)
    BY DEF Flushing, DbTyped
  <2>2. \A u \in Chat!Updates : d.rows[u].target \in Nat
    BY <2>1, DbFields DEF Chat!Row
  <2>3. Len(d.prev) \in Nat
    BY <2>1, DbFields
  <2> QED BY <2>1, <2>2, <2>3
<1> HIDE DEF a, rest, convs
<1>6. Texts(a, rest)
  BY <1>1, <1>2, <1>4, ShrinkKeeps
<1>7. 0 \notin convs
  BY DEF convs
<1>8. Chat!Ids(rest) \subseteq Chat!Waiting(a) /\ \A u \in Chat!Ids(rest) : a.rows[u].target = 0
  BY <1>1, <1>4, <1>7 DEF Shrinks, Chat!Waiting
<1>9. Chat!Ids(items) \cap Chat!Waiting(a) \subseteq Chat!Ids(rest)
  <2> SUFFICES ASSUME NEW u \in Chat!Ids(items), u \in Chat!Waiting(a) PROVE u \in Chat!Ids(rest)
    OBVIOUS
  <2>1. u \in Chat!Waiting(d) /\ u \in Chat!Updates
    BY <1>1 DEF Chat!Waiting
  <2>2. u \in Chat!Ids(batch)
    BY <2>1 DEF Flushing, Batched
  <2>3. d.rows[u].target = 0
    BY <1>1, <1>5, <2>1, <2>2
  <2> QED BY <1>4, <2>1, <2>2, <2>3
<1>10. Batched(a, items, rest, R)
  BY <1>4, <1>6, <1>9 DEF Batched, Flushing
<1>11. Flushing(a, items, rest, bk, ch, R)
  BY <1>1, <1>4, <1>10 DEF Flushing
<1> QED BY <1>1, <1>8, <1>11 DEF Admissible, a, rest

\* A flush that ends leaves a queue without items.
LEMMA Emptied ==
  ASSUME NEW d, NEW items, NEW batch, NEW bk, NEW ch, NEW R,
         Flushing(d, items, batch, bk, ch, R), Chat!Ids(items) \cap Chat!Waiting(d) = {}
  PROVE  Flushing(d, <<>>, <<>>, bk, ch, R)
<1>1. <<>> \in Seq(Chat!Item) /\ Chat!Ids(<<>>) = {} /\ DOMAIN <<>> = {}
  BY DEF Chat!Ids
<1>2. \A e : e = <<>> => Distinct(e) /\ Ordered(e, R) /\ Texts(d, e)
  BY <1>1 DEF Distinct, Ordered, Texts
<1>3. Queue(<<>>, bk, ch, R)
  BY <1>1, <1>2 DEF Queue, Flushing, Before
<1>4. Backed(d, <<>>, bk, ch)
  BY <1>1, <1>2 DEF Backed, Flushing, HeldIds
<1>5. Batched(d, <<>>, <<>>, R)
  BY <1>1, <1>2 DEF Batched
<1>6. Chat!Waiting(d) \subseteq HeldIds(<<>>, bk, ch)
  BY <1>1 DEF Flushing, HeldIds
<1> QED BY <1>1, <1>3, <1>4, <1>5, <1>6 DEF Flushing

\* The items may go once none of them waits.
LEMMA Ending ==
  ASSUME NEW d, NEW e, NEW items, NEW batch, NEW bk, NEW ch, NEW R,
         StepIds(ch) \subseteq Chat!Updates,
         Flushing(d, items, batch, bk, ch, R),
         DbTyped(e), Histories(e, R), Shrinks(d, e), Chat!Waiting(e) = Chat!Waiting(d) \ Chat!Ids(batch)
  PROVE  Flushing(e, <<>>, <<>>, bk, ch, R)
<1>1. Backed(e, items, bk, ch) /\ Batched(e, items, batch, R)
  BY ShrinkKeeps DEF Flushing
<1>2. Flushing(e, items, batch, bk, ch, R)
  BY <1>1 DEF Flushing
<1>3. Chat!Ids(items) \cap Chat!Waiting(e) = {}
  BY DEF Flushing, Batched
<1> QED BY <1>2, <1>3, Emptied

\* A batch that is acknowledged leaves none of the items waiting.
LEMMA Acknowledging ==
  ASSUME NEW d, NEW items, NEW batch, NEW bk, NEW ch, NEW R,
         StepIds(ch) \subseteq Chat!Updates,
         Flushing(d, items, batch, bk, ch, R)
  PROVE  LET a == Chat!Acknowledged(d, batch)
         IN  Flushing(a, <<>>, <<>>, bk, ch, R) /\ Shrinks(d, a)
<1>1. \A u \in Chat!Ids(batch) : d.rows[u].state # "none"
  BY DEF Flushing, Batched, Backed, HeldIds
<1>2. LET a == Chat!Acknowledged(d, batch)
      IN  DbTyped(a) /\ Histories(a, R) /\ Shrinks(d, a) /\ Chat!Waiting(a) = Chat!Waiting(d) \ Chat!Ids(batch)
  BY <1>1, AckHistories DEF Flushing
<1> QED BY <1>2, Ending

\* A batch that is admitted leaves none of the items waiting.
LEMMA Admission ==
  ASSUME NEW d, NEW items, NEW batch, NEW bk, NEW ch, NEW R,
         StepIds(ch) \subseteq Chat!Updates,
         Flushing(d, items, batch, bk, ch, R), Admissible(d, batch)
  PROVE  LET c == Chat!Admitted(d, batch)
         IN  Flushing(c, <<>>, <<>>, bk, ch, R) /\ Shrinks(d, c)
<1> DEFINE conv == [u \in Chat!Updates |-> d.pin]
<1>1. d \in Chat!Db /\ DbTyped(d) /\ Histories(d, R) /\ batch \in Seq(Chat!Item)
  BY DEF Flushing, DbTyped
<1>2. conv \in [Chat!Updates -> Nat] /\ TRUE \in BOOLEAN
  BY <1>1, DbFields
<1>3. Chat!Admitted(d, batch) = Chat!Committed(d, batch, conv, TRUE)
  BY DEF Chat!Admitted
<1> HIDE DEF conv
<1>4. Committable(d, batch, conv, TRUE, R)
  <2>1. ASSUME NEW u \in Chat!Ids(batch) \ R, NEW v \in Chat!Waiting(d) \ R, v < u,
               v \notin Chat!Ids(batch)
        PROVE  FALSE
    <3>1. v \in Chat!Updates /\ u \in Chat!Updates /\ ~ (u < v) /\ u \in Chat!Ids(items)
      BY <2>1 DEF Admissible, Chat!Waiting, Chat!Updates, Flushing, Batched
    <3>2. v \in Chat!Ids(items)
      BY <2>1, <3>1 DEF Flushing, HeldIds, Queue, Before
    <3> QED BY <2>1, <3>2 DEF Flushing, Batched
  <2>2. Distinct(batch) /\ Ordered(batch, R) /\ Texts(d, batch)
    BY DEF Flushing, Batched
  <2> QED BY <2>1, <2>2 DEF Committable, Admissible
<1> DEFINE c == Chat!Committed(d, batch, conv, TRUE)
<1>5. DbTyped(c) /\ Histories(c, R) /\ Shrinks(d, c) /\ Chat!Waiting(c) = Chat!Waiting(d) \ Chat!Ids(batch)
  BY <1>1, <1>2, <1>4, CommitShrinks
<1> HIDE DEF c
<1>6. Flushing(c, <<>>, <<>>, bk, ch, R)
  BY <1>5, Ending
<1> QED BY <1>3, <1>5, <1>6 DEF c

\* The items in front of the bucket are one sequence in order.
LEMMA ConcatItems ==
  ASSUME NEW s \in Seq(Chat!Item), NEW t \in Seq(Chat!Item)
  PROVE  /\ s \o t \in Seq(Chat!Item)
         /\ \A k \in DOMAIN (s \o t) :
              \/ k \in DOMAIN s /\ (s \o t)[k] = s[k]
              \/ \E i \in DOMAIN t : k = Len(s) + i /\ (s \o t)[k] = t[i]
         /\ \A k \in DOMAIN s : k \in DOMAIN (s \o t) /\ (s \o t)[k] = s[k]
         /\ \A i \in DOMAIN t : Len(s) + i \in DOMAIN (s \o t) /\ (s \o t)[Len(s) + i] = t[i]
         /\ Len(s) \in Nat /\ DOMAIN s = 1 .. Len(s)
         /\ Len(t) \in Nat /\ DOMAIN t = 1 .. Len(t)
<1>1. /\ Len(s) \in Nat /\ Len(s \o t) = Len(s) + Len(t)
      /\ DOMAIN (s \o t) = 1 .. Len(s \o t)
      /\ \A k \in 1 .. Len(s) : (s \o t)[k] = s[k]
      /\ \A k \in 1 .. Len(t) : (s \o t)[Len(s) + k] = t[k]
  BY Joined
<1>2. s \o t \in Seq(Chat!Item) /\ Len(t) \in Nat /\ DOMAIN s = 1 .. Len(s) /\ DOMAIN t = 1 .. Len(t)
  OBVIOUS
<1> DEFINE r == s \o t
<1> HIDE DEF r
<1>3. ASSUME NEW k \in DOMAIN r
      PROVE  \/ k \in DOMAIN s /\ r[k] = s[k]
             \/ \E i \in DOMAIN t : k = Len(s) + i /\ r[k] = t[i]
  <2>1. CASE k <= Len(s)
    BY <1>1, <1>2, <2>1 DEF r
  <2>2. CASE ~ (k <= Len(s))
    <3>1. k - Len(s) \in DOMAIN t /\ k = Len(s) + (k - Len(s))
      BY <1>1, <1>2, <2>2 DEF r
    <3> QED BY <1>1, <1>2, <3>1 DEF r
  <2> QED BY <2>1, <2>2
<1>4. \A k \in DOMAIN s : k \in DOMAIN r /\ r[k] = s[k]
  BY <1>1, <1>2 DEF r
<1>5. \A i \in DOMAIN t : Len(s) + i \in DOMAIN r /\ r[Len(s) + i] = t[i]
  BY <1>1, <1>2 DEF r
<1> QED BY <1>1, <1>2, <1>3, <1>4, <1>5 DEF r

\* A flush that fails puts what still waits back in front of the bucket.
LEMMA Retaining ==
  ASSUME NEW d, NEW items, NEW batch, NEW bk, NEW ch, NEW R,
         Flushing(d, items, batch, bk, ch, R)
  PROVE  Flushing(d, <<>>, <<>>, items \o bk, ch, R)
<1> DEFINE r == items \o bk
<1>1. items \in Seq(Chat!Item) /\ bk \in Seq(Chat!Item) /\ Queue(items, bk, ch, R) /\ Backed(d, items, bk, ch)
  BY DEF Flushing
<1>2. /\ r \in Seq(Chat!Item)
      /\ \A k \in DOMAIN r :
           \/ k \in DOMAIN items /\ r[k] = items[k]
           \/ \E i \in DOMAIN bk : k = Len(items) + i /\ r[k] = bk[i]
      /\ \A k \in DOMAIN items : k \in DOMAIN r /\ r[k] = items[k]
      /\ \A i \in DOMAIN bk : Len(items) + i \in DOMAIN r /\ r[Len(items) + i] = bk[i]
      /\ Len(items) \in Nat /\ DOMAIN items = 1 .. Len(items)
      /\ Len(bk) \in Nat /\ DOMAIN bk = 1 .. Len(bk)
  BY <1>1, ConcatItems
<1> HIDE DEF r
<1>3. Chat!Ids(r) = Chat!Ids(items) \cup Chat!Ids(bk)
  BY <1>2 DEF Chat!Ids
<1>4. Distinct(r)
  <2> SUFFICES ASSUME NEW j \in DOMAIN r, NEW k \in DOMAIN r, r[j].u = r[k].u PROVE j = k
    BY DEF Distinct
  <2>1. \A i \in DOMAIN items, h \in DOMAIN bk : items[i].u # bk[h].u
    BY <1>1 DEF Queue, Chat!Ids
  <2>2. CASE j \in DOMAIN items /\ r[j] = items[j]
    <3>1. k \in DOMAIN items /\ r[k] = items[k]
      BY <1>2, <2>1, <2>2
    <3> QED BY <1>1, <2>2, <3>1 DEF Queue, Distinct
  <2>3. ASSUME NEW i \in DOMAIN bk, j = Len(items) + i, r[j] = bk[i] PROVE j = k
    <3>1. PICK h \in DOMAIN bk : k = Len(items) + h /\ r[k] = bk[h]
      BY <1>2, <2>1, <2>3
    <3> QED BY <1>1, <2>3, <3>1 DEF Queue, Distinct
  <2> QED BY <1>2, <2>2, <2>3
<1>5. Ordered(r, R)
  <2> SUFFICES ASSUME NEW j \in DOMAIN r, NEW k \in DOMAIN r, j < k, r[j].u \notin R,
                      r[k].u \notin R
               PROVE  r[j].u < r[k].u
    BY DEF Ordered
  <2>1. \A i \in DOMAIN items, h \in DOMAIN bk :
          items[i].u \notin R /\ bk[h].u \notin R => items[i].u < bk[h].u
    BY <1>1 DEF Queue, Chat!Ids, Before
  <2>2. CASE k \in DOMAIN items /\ r[k] = items[k]
    <3>1. j \in DOMAIN items /\ r[j] = items[j]
      BY <1>2, <2>2
    <3> QED BY <1>1, <2>2, <3>1 DEF Queue, Ordered
  <2>3. ASSUME NEW i \in DOMAIN bk, k = Len(items) + i, r[k] = bk[i] PROVE r[j].u < r[k].u
    <3>1. CASE j \in DOMAIN items /\ r[j] = items[j]
      BY <2>1, <2>3, <3>1
    <3>2. ASSUME NEW h \in DOMAIN bk, j = Len(items) + h, r[j] = bk[h] PROVE r[j].u < r[k].u
      <4>1. h < i
        BY <1>2, <2>3, <3>2
      <4> QED BY <1>1, <2>3, <3>2, <4>1 DEF Queue, Ordered
    <3> QED BY <1>2, <3>1, <3>2
  <2> QED BY <1>2, <2>2, <2>3
<1>6. Texts(d, r)
  <2> SUFFICES ASSUME NEW k \in DOMAIN r, Chat!Pending(d, r[k].u)
               PROVE  r[k].text = d.rows[r[k].u].text
    BY DEF Texts
  <2>1. CASE k \in DOMAIN items /\ r[k] = items[k]
    BY <1>1, <2>1 DEF Backed, Texts
  <2>2. ASSUME NEW i \in DOMAIN bk, r[k] = bk[i]
        PROVE  r[k].text = d.rows[r[k].u].text
    BY <1>1, <2>2 DEF Backed, Texts
  <2> QED BY <1>2, <2>1, <2>2
<1>7. <<>> \in Seq(Chat!Item) /\ Chat!Ids(<<>>) = {} /\ DOMAIN <<>> = {}
  BY DEF Chat!Ids
<1>8. \A e : e = <<>> => Distinct(e) /\ Ordered(e, R) /\ Texts(d, e)
  BY <1>7 DEF Distinct, Ordered, Texts
<1>9. HeldIds(<<>>, r, ch) = HeldIds(items, bk, ch)
  BY <1>3, <1>7 DEF HeldIds
<1>10. Queue(<<>>, r, ch, R)
  BY <1>1, <1>3, <1>4, <1>5, <1>7, <1>8 DEF Queue, Before
<1>11. Backed(d, <<>>, r, ch)
  BY <1>1, <1>6, <1>8, <1>9 DEF Backed
<1>12. Batched(d, <<>>, <<>>, R)
  BY <1>7, <1>8 DEF Batched
<1> QED BY <1>2, <1>7, <1>9, <1>10, <1>11, <1>12 DEF Flushing, r

\* A flush takes the bucket over as its items.
LEMMA Starting ==
  ASSUME NEW d, NEW bk, NEW ch, NEW R, Flushing(d, <<>>, <<>>, bk, ch, R)
  PROVE  Flushing(d, bk, bk, <<>>, ch, R)
<1>7. <<>> \in Seq(Chat!Item) /\ Chat!Ids(<<>>) = {} /\ DOMAIN <<>> = {}
  BY DEF Chat!Ids
<1>8. \A e : e = <<>> => Distinct(e) /\ Ordered(e, R) /\ Texts(d, e)
  BY <1>7 DEF Distinct, Ordered, Texts
<1>9. HeldIds(bk, <<>>, ch) = HeldIds(<<>>, bk, ch)
  BY <1>7 DEF HeldIds
<1>10. Queue(bk, <<>>, ch, R)
  BY <1>7, <1>8 DEF Queue, Before, Flushing
<1>11. Backed(d, bk, <<>>, ch)
  BY <1>8, <1>9 DEF Backed, Flushing
<1>12. Batched(d, bk, bk, R)
  BY DEF Batched, Flushing, Queue, Backed
<1> QED BY <1>7, <1>9, <1>10, <1>11, <1>12 DEF Flushing

\* What a new conversation, or the selection of one, leaves as it was.
LEMMA SameKeeps ==
  ASSUME NEW d, NEW e, NEW items, NEW batch, NEW bk, NEW ch, NEW R,
         Flushing(d, items, batch, bk, ch, R), DbTyped(e), e.rows = d.rows, e.log = d.log
  PROVE  Flushing(e, items, batch, bk, ch, R)
<1>1. Chat!Waiting(e) = Chat!Waiting(d) /\ Histories(e, R) /\ \A s : Texts(d, s) => Texts(e, s)
  BY SameHistories DEF Flushing
<1>2. Backed(e, items, bk, ch) /\ Batched(e, items, batch, R)
  BY <1>1 DEF Flushing, Backed, Batched
<1> QED BY <1>1, <1>2 DEF Flushing

\* A new conversation changes the pin and no row.
LEMMA Minting ==
  ASSUME NEW d, DbTyped(d)
  PROVE  LET e == Chat!Mint(d)
         IN  /\ DbTyped(e) /\ e.rows = d.rows /\ e.log = d.log
             /\ Len(d.prev) \in Nat
             /\ Len(e.prev) = Len(d.prev) + 1 /\ e.pin = Len(d.prev) + 1
<1> DEFINE e == Chat!Mint(d)
           longer == Append(d.prev, d.pin)
<1>1. d \in Chat!Db /\ d.prev \in Seq(Nat) /\ d.pin \in Nat
  BY DbFields DEF DbTyped
<1>2. longer \in Seq(Nat) /\ Len(longer) = Len(d.prev) + 1 /\ Len(d.prev) \in Nat
      /\ DOMAIN longer = 1 .. Len(d.prev) + 1 /\ DOMAIN d.prev = 1 .. Len(d.prev)
      /\ \A c \in DOMAIN longer : longer[c] = IF c <= Len(d.prev) THEN d.prev[c] ELSE d.pin
  BY <1>1
<1>3. e = [d EXCEPT !.prev = longer, !.pin = Len(d.prev) + 1]
  BY DEF Chat!Mint
<1> HIDE DEF longer, e
<1>4. e \in Chat!Db /\ e.rows = d.rows /\ e.log = d.log /\ e.prev = longer /\ e.pin = Len(d.prev) + 1
  <2>1. e.prev = longer /\ e.pin = Len(d.prev) + 1 /\ e.rows = d.rows /\ e.log = d.log
    BY <1>1, <1>3 DEF Chat!Db
  <2> DEFINE n == Len(d.prev) + 1
  <2>2. n \in Nat
    BY <1>2
  <2>3. e = [d EXCEPT !.prev = longer, !.pin = n]
    BY <1>3
  <2> HIDE DEF n
  <2>4. e \in Chat!Db
    BY <1>1, <1>2, <2>2, <2>3 DEF Chat!Db
  <2> QED BY <2>1, <2>4
<1>5. ASSUME NEW c \in DOMAIN longer PROVE longer[c] < c
  <2>1. CASE c <= Len(d.prev)
    <3>1. c \in DOMAIN d.prev /\ longer[c] = d.prev[c]
      BY <1>2, <2>1
    <3> QED BY <3>1 DEF DbTyped
  <2>2. CASE ~ (c <= Len(d.prev))
    <3>1. longer[c] = d.pin /\ c = Len(d.prev) + 1 /\ d.pin <= Len(d.prev)
      BY <1>2, <2>2 DEF DbTyped
    <3> QED BY <1>1, <1>2, <3>1
  <2> QED BY <2>1, <2>2
<1>6. \A u \in Chat!Updates : d.rows[u].target \in Nat
  BY <1>1, DbFields DEF Chat!Row
<1>7. DbTyped(e)
  BY <1>1, <1>2, <1>4, <1>5, <1>6 DEF DbTyped
<1> QED BY <1>2, <1>4, <1>7 DEF e

\* A flush that began with bk beside it: what its step leaves.
Outcome(bk) ==
  /\ Flushing(db', flight'.items, flight'.batch, bucket', chain, refused)
  /\ \A u \in Chat!Updates : db'.rows[u].state = "none" <=> db.rows[u].state = "none"
  /\ flight' \in Chat!Flights
  /\ flight'.at = "none" => flight' = Chat!NoFlight
  /\ flight'.at = "over" => flight' = [Chat!NoFlight EXCEPT !.at = "over"]
  /\ flight'.at \in {"checking", "marking"} => flight'.items # <<>> /\ db'.pin # 0
  /\ timers' \in [quiet : BOOLEAN, max : BOOLEAN] /\ deferred' \in BOOLEAN /\ spoiled' \in BOOLEAN
  /\ bucket' = <<>> => timers' = Chat!Off /\ ~deferred'
  /\ live' \subseteq 1 .. Len(db'.prev)
  /\ mishaps' \in 0 .. MaxMishaps
  /\ bot \in {"chains", "second"} =>
       \/ bucket' = <<>> \/ spoiled'
       \/ /\ bucket' = bk /\ deferred' = deferred /\ flight'.at # "none"
          /\ spoiled' = (spoiled /\ bot = "second")

\* A flush that is over holds nothing.
LEMMA OverIs ==
  /\ Chat!Over \in Chat!Flights /\ Chat!Over.items = <<>> /\ Chat!Over.batch = <<>>
  /\ Chat!Over.at = "none" => Chat!Over = Chat!NoFlight
  /\ Chat!Over.at = "over" => Chat!Over = [Chat!NoFlight EXCEPT !.at = "over"]
  /\ Chat!Over.at \notin {"checking", "marking"}
  /\ lane = "dm" => Chat!Over.at = "over"
  /\ lane = "app" => Chat!Over = Chat!NoFlight
<1>1. <<>> \in Seq(Chat!Item)
  OBVIOUS
<1> QED BY <1>1 DEF Chat!Over, Chat!NoFlight, Chat!Flights

\* A flush that ends is a legal outcome.
LEMMA EndsOutcome ==
  ASSUME Chat!TypeOK, NEW e, NEW alive, NEW bk, lane = "dm" \/ bk = <<>>,
         Flushing(e, <<>>, <<>>, bk, chain, refused), Shrinks(db, e),
         alive \subseteq 1 .. Len(e.prev), Chat!Ends(e, alive, bk)
  PROVE  Outcome(bk)
<1>1. /\ db' = e /\ live' = alive /\ flight' = Chat!Over /\ bucket' = bk
      /\ timers' = (IF bk = <<>> THEN Chat!Off ELSE timers)
      /\ deferred' = (deferred /\ bk # <<>>)
      /\ spoiled' = (spoiled /\ bot = "second") /\ mishaps' = mishaps
  BY DEF Chat!Ends, Chat!Beside, Chat!Unspoiled
<1>2. Chat!Off \in [quiet : BOOLEAN, max : BOOLEAN]
  BY DEF Chat!Off
<1>3. /\ timers' \in [quiet : BOOLEAN, max : BOOLEAN] /\ deferred' \in BOOLEAN
      /\ spoiled' \in BOOLEAN
      /\ bucket' = <<>> => timers' = Chat!Off /\ ~deferred'
      /\ mishaps' \in 0 .. MaxMishaps
  BY <1>1, <1>2 DEF Chat!TypeOK
<1>4. bucket' = <<>> \/ (bucket' = bk /\ deferred' = deferred /\ flight'.at # "none")
  BY <1>1, OverIs DEF Chat!TypeOK
<1>5. Flushing(db', flight'.items, flight'.batch, bucket', chain, refused)
  BY <1>1, OverIs
<1>6. \A u \in Chat!Updates : db'.rows[u].state = "none" <=> db.rows[u].state = "none"
  BY <1>1 DEF Shrinks
<1>7. live' \subseteq 1 .. Len(db'.prev)
  BY <1>1
<1>8. /\ flight' \in Chat!Flights
      /\ flight'.at = "none" => flight' = Chat!NoFlight
      /\ flight'.at = "over" => flight' = [Chat!NoFlight EXCEPT !.at = "over"]
      /\ flight'.at \notin {"checking", "marking"}
  BY <1>1, OverIs
<1> QED BY <1>1, <1>3, <1>4, <1>5, <1>6, <1>7, <1>8 DEF Outcome

\* A flush that awaits is a legal outcome.
LEMMA WaitsOutcome ==
  ASSUME Chat!TypeOK, NEW e, NEW at \in {"checking", "marking"}, NEW items, NEW batch, NEW bk,
         Flushing(e, items, batch, bk, chain, refused), items # <<>>, e.pin # 0,
         \A u \in Chat!Updates : e.rows[u].state = "none" <=> db.rows[u].state = "none",
         live \subseteq 1 .. Len(e.prev), Chat!Waits(e, at, items, batch, bk)
  PROVE  Outcome(bk)
<1>1. /\ db' = e /\ live' = live /\ bucket' = bk
      /\ flight' = [at |-> at, items |-> items, batch |-> batch, asked |-> e.pin]
      /\ timers' = (IF bk = <<>> THEN Chat!Off ELSE timers)
      /\ deferred' = (deferred /\ bk # <<>>)
      /\ spoiled' = (spoiled /\ bot = "second") /\ mishaps' = mishaps
  BY DEF Chat!Waits, Chat!Beside, Chat!Unspoiled
<1>2. Chat!Off \in [quiet : BOOLEAN, max : BOOLEAN]
  BY DEF Chat!Off
<1>3. /\ timers' \in [quiet : BOOLEAN, max : BOOLEAN] /\ deferred' \in BOOLEAN
      /\ spoiled' \in BOOLEAN
      /\ bucket' = <<>> => timers' = Chat!Off /\ ~deferred'
      /\ mishaps' \in 0 .. MaxMishaps
  BY <1>1, <1>2 DEF Chat!TypeOK
<1>4. bucket' = <<>> \/ (bucket' = bk /\ deferred' = deferred)
  BY <1>1 DEF Chat!TypeOK
<1>5. flight'.items = items /\ flight'.batch = batch /\ flight'.at = at
  BY <1>1
<1>6. items \in Seq(Chat!Item) /\ batch \in Seq(Chat!Item) /\ e.pin \in Nat
  BY DbFields DEF Flushing, DbTyped
<1>7. flight' \in Chat!Flights
  BY <1>1, <1>6 DEF Chat!Flights
<1> QED BY <1>1, <1>3, <1>4, <1>5, <1>7 DEF Outcome

\* A flush that fails is a legal outcome.
LEMMA BreaksOutcome ==
  ASSUME Chat!TypeOK, Chat!InboxAssumption, NEW e, NEW items, NEW batch, NEW bk,
         Flushing(e, items, batch, bk, chain, refused), Shrinks(db, e), items # <<>>,
         Chat!Mishap, Chat!Breaks(e, items, bk)
  PROVE  Outcome(bk)
<1>1. /\ db' = e /\ live' = live /\ flight' = Chat!Over /\ bucket' = items \o bk
      /\ timers' = Chat!On /\ deferred' = FALSE
      /\ spoiled' = (bot \in {"chains", "second"})
      /\ mishaps < MaxMishaps /\ mishaps' = mishaps + 1
  BY DEF Chat!Breaks, Chat!Retained, Chat!Mishap
<1>2. Chat!On \in [quiet : BOOLEAN, max : BOOLEAN]
  BY DEF Chat!On
<1>3. Flushing(e, <<>>, <<>>, items \o bk, chain, refused)
  BY Retaining
<1>4. items \o bk # <<>>
  <2>1. items \in Seq(Chat!Item) /\ bk \in Seq(Chat!Item)
    BY DEF Flushing
  <2>2. 1 \in DOMAIN items
    BY <2>1
  <2>3. 1 \in DOMAIN (items \o bk)
    BY <2>1, <2>2, ConcatItems
  <2> QED BY <2>3
<1>5. mishaps' \in 0 .. MaxMishaps
  BY <1>1 DEF Chat!TypeOK, Chat!InboxAssumption
<1>6. live' \subseteq 1 .. Len(db'.prev)
  BY <1>1 DEF Chat!TypeOK, Shrinks
<1>7. \A u \in Chat!Updates : db'.rows[u].state = "none" <=> db.rows[u].state = "none"
  BY <1>1 DEF Shrinks
<1>8. /\ Flushing(db', flight'.items, flight'.batch, bucket', chain, refused)
      /\ flight' \in Chat!Flights
      /\ flight'.at = "none" => flight' = Chat!NoFlight
      /\ flight'.at = "over" => flight' = [Chat!NoFlight EXCEPT !.at = "over"]
      /\ flight'.at \notin {"checking", "marking"}
  BY <1>1, <1>3, OverIs
<1>9. timers' \in [quiet : BOOLEAN, max : BOOLEAN] /\ deferred' \in BOOLEAN /\ spoiled' \in BOOLEAN
      /\ bucket' # <<>>
  <2>1. timers' \in [quiet : BOOLEAN, max : BOOLEAN] /\ deferred' \in BOOLEAN
    BY <1>1, <1>2
  <2>2. spoiled' \in BOOLEAN
    BY <1>1
  <2> QED BY <1>1, <1>4, <2>1, <2>2
<1>10. bot \in {"chains", "second"} => spoiled'
  BY <1>1
<1> QED BY <1>5, <1>6, <1>7, <1>8, <1>9, <1>10 DEF Outcome

\* The downloads of a chain are of updates.
LEMMA StepsTyped ==
  ASSUME NEW ch \in Seq([u : Chat!Updates, edit : 0 .. MaxUpdates])
  PROVE  StepIds(ch) \subseteq Chat!Updates
<1> DEFINE S == [u : Chat!Updates, edit : 0 .. MaxUpdates]
<1>1. ch \in Seq(S)
  OBVIOUS
<1>2. \A s \in S : s.u \in Chat!Updates
  OBVIOUS
<1> HIDE DEF S
<1>3. \A k \in DOMAIN ch : ch[k] \in S
  BY <1>1
<1> QED BY <1>2, <1>3 DEF StepIds, Steps

\* Two commits only commit rows.
LEMMA ShrinksTwice ==
  ASSUME NEW d, NEW e, NEW f, Shrinks(d, e), Shrinks(e, f)
  PROVE  Shrinks(d, f)
BY DEF Shrinks

\* An admission is a legal outcome.
LEMMA AdmitsOutcome ==
  ASSUME Chat!TypeOK, lane = "dm", NEW d, NEW items, NEW batch, NEW bk,
         Flushing(d, items, batch, bk, chain, refused), Shrinks(db, d), d.pin # 0,
         Admissible(d, batch), Chat!Admits(d, batch, bk)
  PROVE  Outcome(bk)
<1>1. StepIds(chain) \subseteq Chat!Updates
  BY StepsTyped DEF Chat!TypeOK
<1>2. d.pin \in 1 .. Len(d.prev) /\ live \subseteq 1 .. Len(d.prev)
  <2>1. d.pin \in Nat /\ d.pin <= Len(d.prev) /\ Len(d.prev) \in Nat
    BY DbFields DEF Flushing, DbTyped
  <2>2. live \subseteq 1 .. Len(d.prev)
    BY DEF Chat!TypeOK, Shrinks
  <2> QED BY <2>1, <2>2
<1>3. CASE ~ listed
  <2> DEFINE a == Chat!Acknowledged(d, batch)
  <2>1. Flushing(a, <<>>, <<>>, bk, chain, refused) /\ Shrinks(d, a)
    BY <1>1, Acknowledging
  <2>2. Chat!Ends(a, live, bk)
    BY <1>3 DEF Chat!Admits
  <2> HIDE DEF a
  <2>3. Shrinks(db, a) /\ live \subseteq 1 .. Len(a.prev)
    BY <1>2, <2>1, ShrinksTwice DEF Shrinks
  <2> QED BY <2>1, <2>2, <2>3, EndsOutcome
<1>4. CASE listed
  <2> DEFINE c == Chat!Admitted(d, batch)
             alive == IF Chat!Closed THEN live ELSE live \cup {d.pin}
  <2>1. Flushing(c, <<>>, <<>>, bk, chain, refused) /\ Shrinks(d, c)
    BY <1>1, Admission
  <2>2. Chat!Ends(c, alive, bk)
    BY <1>4 DEF Chat!Admits
  <2>3. alive \subseteq 1 .. Len(d.prev)
    BY <1>2
  <2> HIDE DEF c, alive
  <2>4. Shrinks(db, c) /\ alive \subseteq 1 .. Len(c.prev)
    BY <2>1, <2>3, ShrinksTwice DEF Shrinks
  <2> QED BY <2>1, <2>2, <2>4, EndsOutcome
<1> QED BY <1>3, <1>4

\* What is done with the rest of a batch is a legal outcome.
LEMMA RoutesOutcome ==
  ASSUME Chat!TypeOK, lane = "dm", NEW d, NEW items, NEW batch, NEW bk,
         Flushing(d, items, batch, bk, chain, refused), Shrinks(db, d), items # <<>>,
         Admissible(d, batch), Chat!Routes(d, items, batch, bk)
  PROVE  Outcome(bk)
<1>1. StepIds(chain) \subseteq Chat!Updates
  BY StepsTyped DEF Chat!TypeOK
<1>2. live \subseteq 1 .. Len(d.prev)
  BY DEF Chat!TypeOK, Shrinks
<1>3. CASE Chat!Ends(Chat!Acknowledged(d, batch), live, bk)
  <2> DEFINE a == Chat!Acknowledged(d, batch)
  <2>1. Flushing(a, <<>>, <<>>, bk, chain, refused) /\ Shrinks(d, a)
    BY <1>1, Acknowledging
  <2>2. Chat!Ends(a, live, bk)
    BY <1>3
  <2> HIDE DEF a
  <2>3. Shrinks(db, a) /\ live \subseteq 1 .. Len(a.prev)
    BY <1>2, <2>1, ShrinksTwice DEF Shrinks
  <2> QED BY <2>1, <2>2, <2>3, EndsOutcome
<1>4. CASE Chat!Waits(Chat!Mint(d), "marking", items, batch, bk)
  <2> DEFINE e == Chat!Mint(d)
  <2>1. DbTyped(e) /\ e.rows = d.rows /\ e.log = d.log /\ Len(d.prev) \in Nat
        /\ Len(e.prev) = Len(d.prev) + 1 /\ e.pin = Len(d.prev) + 1
    BY Minting DEF Flushing
  <2>2. Chat!Waits(e, "marking", items, batch, bk)
    BY <1>4
  <2> HIDE DEF e
  <2>3. Flushing(e, items, batch, bk, chain, refused)
    BY <2>1, SameKeeps
  <2>4. \A u \in Chat!Updates : e.rows[u].state = "none" <=> db.rows[u].state = "none"
    BY <2>1 DEF Shrinks
  <2>5. live \subseteq 1 .. Len(e.prev) /\ e.pin # 0
    BY <1>2, <2>1
  <2> QED BY <2>2, <2>3, <2>4, <2>5, WaitsOutcome
<1>5. CASE d.pin # 0 /\ Chat!Admits(d, batch, bk)
  BY <1>5, AdmitsOutcome
<1>6. CASE d.pin # 0 /\ Chat!Waits(d, "checking", items, batch, bk)
  <2>1. \A u \in Chat!Updates : d.rows[u].state = "none" <=> db.rows[u].state = "none"
    BY DEF Shrinks
  <2> QED BY <1>2, <1>6, <2>1, WaitsOutcome
<1> QED BY <1>3, <1>4, <1>5, <1>6 DEF Chat!Routes

\* The archives a failed commit got done leave the histories in order.
LEMMA BegunKeeps ==
  ASSUME NEW d, NEW items, NEW batch, NEW bk, NEW ch, NEW R,
         StepIds(ch) \subseteq Chat!Updates,
         Flushing(d, items, batch, bk, ch, R), NEW e \in Chat!Begun(d, batch)
  PROVE  Flushing(e, items, batch, bk, ch, R) /\ Shrinks(d, e)
<1>1. PICK k \in 0 .. Len(batch) :
        e = Chat!ArchivedTo(d, batch, {d.rows[u].target :
              u \in Chat!Ids(SubSeq(batch, 1, k)) \cap Chat!Waiting(d)} \ {0})
  BY DEF Chat!Begun
<1> DEFINE convs == {d.rows[u].target : u \in Chat!Ids(SubSeq(batch, 1, k)) \cap Chat!Waiting(d)} \ {0}
<1>2. 0 \notin convs /\ e = Chat!ArchivedTo(d, batch, convs)
  BY <1>1
<1> HIDE DEF convs
<1> QED BY <1>2, ArchiveKeeps

\* Flush, when none is in progress, and its continuation after an await.
LEMMA FlushOutcome ==
  ASSUME Chat!TypeOK, Chat!InboxAssumption, lane = "dm", bucket # <<>>,
         Flushing(db, <<>>, <<>>, bucket, chain, refused), Chat!Flush(bucket)
  PROVE  Outcome(<<>>)
<1>1. StepIds(chain) \subseteq Chat!Updates
  BY StepsTyped DEF Chat!TypeOK
<1>2. Flushing(db, bucket, bucket, <<>>, chain, refused)
  BY Starting
<1>3. CASE Chat!Routes(Chat!Archived(db, bucket), bucket, Chat!Remaining(db, bucket), <<>>)
  <2>1. /\ Flushing(Chat!Archived(db, bucket), bucket, Chat!Remaining(db, bucket), <<>>, chain, refused)
        /\ Admissible(Chat!Archived(db, bucket), Chat!Remaining(db, bucket))
        /\ Shrinks(db, Chat!Archived(db, bucket))
    BY <1>1, <1>2, RestAdmissible
  <2> QED BY <1>3, <2>1, RoutesOutcome
<1>4. ASSUME Chat!Mishap, NEW done \in Chat!Begun(db, bucket), Chat!Breaks(done, bucket, <<>>)
      PROVE  Outcome(<<>>)
  <2>1. Flushing(done, bucket, bucket, <<>>, chain, refused) /\ Shrinks(db, done)
    BY <1>1, <1>2, BegunKeeps
  <2> QED BY <1>4, <2>1, BreaksOutcome
<1> QED BY <1>3, <1>4 DEF Chat!Flush

\* The continuation after an await is a legal outcome.
LEMMA ResumeOutcome ==
  ASSUME Chat!TypeOK, Chat!InboxAssumption, lane = "dm", flight.items # <<>>, db.pin # 0,
         Flushing(db, flight.items, flight.batch, bucket, chain, refused), Chat!Resume
  PROVE  Outcome(bucket)
<1> DEFINE d == Chat!Archived(db, flight.batch)
           rest == Chat!Remaining(db, flight.batch)
<1>1. StepIds(chain) \subseteq Chat!Updates
  BY StepsTyped DEF Chat!TypeOK
<1>2. /\ Flushing(d, flight.items, rest, bucket, chain, refused) /\ Admissible(d, rest)
      /\ Shrinks(db, d)
  BY <1>1, RestAdmissible
<1>3. d.pin # 0 /\ live \subseteq 1 .. Len(d.prev)
  BY <1>2 DEF Shrinks, Chat!TypeOK
<1>4. \/ Chat!Routes(d, flight.items, rest, bucket)
      \/ Chat!Admits(d, rest, bucket)
      \/ Chat!Waits(Chat!Mint(d), "marking", flight.items, rest, bucket)
      \/ /\ Chat!Mishap
         /\ \E done \in Chat!Begun(db, flight.batch) : Chat!Breaks(done, flight.items, bucket)
  BY DEF Chat!Resume, Chat!Rechecked
<1> HIDE DEF d, rest
<1>5. CASE Chat!Routes(d, flight.items, rest, bucket)
  BY <1>2, <1>5, RoutesOutcome
<1>6. CASE Chat!Admits(d, rest, bucket)
  BY <1>2, <1>3, <1>6, AdmitsOutcome
<1>7. CASE Chat!Waits(Chat!Mint(d), "marking", flight.items, rest, bucket)
  <2> DEFINE e == Chat!Mint(d)
  <2>1. DbTyped(e) /\ e.rows = d.rows /\ e.log = d.log /\ Len(d.prev) \in Nat
        /\ Len(e.prev) = Len(d.prev) + 1 /\ e.pin = Len(d.prev) + 1
    BY <1>2, Minting DEF Flushing
  <2>2. Chat!Waits(e, "marking", flight.items, rest, bucket)
    BY <1>7
  <2> HIDE DEF e
  <2>3. Flushing(e, flight.items, rest, bucket, chain, refused)
    BY <1>2, <2>1, SameKeeps
  <2>4. \A u \in Chat!Updates : e.rows[u].state = "none" <=> db.rows[u].state = "none"
    BY <1>2, <2>1 DEF Shrinks
  <2>5. live \subseteq 1 .. Len(e.prev) /\ e.pin # 0
    BY <1>3, <2>1
  <2> QED BY <2>2, <2>3, <2>4, <2>5, WaitsOutcome
<1>8. ASSUME Chat!Mishap, NEW done \in Chat!Begun(db, flight.batch),
             Chat!Breaks(done, flight.items, bucket)
      PROVE  Outcome(bucket)
  <2>1. Flushing(done, flight.items, flight.batch, bucket, chain, refused) /\ Shrinks(db, done)
    BY <1>1, BegunKeeps
  <2> QED BY <1>8, <2>1, BreaksOutcome
<1> QED BY <1>4, <1>5, <1>6, <1>7, <1>8

-----------------------------------------------------------------------------
(* The invariant, taken apart and put together. *)

\* What TypeOK says beside the tables.
RestTyped ==
  /\ lane \in {"dm", "app"}
  /\ sent \in Seq([kind : Chat!Kinds, of : 0 .. MaxUpdates]) /\ Len(sent) <= MaxUpdates
  /\ confirmed \in 0 .. handled /\ handled \in 0 .. Len(sent)
  /\ listed \in BOOLEAN
  /\ bot \in Chat!Phases /\ timers \in [quiet : BOOLEAN, max : BOOLEAN]
  /\ chain \in Seq([u : Chat!Updates, edit : 0 .. MaxUpdates])
  /\ bucket \in Seq(Chat!Item) /\ flight \in Chat!Flights
  /\ (bucket = <<>> => timers = Chat!Off /\ ~deferred)
  /\ deferred \in BOOLEAN /\ spoiled \in BOOLEAN
  /\ live \subseteq 1 .. Len(db.prev) /\ refused \subseteq Chat!Updates
  /\ mishaps \in 0 .. MaxMishaps

\* The type invariant, without the tables and with them.
LEMMA Typing ==
  Chat!TypeOK <=> RestTyped /\ DbTyped(db)
BY DEF Chat!TypeOK, RestTyped, DbTyped

\* A channel that is up has its flush, bucket and chain in one queue.
LEMMA Apart ==
  ASSUME IInv, bot # "down"
  PROVE  Flushing(db, flight.items, flight.batch, bucket, chain, refused)
BY Typing DEF IInv, Flushing, Kept, RestTyped, Chat!Flights

\* The parts of a channel that is up make the invariant.
LEMMA Together ==
  ASSUME Flushing(db', flight'.items, flight'.batch, bucket', chain', refused'), RestTyped',
         bot' # "down", Recorded', AppOnly', Phased'
  PROVE  IInv'
<1>1. Chat!TypeOK'
  <2>1. RestTyped' /\ DbTyped(db') => Chat!TypeOK'
    BY DEF Chat!TypeOK, RestTyped, DbTyped
  <2> QED BY <2>1 DEF Flushing
<1>2. Kept'
  BY DEF Kept, Flushing
<1> QED BY <1>1, <1>2 DEF IInv, Flushing

\* A row that is only committed stays recorded.
LEMMA SameRecorded ==
  ASSUME Recorded, UNCHANGED <<sent, refused>>,
         \A u \in Chat!Updates : db'.rows[u].state = "none" <=> db.rows[u].state = "none"
  PROVE  Recorded'
BY DEF Recorded

\* A step of the flush, in a channel that is up.
LEMMA OutcomeKeeps ==
  ASSUME IInv, NEW bk, Outcome(bk), AppOnly',
         UNCHANGED <<lane, sent, confirmed, handled, listed, chain, refused>>,
         bot' \in Chat!Phases \ {"down", "off"},
         bot' = "second" => /\ chain = <<>> /\ bot \in {"chains", "second"}
                            /\ bk = <<>> \/ (bot = "second" /\ bk = bucket)
  PROVE  IInv'
<1>1. Chat!TypeOK /\ RestTyped /\ Recorded /\ Phased
  BY Typing DEF IInv
<1>2. Flushing(db', flight'.items, flight'.batch, bucket', chain', refused')
  BY DEF Outcome
<1>3. RestTyped'
  <2>1. bucket' \in Seq(Chat!Item)
    BY <1>2 DEF Flushing
  <2> QED BY <1>1, <2>1 DEF RestTyped, Outcome
<1>4. Recorded'
  BY <1>1, SameRecorded DEF Outcome
<1>5. Phased'
  <2>1. bot' = "second" /\ bucket' # <<>> => spoiled' \/ (deferred' /\ flight'.at # "none")
    <3> SUFFICES ASSUME bot' = "second", bucket' # <<>>, ~spoiled'
                 PROVE  deferred' /\ flight'.at # "none"
      OBVIOUS
    <3>1. /\ bucket' = bk /\ deferred' = deferred /\ flight'.at # "none"
          /\ spoiled' = (spoiled /\ bot = "second")
      BY DEF Outcome
    <3>2. bot = "second" /\ bk = bucket
      BY <3>1
    <3>3. ~spoiled
      BY <3>1, <3>2
    <3> QED BY <1>1, <3>1, <3>2, <3>3 DEF Phased
  <2> QED BY <2>1 DEF Phased, Outcome
<1> QED BY <1>2, <1>3, <1>4, <1>5, Together

\* The app's channel archives nothing and asks nothing before it admits.
LEMMA AppFlush ==
  ASSUME IInv, Chat!InboxAssumption, lane = "app", bucket # <<>>, UNCHANGED <<lane, chain>>,
         Flushing(db, <<>>, <<>>, bucket, chain, refused), Chat!FlushApp(bucket)
  PROVE  Outcome(<<>>) /\ AppOnly'
<1>1. StepIds(chain) \subseteq Chat!Updates
  BY StepsTyped DEF Chat!TypeOK, IInv
<1>2. Flushing(db, bucket, bucket, <<>>, chain, refused)
  BY Starting
<1>3. /\ db.pin = 1 /\ db.prev = <<0>> /\ \A u \in Chat!Updates : db.rows[u].target = 0
      /\ Chat!Ids(bucket) \subseteq Chat!Waiting(db) /\ StepIds(chain) \subseteq Chat!Waiting(db)
      /\ Chat!Ids(bucket) \subseteq Chat!Updates
  BY IdsIn DEF IInv, AppOnly, HeldIds, Chat!TypeOK
<1>4. Shrinks(db, db) /\ Chat!TypeOK /\ live \subseteq 1 .. Len(db.prev) /\ Len(db.prev) = 1
  BY <1>3 DEF Shrinks, IInv, Chat!TypeOK
<1>5. Chat!Ids(bucket) \cap StepIds(chain) = {}
  BY <1>2 DEF Flushing, Queue
\* What a commit of the bucket leaves in the lane.
<1>6. ASSUME NEW e, Shrinks(db, e), Chat!Waiting(e) = Chat!Waiting(db) \ Chat!Ids(bucket),
             db' = e, flight' = Chat!Over, bucket' = <<>>
      PROVE  AppOnly'
  <2>1. flight' = Chat!NoFlight /\ Chat!NoFlight.items = <<>> /\ Chat!Ids(<<>>) = {}
    BY <1>6, OverIs DEF Chat!NoFlight, Chat!Ids
  <2>2. HeldIds(flight'.items, bucket', chain') \subseteq Chat!Waiting(db')
    BY <1>3, <1>5, <1>6, <2>1 DEF HeldIds
  <2> QED BY <1>3, <1>6, <2>1, <2>2 DEF AppOnly, Shrinks
<1>7. CASE Chat!Ends(Chat!Acknowledged(db, bucket), live, <<>>)
  <2> DEFINE e == Chat!Acknowledged(db, bucket)
  <2>1. Flushing(e, <<>>, <<>>, <<>>, chain, refused) /\ Shrinks(db, e)
    BY <1>1, <1>2, Acknowledging
  <2>2. Chat!Waiting(e) = Chat!Waiting(db) \ Chat!Ids(bucket)
    BY AckFacts DEF IInv, Chat!TypeOK
  <2>3. Chat!Ends(e, live, <<>>)
    BY <1>7
  <2> HIDE DEF e
  <2>4. live \subseteq 1 .. Len(e.prev)
    BY <1>4, <2>1 DEF Shrinks
  <2>5. db' = e /\ flight' = Chat!Over /\ bucket' = <<>>
    BY <2>3 DEF Chat!Ends, Chat!Beside
  <2> QED BY <1>4, <1>6, <2>1, <2>2, <2>3, <2>4, <2>5, EndsOutcome
<1>8. CASE Chat!Ends(Chat!Admitted(db, bucket), IF Chat!Closed THEN live ELSE live \cup {1}, <<>>)
  <2> DEFINE e == Chat!Admitted(db, bucket)
             alive == IF Chat!Closed THEN live ELSE live \cup {1}
  <2>1. Admissible(db, bucket)
    BY <1>3 DEF Admissible
  <2>2. Flushing(e, <<>>, <<>>, <<>>, chain, refused) /\ Shrinks(db, e)
    BY <1>1, <1>2, <2>1, Admission
  <2>3. Chat!Waiting(e) = Chat!Waiting(db) \ Chat!Ids(bucket)
    <3> DEFINE conv == [u \in Chat!Updates |-> db.pin]
    <3>1. db \in Chat!Db /\ bucket \in Seq(Chat!Item) /\ TRUE \in BOOLEAN
      BY <1>4 DEF Chat!TypeOK
    <3>2. conv \in [Chat!Updates -> Nat]
      BY <1>3
    <3>3. e = Chat!Committed(db, bucket, conv, TRUE)
      BY DEF Chat!Admitted
    <3> HIDE DEF conv, e
    <3> QED BY <3>1, <3>2, <3>3, CommitFacts
  <2>4. Chat!Ends(e, alive, <<>>)
    BY <1>8
  <2>5. alive \subseteq 1 .. Len(db.prev)
    BY <1>4
  <2> HIDE DEF e, alive
  <2>6. alive \subseteq 1 .. Len(e.prev)
    BY <2>2, <2>5 DEF Shrinks
  <2>7. db' = e /\ flight' = Chat!Over /\ bucket' = <<>>
    BY <2>4 DEF Chat!Ends, Chat!Beside
  <2> QED BY <1>4, <1>6, <2>2, <2>3, <2>4, <2>6, <2>7, EndsOutcome
<1>9. CASE Chat!Mishap /\ Chat!Breaks(db, bucket, <<>>)
  <2>1. Outcome(<<>>)
    BY <1>2, <1>4, <1>9, BreaksOutcome
  <2>2. db' = db /\ flight' = Chat!NoFlight /\ bucket' = bucket \o <<>>
    BY <1>9, OverIs DEF Chat!Breaks, Chat!Retained
  <2>3. bucket \o <<>> = bucket
    BY <1>4 DEF Chat!TypeOK
  <2>4. flight'.items = <<>> /\ Chat!Ids(<<>>) = {}
    BY <2>2 DEF Chat!NoFlight, Chat!Ids
  <2>5. HeldIds(flight'.items, bucket', chain') \subseteq Chat!Waiting(db')
    BY <1>3, <2>2, <2>3, <2>4 DEF HeldIds
  <2> QED BY <1>3, <2>1, <2>2, <2>5 DEF AppOnly
<1> QED BY <1>7, <1>8, <1>9 DEF Chat!FlushApp

\* A flush keeps the invariant, in either channel.
LEMMA AnyFlush ==
  ASSUME IInv, Chat!InboxAssumption, bucket # <<>>, UNCHANGED <<lane, chain, refused>>,
         flight.items = <<>>, flight.batch = <<>>, bot # "down", Chat!Flush(bucket)
  PROVE  Outcome(<<>>) /\ AppOnly'
<1>1. Flushing(db, <<>>, <<>>, bucket, chain, refused)
  BY Apart
<1>2. CASE lane = "app"
  BY <1>1, <1>2, AppFlush DEF Chat!Flush
<1>3. CASE lane # "app"
  <2>1. lane = "dm" /\ Chat!TypeOK
    BY <1>3 DEF IInv, Chat!TypeOK
  <2> QED BY <1>1, <2>1, FlushOutcome DEF AppOnly
<1> QED BY <1>2, <1>3

-----------------------------------------------------------------------------
(* The steps of the buffer and of the flush. *)

\* What is true of the app's channel is true of it without a flush.
LEMMA AppStays ==
  ASSUME IInv, UNCHANGED <<lane, db, flight, bucket, chain>>
  PROVE  AppOnly'
<1>1. AppOnly
  BY DEF IInv
<1> QED BY <1>1 DEF AppOnly

\* A step that changes neither the tables nor the queue.
LEMMA QuietKeeps ==
  ASSUME IInv, bot # "down", bot' # "down", RestTyped', Phased',
         UNCHANGED <<lane, sent, db, flight, bucket, chain, refused>>
  PROVE  IInv'
<1>1. Flushing(db', flight'.items, flight'.batch, bucket', chain', refused')
  BY Apart
<1>2. Recorded'
  BY DEF IInv, Recorded
<1>3. AppOnly'
  BY AppStays
<1> QED BY <1>1, <1>2, <1>3, Together

\* A timer that fires during a flush.
LEMMA DeferKeeps ==
  ASSUME IInv, NEW left \in [quiet : BOOLEAN, max : BOOLEAN], bucket # <<>>, flight.at # "none",
         deferred' = TRUE, timers' = left, spoiled' = (spoiled /\ bot = "second"),
         bot \notin {"down", "off"}, bot' \in Chat!Phases \ {"down", "off"},
         bot' = "second" => chain = <<>>,
         UNCHANGED <<lane, sent, confirmed, handled, listed, db, chain, bucket, flight, live,
                     refused, mishaps>>
  PROVE  IInv'
<1>1. RestTyped'
  BY Typing DEF IInv, RestTyped
<1>2. Phased'
  BY DEF IInv, Phased
<1> QED BY <1>1, <1>2, QuietKeeps

\* A flush at rest has no items.
LEMMA AtRest ==
  ASSUME IInv, flight.at \in {"none", "over"}
  PROVE  flight.items = <<>> /\ flight.batch = <<>>
BY DEF IInv, Phased, Chat!NoFlight

\* What fires is a bucket with something in it, in a channel that is up.
LEMMA FireKeeps ==
  ASSUME IInv, Chat!InboxAssumption, NEW left \in [quiet : BOOLEAN, max : BOOLEAN], bucket # <<>>,
         Chat!Fire(left), bot' \in Chat!Phases \ {"down", "off"}, bot \notin {"down", "off"},
         bot' = "second" => chain = <<>> /\ bot \in {"chains", "second"},
         UNCHANGED <<lane, sent, confirmed, handled, listed, chain, refused>>
  PROVE  IInv'
<1>1. CASE flight.at = "none"
  <2>1. Chat!Flush(bucket)
    BY <1>1 DEF Chat!Fire
  <2>2. Outcome(<<>>) /\ AppOnly'
    BY <1>1, <2>1, AtRest, AnyFlush
  <2> QED BY <2>2, OutcomeKeeps
<1>2. CASE flight.at # "none"
  <2>1. /\ deferred' = TRUE /\ timers' = left /\ spoiled' = (spoiled /\ bot = "second")
        /\ UNCHANGED <<db, live, bucket, flight, mishaps>>
    BY <1>2 DEF Chat!Fire, Chat!Unspoiled
  <2> QED BY <1>2, <2>1, DeferKeeps
<1> QED BY <1>1, <1>2

\* A bucket with something in it is in a channel that is up and not yet off.
LEMMA FilledIsUp ==
  ASSUME IInv, bucket # <<>>
  PROVE  bot \in Chat!Phases \ {"down", "off"}
BY DEF IInv, Kept, Phased, Chat!TypeOK

\* A timer fires, or goes by.
LEMMA TimerKeeps ==
  ASSUME IInv, Chat!InboxAssumption, Chat!Timer
  PROVE  IInv'
<1>1. timers \in [quiet : BOOLEAN, max : BOOLEAN]
  BY DEF IInv, Chat!TypeOK
<1>2. PICK left \in [quiet : BOOLEAN, max : BOOLEAN] : Chat!Fire(left) /\ (timers.quiet \/ timers.max)
  <2>1. CASE timers.quiet /\ Chat!Fire([timers EXCEPT !.quiet = FALSE])
    BY <1>1, <2>1
  <2>2. CASE timers.max /\ Chat!Fire(Chat!Off)
    BY <2>2 DEF Chat!Off
  <2> QED BY <2>1, <2>2 DEF Chat!Timer
<1>3. bucket # <<>>
  BY <1>2 DEF IInv, Chat!TypeOK, Chat!Off
<1>4. bot \in Chat!Phases \ {"down", "off"}
  BY <1>3, FilledIsUp
<1>5. UNCHANGED <<lane, sent, confirmed, handled, listed, bot, chain, refused>>
  BY DEF Chat!Timer
<1>6. bot = "second" => chain = <<>>
  BY DEF IInv, Phased
<1> QED BY <1>2, <1>3, <1>4, <1>5, <1>6, FireKeeps

\* A flush that awaits is not the app's.
LEMMA InFlightIsDm ==
  ASSUME IInv, flight.at # "none"
  PROVE  lane = "dm" /\ bot \in Chat!Phases \ {"down", "off"}
BY DEF IInv, AppOnly, Chat!NoFlight, Kept, Phased, Chat!TypeOK

\* What is said of the app's channel says nothing of another.
LEMMA DmIsNoApp ==
  ASSUME lane = "dm", UNCHANGED lane
  PROVE  AppOnly'
BY DEF AppOnly

\* A continuation after an await keeps the invariant.
LEMMA ResumeKeeps ==
  ASSUME IInv, Chat!InboxAssumption, Chat!Resume
  PROVE  IInv'
<1>1. flight.at \in {"checking", "marking"}
  BY DEF Chat!Resume
<1>2. lane = "dm" /\ bot \in Chat!Phases \ {"down", "off"}
  BY <1>1, InFlightIsDm
<1>3. flight.items # <<>> /\ db.pin # 0
  BY <1>1 DEF IInv, Phased
<1>4. Flushing(db, flight.items, flight.batch, bucket, chain, refused)
  BY <1>2, Apart
<1>5. Outcome(bucket)
  BY <1>2, <1>3, <1>4, ResumeOutcome DEF IInv
<1>6. UNCHANGED <<lane, sent, confirmed, handled, listed, bot, chain, refused>>
  BY DEF Chat!Resume
<1>7. AppOnly'
  BY <1>2, <1>6, DmIsNoApp
<1>8. bot = "second" => chain = <<>>
  BY DEF IInv, Phased
<1> QED BY <1>2, <1>5, <1>6, <1>7, <1>8, OutcomeKeeps

\* The end of a flush starts the next, or lets the second look go on.
LEMMA SettleKeeps ==
  ASSUME IInv, Chat!InboxAssumption, Chat!Settle
  PROVE  IInv'
<1>1. flight.at = "over" /\ flight.items = <<>> /\ flight.batch = <<>>
  BY AtRest DEF Chat!Settle
<1>2. lane = "dm" /\ bot \in Chat!Phases \ {"down", "off"}
  BY <1>1, InFlightIsDm
<1>3. UNCHANGED <<lane, sent, confirmed, handled, listed, bot, chain, refused>>
  BY DEF Chat!Settle
<1>4. bot = "second" => chain = <<>>
  BY DEF IInv, Phased
<1>5. CASE deferred
  <2>1. bucket # <<>>
    BY <1>5 DEF IInv, Chat!TypeOK
  <2>2. Chat!Flush(bucket)
    BY <1>5 DEF Chat!Settle, Chat!Follows
  <2>3. Outcome(<<>>) /\ AppOnly'
    BY <1>1, <1>2, <1>3, <2>1, <2>2, AnyFlush
  <2> QED BY <1>2, <1>3, <1>4, <2>3, OutcomeKeeps
<1>6. CASE ~deferred
  <2>1. flight' = Chat!NoFlight /\ UNCHANGED <<db, live, bucket, timers, deferred, spoiled, mishaps>>
    BY <1>6 DEF Chat!Settle, Chat!Follows
  <2>2. Flushing(db', flight'.items, flight'.batch, bucket', chain', refused')
    BY <1>1, <1>2, <1>3, <2>1, Apart DEF Chat!NoFlight
  <2>3. Chat!NoFlight \in Chat!Flights
    BY DEF Chat!NoFlight, Chat!Flights
  <2>4. RestTyped'
    BY <1>3, <2>1, <2>3, Typing DEF IInv, RestTyped
  <2>5. Recorded'
    BY <1>3, <2>1 DEF IInv, Recorded
  <2>6. AppOnly'
    BY <1>2, <1>3, DmIsNoApp
  <2>7. Phased'
    BY <1>2, <1>3, <1>6, <2>1 DEF IInv, Phased, Chat!NoFlight
  <2> QED BY <1>2, <1>3, <2>2, <2>4, <2>5, <2>6, <2>7, Together
<1> QED BY <1>5, <1>6

\* A drain that looks again, and one that ends.
LEMMA DrainKeeps ==
  ASSUME IInv, Chat!InboxAssumption, Chat!Drain
  PROVE  IInv'
<1>1. UNCHANGED <<lane, sent, confirmed, handled, listed, chain, refused>>
  BY DEF Chat!Drain
<1>2. ASSUME Chat!StartDrain, bot \in {"stopping", "chains"}, bot' \in {"first", "second"},
             bot' = "second" => chain = <<>> /\ bot = "chains"
      PROVE  IInv'
  <2>1. CASE bucket = <<>>
    <3>1. /\ spoiled' = (spoiled /\ bot = "second")
          /\ UNCHANGED <<db, live, bucket, timers, deferred, flight, mishaps>>
      BY <1>2, <2>1 DEF Chat!StartDrain, Chat!Unspoiled
    <3>2. RestTyped'
      BY <1>1, <1>2, <3>1, Typing DEF IInv, RestTyped, Chat!Phases
    <3>3. Phased'
      BY <1>1, <1>2, <2>1, <3>1 DEF IInv, Phased
    <3> QED BY <1>1, <1>2, <3>1, <3>2, <3>3, QuietKeeps
  <2>2. CASE bucket # <<>>
    <3>1. Chat!Fire(Chat!Off)
      BY <1>2, <2>2 DEF Chat!StartDrain
    <3>2. Chat!Off \in [quiet : BOOLEAN, max : BOOLEAN]
      BY DEF Chat!Off
    <3>3. bot' \in Chat!Phases \ {"down", "off"} /\ bot \notin {"down", "off"}
      BY <1>2 DEF Chat!Phases
    <3> QED BY <1>1, <1>2, <2>2, <3>1, <3>2, <3>3, FireKeeps
  <2> QED BY <2>1, <2>2
<1>3. ASSUME flight.at = "none", bot \in {"first", "second"},
             bot = "first" => bot' = "chains",
             bot = "second" => bot' = IF spoiled THEN "stuck" ELSE "off",
             UNCHANGED <<db, live, bucket, timers, deferred, flight, mishaps, spoiled>>
      PROVE  IInv'
  <2>1. RestTyped'
    BY <1>1, <1>3, Typing DEF IInv, RestTyped, Chat!Phases
  <2>2. Phased'
    BY <1>1, <1>3 DEF IInv, Phased
  <2>3. bot # "down" /\ bot' # "down"
    BY <1>3
  <2> QED BY <1>1, <1>3, <2>1, <2>2, <2>3, QuietKeeps
<1> QED BY <1>2, <1>3 DEF Chat!Drain, Chat!SecondLook

-----------------------------------------------------------------------------
(* The chain. *)

Step == [u : Chat!Updates, edit : 0 .. MaxUpdates]

\* The first download of a chain is before the others.
LEMMA FirstStep ==
  ASSUME NEW ch \in Seq(Step), ch # <<>>
  PROVE  /\ Head(ch) = ch[1] /\ ch[1] \in Step /\ 1 \in DOMAIN ch
         /\ Tail(ch) \in Seq(Step)
         /\ \A k \in DOMAIN Tail(ch) : k \in Nat /\ k + 1 \in DOMAIN ch /\ Tail(ch)[k] = ch[k + 1]
         /\ \A k \in DOMAIN ch : k = 1 \/ \E i \in DOMAIN Tail(ch) : k = i + 1
<1>1. Len(ch) \in Nat /\ Len(ch) >= 1 /\ DOMAIN ch = 1 .. Len(ch)
  OBVIOUS
<1>2. /\ Tail(ch) \in Seq(Step) /\ Len(Tail(ch)) = Len(ch) - 1
      /\ DOMAIN Tail(ch) = 1 .. Len(ch) - 1
      /\ \A k \in 1 .. Len(ch) - 1 : Tail(ch)[k] = ch[k + 1]
  OBVIOUS
<1>3. ASSUME NEW k \in DOMAIN ch, k # 1
      PROVE  \E i \in DOMAIN Tail(ch) : k = i + 1
  <2>1. k - 1 \in 1 .. Len(ch) - 1 /\ k = (k - 1) + 1
    BY <1>1, <1>3
  <2> QED BY <1>2, <2>1
<1>4. Head(ch) = ch[1] /\ ch[1] \in Step
  BY <1>1
<1>5. \A k \in 1 .. Len(ch) - 1 : k \in Nat /\ k + 1 \in 1 .. Len(ch)
  BY <1>1
<1> QED BY <1>1, <1>2, <1>3, <1>4, <1>5

\* What is behind the first step of a chain is a chain in order.
LEMMA LaterSteps ==
  ASSUME NEW ch \in Seq(Step), ch # <<>>, NEW R
  PROVE  LET t == Tail(ch)
         IN  /\ StepIds(t) \subseteq StepIds(ch)
             /\ StepsDistinct(ch) => StepsDistinct(t)
             /\ StepsOrdered(ch, R) => StepsOrdered(t, R)
             /\ ch[1].edit # 0 => StepIds(t) = StepIds(ch)
             /\ ch[1].edit = 0 =>
                  /\ StepIds(ch) = StepIds(t) \cup {ch[1].u}
                  /\ StepsDistinct(ch) => ch[1].u \notin StepIds(t)
                  /\ StepsOrdered(ch, R) => Before({ch[1].u}, StepIds(t), R)
<1> DEFINE t == Tail(ch)
<1>1. /\ ch[1] \in Step /\ 1 \in DOMAIN ch
      /\ \A k \in DOMAIN t : k \in Nat /\ k + 1 \in DOMAIN ch /\ t[k] = ch[k + 1]
      /\ \A k \in DOMAIN ch : k = 1 \/ \E i \in DOMAIN t : k = i + 1
  BY FirstStep
<1> HIDE DEF t
<1>2. \A k \in Steps(t) : k \in DOMAIN t /\ k + 1 \in Steps(ch) /\ t[k].u = ch[k + 1].u /\ k \in Nat
  BY <1>1 DEF Steps
<1>3. \A k \in Steps(ch) : k = 1 \/ \E i \in Steps(t) : k = i + 1
  BY <1>1 DEF Steps
<1>4. StepIds(t) \subseteq StepIds(ch)
  BY <1>2 DEF StepIds
<1>5. ASSUME StepsDistinct(ch) PROVE StepsDistinct(t)
  <2> SUFFICES ASSUME NEW j \in Steps(t), NEW k \in Steps(t), t[j].u = t[k].u PROVE j = k
    BY DEF StepsDistinct
  <2>1. j + 1 = k + 1
    BY <1>2, <1>5 DEF StepsDistinct
  <2> QED BY <1>2, <2>1
<1>6. ASSUME StepsOrdered(ch, R) PROVE StepsOrdered(t, R)
  <2> SUFFICES ASSUME NEW j \in Steps(t), NEW k \in Steps(t), j < k, t[j].u \notin R,
                      t[k].u \notin R
               PROVE  t[j].u < t[k].u
    BY DEF StepsOrdered
  <2>1. j + 1 < k + 1
    BY <1>2
  <2> QED BY <1>2, <1>6, <2>1 DEF StepsOrdered
<1>7. ASSUME ch[1].edit # 0 PROVE StepIds(t) = StepIds(ch)
  <2>1. \A k \in Steps(ch) : \E i \in Steps(t) : k = i + 1
    BY <1>3, <1>7 DEF Steps
  <2> QED BY <1>2, <1>4, <2>1 DEF StepIds
<1>8. ASSUME ch[1].edit = 0
      PROVE  /\ StepIds(ch) = StepIds(t) \cup {ch[1].u}
             /\ StepsDistinct(ch) => ch[1].u \notin StepIds(t)
             /\ StepsOrdered(ch, R) => Before({ch[1].u}, StepIds(t), R)
  <2>1. 1 \in Steps(ch)
    BY <1>1, <1>8 DEF Steps
  <2>2. StepIds(ch) = StepIds(t) \cup {ch[1].u}
    BY <1>2, <1>3, <1>4, <2>1 DEF StepIds
  <2>3. \A k \in Steps(t) : k + 1 \in Steps(ch) /\ 1 < k + 1 /\ 1 # k + 1 /\ t[k].u = ch[k + 1].u
    <3> TAKE k \in Steps(t)
    <3>1. k \in Nat /\ k >= 1
      <4>1. t \in Seq(Step)
        BY FirstStep DEF t
      <4> QED BY <1>2, <4>1
    <3> QED BY <1>2, <3>1
  <2>4. StepsDistinct(ch) => ch[1].u \notin StepIds(t)
    BY <2>1, <2>3 DEF StepsDistinct, StepIds
  <2>5. StepsOrdered(ch, R) => Before({ch[1].u}, StepIds(t), R)
    BY <2>1, <2>3 DEF StepsOrdered, StepIds, Before
  <2> QED BY <2>2, <2>4, <2>5
<1> QED BY <1>4, <1>5, <1>6, <1>7, <1>8 DEF t

\* The places of a sequence with an item behind it.
LEMMA ItemAdded ==
  ASSUME NEW s \in Seq(Chat!Item), NEW i \in Chat!Item
  PROVE  /\ Append(s, i) \in Seq(Chat!Item) /\ Append(s, i) # <<>>
         /\ Len(s) + 1 \in DOMAIN Append(s, i) /\ Append(s, i)[Len(s) + 1] = i
         /\ Len(s) \in Nat /\ DOMAIN s = 1 .. Len(s)
         /\ \A k \in DOMAIN s : k \in DOMAIN Append(s, i) /\ Append(s, i)[k] = s[k]
         /\ \A k \in DOMAIN Append(s, i) :
              (k \in DOMAIN s /\ Append(s, i)[k] = s[k]) \/ k = Len(s) + 1
OBVIOUS

\* The first download is over: its item follows what the buffer holds.
LEMMA PushedItem ==
  ASSUME NEW d, NEW items, NEW batch, NEW bk, NEW ch \in Seq(Step), NEW R,
         Flushing(d, items, batch, bk, ch, R), ch # <<>>, ch[1].edit = 0
  PROVE  LET u == ch[1].u
             i == [u |-> u, text |-> d.rows[u].text]
         IN  Flushing(d, items, batch, Append(bk, i), Tail(ch), R) /\ Append(bk, i) # <<>>
<1> DEFINE u == ch[1].u
           i == [u |-> u, text |-> d.rows[u].text]
           b == Append(bk, i)
           t == Tail(ch)
<1>1. /\ StepsDistinct(t) /\ StepsOrdered(t, R) /\ StepIds(t) \subseteq StepIds(ch)
      /\ StepIds(ch) = StepIds(t) \cup {u} /\ u \notin StepIds(t)
      /\ Before({u}, StepIds(t), R)
  BY LaterSteps DEF Flushing, Queue
<1>2. u \in Chat!Updates
  BY FirstStep DEF Step
<1>3. d.rows[u].state # "none" /\ u \notin Chat!Ids(bk) /\ u \notin Chat!Ids(items)
  BY <1>1 DEF Flushing, Backed, HeldIds, Queue
<1>4. i \in Chat!Item /\ i.u = u /\ i.text = d.rows[u].text
  BY <1>2, <1>3 DEF Chat!Item, Flushing, DbTyped
<1>5. bk \in Seq(Chat!Item)
  BY DEF Flushing
<1> HIDE DEF i, u
<1>6. /\ b \in Seq(Chat!Item) /\ b # <<>>
      /\ Len(bk) + 1 \in DOMAIN b /\ b[Len(bk) + 1] = i
      /\ Len(bk) \in Nat /\ DOMAIN bk = 1 .. Len(bk)
      /\ \A k \in DOMAIN bk : k \in DOMAIN b /\ b[k] = bk[k]
      /\ \A k \in DOMAIN b : (k \in DOMAIN bk /\ b[k] = bk[k]) \/ k = Len(bk) + 1
  BY <1>4, <1>5, ItemAdded
<1> HIDE DEF b, t
<1>7. Chat!Ids(b) = Chat!Ids(bk) \cup {u}
  BY <1>4, <1>6 DEF Chat!Ids
<1>8. Distinct(b)
  <2>1. Distinct(bk) /\ \A k \in DOMAIN bk : bk[k].u # u
    BY <1>3 DEF Flushing, Queue, Chat!Ids
  <2> QED BY <1>4, <1>6, <2>1 DEF Distinct
<1>9. Ordered(b, R)
  <2>1. Ordered(bk, R) /\ \A k \in DOMAIN bk : bk[k].u \notin R /\ u \notin R => bk[k].u < u
    BY <1>1 DEF Flushing, Queue, Chat!Ids, Before
  <2> SUFFICES ASSUME NEW j \in DOMAIN b, NEW k \in DOMAIN b, j < k, b[j].u \notin R,
                      b[k].u \notin R
               PROVE  b[j].u < b[k].u
    BY DEF Ordered
  <2>2. j \in DOMAIN bk /\ b[j] = bk[j]
    BY <1>6
  <2>3. CASE k \in DOMAIN bk /\ b[k] = bk[k]
    BY <2>1, <2>2, <2>3 DEF Ordered
  <2>4. CASE k = Len(bk) + 1
    BY <1>4, <1>6, <2>1, <2>2, <2>4
  <2> QED BY <1>6, <2>3, <2>4
<1>10. Texts(d, b)
  <2> SUFFICES ASSUME NEW k \in DOMAIN b,
                      Chat!Pending(d, b[k].u) PROVE b[k].text = d.rows[b[k].u].text
    BY DEF Texts
  <2>1. Texts(d, bk)
    BY DEF Flushing, Backed
  <2>2. CASE k \in DOMAIN bk /\ b[k] = bk[k]
    BY <2>1, <2>2 DEF Texts
  <2>3. CASE k = Len(bk) + 1
    BY <1>4, <1>6, <2>3
  <2> QED BY <1>6, <2>2, <2>3
<1>11. HeldIds(items, b, t) = HeldIds(items, bk, ch)
  BY <1>1, <1>7 DEF HeldIds
<1>12. Queue(items, b, t, R)
  <2>1. Queue(items, bk, ch, R)
    BY DEF Flushing
  <2>2. /\ Chat!Ids(items) \cap Chat!Ids(b) = {} /\ Chat!Ids(items) \cap StepIds(t) = {}
        /\ Chat!Ids(b) \cap StepIds(t) = {}
    BY <1>1, <1>3, <1>7, <2>1 DEF Queue
  <2>3. /\ Before(Chat!Ids(items), Chat!Ids(b), R) /\ Before(Chat!Ids(items), StepIds(t), R)
        /\ Before(Chat!Ids(b), StepIds(t), R)
    BY <1>1, <1>7, <2>1 DEF Queue, Before
  <2> QED BY <1>1, <1>8, <1>9, <2>1, <2>2, <2>3 DEF Queue
<1>13. Backed(d, items, b, t)
  BY <1>10, <1>11 DEF Flushing, Backed
<1> QED BY <1>6, <1>11, <1>12, <1>13 DEF Flushing, i, u, b, t

\* An edit's step is over, or an edit is put behind: the downloads are as they were.
LEMMA SameSteps ==
  ASSUME NEW d, NEW items, NEW batch, NEW bk, NEW ch, NEW new, NEW R,
         Flushing(d, items, batch, bk, ch, R),
         StepIds(new) = StepIds(ch), StepsDistinct(new), StepsOrdered(new, R)
  PROVE  Flushing(d, items, batch, bk, new, R)
<1>1. HeldIds(items, bk, new) = HeldIds(items, bk, ch)
  BY DEF HeldIds
<1>2. Queue(items, bk, new, R)
  BY DEF Flushing, Queue
<1> QED BY <1>1, <1>2 DEF Flushing, Backed

\* An edit changes the row and the item it finds in the bucket.
LEMMA AmendedItem ==
  ASSUME NEW d, NEW items, NEW batch, NEW bk, NEW ch, NEW R, StepIds(ch) \subseteq Chat!Updates,
         Flushing(d, items, batch, bk, ch, R),
         NEW u \in Chat!Waiting(d), u \in Chat!Ids(bk), NEW e \in Chat!Updates
  PROVE  LET b == [k \in DOMAIN bk |-> IF bk[k].u = u THEN [bk[k] EXCEPT !.text = e] ELSE bk[k]]
             f == [d EXCEPT !.rows[u].text = e]
         IN  /\ Flushing(f, items, batch, b, ch, R) /\ (b = <<>> => bk = <<>>)
             /\ f.pin = d.pin /\ f.prev = d.prev /\ Chat!Waiting(f) = Chat!Waiting(d)
             /\ Chat!Ids(b) = Chat!Ids(bk)
             /\ \A v \in Chat!Updates : /\ f.rows[v].state = d.rows[v].state
                                        /\ f.rows[v].target = d.rows[v].target
<1> DEFINE b == [k \in DOMAIN bk |-> IF bk[k].u = u THEN [bk[k] EXCEPT !.text = e] ELSE bk[k]]
           f == [d EXCEPT !.rows[u].text = e]
<1>1. d \in Chat!Db /\ DbTyped(d) /\ bk \in Seq(Chat!Item) /\ u \in Chat!Updates
  BY DEF Flushing, DbTyped, Chat!Waiting
<1>2. e \in Nat /\ \A v \in Chat!Updates : d.rows[v] \in Chat!Row
  BY <1>1, DbFields DEF Chat!Updates
<1>3. ASSUME NEW v \in Chat!Updates
      PROVE  /\ f.rows[v] \in Chat!Row
             /\ f.rows[v].state = d.rows[v].state /\ f.rows[v].target = d.rows[v].target
             /\ f.rows[v].text = IF v = u THEN e ELSE d.rows[v].text
  BY <1>1, <1>2 DEF Chat!Db, Chat!Row
<1>4. /\ f \in Chat!Db /\ f.log = d.log /\ f.pin = d.pin /\ f.prev = d.prev
  <2> DEFINE rows == [d.rows EXCEPT ![u].text = e]
  <2>1. f = [d EXCEPT !.rows = rows]
    BY <1>1 DEF Chat!Db
  <2>2. rows \in [Chat!Updates -> Chat!Row]
    BY <1>1, <1>2 DEF Chat!Db, Chat!Row
  <2> HIDE DEF rows, f
  <2> QED BY <1>1, <2>1, <2>2 DEF Chat!Db
<1> HIDE DEF f
<1>5. Chat!Waiting(f) = Chat!Waiting(d)
  BY <1>3 DEF Chat!Waiting, Chat!Pending
<1>6. DbTyped(f)
  BY <1>1, <1>3, <1>4 DEF DbTyped
<1>7. \A k \in DOMAIN d.log : /\ d.rows[d.log[k].u].state = "committed"
                              /\ d.log[k].u \in Chat!Updates /\ d.log[k].u # u
  <2>1. d.log \in Seq(Chat!Entry)
    BY <1>1, DbFields
  <2>2. \A k \in DOMAIN d.log : d.log[k] \in Chat!Entry
    BY <2>1
  <2>3. \A k \in DOMAIN d.log : d.rows[d.log[k].u].state = "committed"
    BY DEF Flushing, Histories, Landed
  <2> QED BY <2>2, <2>3 DEF Chat!Entry, Chat!Waiting, Chat!Pending
<1>8. Histories(f, R)
  <2>1. Histories(d, R)
    BY DEF Flushing
  <2>2. Passed(f, R)
    BY <1>3, <1>5, <2>1 DEF Histories, Passed, Chat!Waiting
  <2>3. Landed(f)
    BY <1>3, <1>4, <1>7, <2>1 DEF Histories, Landed
  <2>4. Cut(f)
    BY <1>3, <1>4, <1>7, <2>1 DEF Histories, Cut
  <2>5. Sorted(f, R)
    BY <1>4, <2>1 DEF Histories, Sorted
  <2>6. Behind(f, R)
    BY <1>3, <1>4, <1>5, <2>1 DEF Histories, Behind, Chat!Waiting
  <2> QED BY <2>2, <2>3, <2>4, <2>5, <2>6 DEF Histories
<1>9. /\ DOMAIN b = DOMAIN bk /\ b \in Seq(Chat!Item)
      /\ \A k \in DOMAIN bk : b[k].u = bk[k].u
                              /\ b[k].text = IF bk[k].u = u THEN e ELSE bk[k].text
  <2>1. Len(bk) \in Nat /\ DOMAIN bk = 1 .. Len(bk) /\ \A k \in 1 .. Len(bk) : bk[k] \in Chat!Item
    BY <1>1
  <2>2. \A k \in 1 .. Len(bk) :
          b[k] \in Chat!Item /\ b[k].u = bk[k].u /\ b[k].text = IF bk[k].u = u THEN e ELSE bk[k].text
    BY <2>1 DEF Chat!Item
  <2> HIDE DEF b
  <2>3. b = [k \in 1 .. Len(bk) |-> b[k]]
    BY <2>1 DEF b
  <2> QED BY <2>1, <2>2, <2>3
<1> HIDE DEF b
<1>10. Chat!Ids(b) = Chat!Ids(bk)
  BY <1>9 DEF Chat!Ids
<1>11. Queue(items, b, ch, R)
  <2>1. Queue(items, bk, ch, R)
    BY DEF Flushing
  <2>2. Distinct(b) /\ Ordered(b, R)
    BY <1>9, <2>1 DEF Queue, Distinct, Ordered
  <2> QED BY <1>10, <2>1, <2>2 DEF Queue
<1>12. ASSUME NEW s \in Seq(Chat!Item), Chat!Ids(s) \subseteq Chat!Ids(items),
              Texts(d, s) PROVE Texts(f, s)
  <2> SUFFICES ASSUME NEW k \in DOMAIN s,
                      Chat!Pending(f, s[k].u) PROVE s[k].text = f.rows[s[k].u].text
    BY DEF Texts
  <2>1. s[k].u \in Chat!Updates /\ s[k].u \in Chat!Ids(items)
    BY <1>12, IdsIn DEF Chat!Item
  <2>2. s[k].u # u
    BY <2>1 DEF Flushing, Queue
  <2> QED BY <1>3, <1>12, <2>1, <2>2 DEF Texts, Chat!Pending
<1>13. Texts(f, b)
  <2> SUFFICES ASSUME NEW k \in DOMAIN b,
                      Chat!Pending(f, b[k].u) PROVE b[k].text = f.rows[b[k].u].text
    BY DEF Texts
  <2>1. bk[k].u \in Chat!Updates /\ k \in DOMAIN bk
    BY <1>1, <1>9, IdsIn DEF Chat!Item
  <2>2. Texts(d, bk)
    BY DEF Flushing, Backed
  <2> QED BY <1>3, <1>9, <2>1, <2>2 DEF Texts, Chat!Pending
<1>14. HeldIds(items, b, ch) = HeldIds(items, bk, ch) /\ HeldIds(items, bk, ch) \subseteq Chat!Updates
  BY <1>1, <1>10, IdsIn DEF HeldIds, Flushing
<1>15. Backed(f, items, b, ch)
  BY <1>3, <1>12, <1>13, <1>14 DEF Flushing, Backed
<1>16. Batched(f, items, batch, R)
  BY <1>5, <1>12 DEF Flushing, Batched
<1>17. b = <<>> => bk = <<>>
  BY <1>1, <1>9
<1>18. Flushing(f, items, batch, b, ch, R)
  BY <1>5, <1>6, <1>8, <1>9, <1>11, <1>14, <1>15, <1>16 DEF Flushing
<1> QED BY <1>3, <1>4, <1>5, <1>10, <1>17, <1>18 DEF f, b

\* A step of the chain ends: a download, an edit or a failure.
LEMMA IntakeStepKeeps ==
  ASSUME IInv, Chat!IntakeStep
  PROVE  IInv'
<1>1. /\ chain # <<>> /\ chain' = Tail(chain)
      /\ UNCHANGED <<lane, sent, confirmed, handled, listed, bot, deferred, flight, live, spoiled,
                     refused, mishaps>>
  BY DEF Chat!IntakeStep
<1>2. /\ RestTyped /\ Phased /\ AppOnly /\ Recorded /\ chain \in Seq(Step)
  BY Typing DEF IInv, RestTyped, Step
<1>3. bot \notin {"down", "second", "off"}
  BY <1>1 DEF IInv, Kept, Phased
<1>4. Flushing(db, flight.items, flight.batch, bucket, chain, refused)
  BY <1>3, Apart
<1> DEFINE s == chain[1]
<1>5. Head(chain) = s /\ s \in Step /\ Tail(chain) \in Seq(Step)
  BY <1>1, <1>2, FirstStep
<1>6. StepIds(chain) \subseteq Chat!Updates
  BY <1>2, StepsTyped DEF RestTyped
\* What is left to show, when the tables and the queue are in order.
<1>7. ASSUME Flushing(db', flight'.items, flight'.batch, bucket', chain', refused'),
             timers' \in [quiet : BOOLEAN, max : BOOLEAN],
             bucket' = <<>> => timers' = Chat!Off /\ ~deferred,
             db'.pin = db.pin, db'.prev = db.prev, Chat!Waiting(db') = Chat!Waiting(db),
             HeldIds(flight.items, bucket', chain') \subseteq HeldIds(flight.items, bucket, chain),
             \A v \in Chat!Updates : /\ db'.rows[v].state = db.rows[v].state
                                     /\ db'.rows[v].target = db.rows[v].target
      PROVE  IInv'
  <2>1. chain' \in Seq([u : Chat!Updates, edit : 0 .. MaxUpdates]) /\ bucket' \in Seq(Chat!Item)
    BY <1>1, <1>5, <1>7 DEF Flushing, Step
  <2>2. RestTyped'
    BY <1>1, <1>2, <1>7, <2>1 DEF RestTyped
  <2>3. Recorded'
    BY <1>1, <1>2, <1>7, SameRecorded
  <2>4. AppOnly'
    BY <1>1, <1>2, <1>7 DEF AppOnly
  <2>5. Phased'
    BY <1>1, <1>2, <1>3, <1>7 DEF Phased
  <2> QED BY <1>1, <1>3, <1>7, <2>2, <2>3, <2>4, <2>5, Together
<1>8. CASE s.edit = 0
  <2> DEFINE i == [u |-> s.u, text |-> db.rows[s.u].text]
  <2>1. /\ bucket' = Append(bucket, i) /\ UNCHANGED db
        /\ timers' = IF bucket = <<>> THEN Chat!On ELSE [timers EXCEPT !.quiet = TRUE]
    BY <1>5, <1>8 DEF Chat!IntakeStep, Chat!Push
  <2>2. Flushing(db, flight.items, flight.batch, Append(bucket, i), Tail(chain), refused)
        /\ Append(bucket, i) # <<>>
    BY <1>1, <1>2, <1>4, <1>8, PushedItem
  <2>3. timers' \in [quiet : BOOLEAN, max : BOOLEAN]
    BY <1>2, <2>1 DEF RestTyped, Chat!On
  <2>4. i.u = s.u /\ i \in Chat!Item /\ bucket \in Seq(Chat!Item)
    <3>1. s.u \in Chat!Updates
      BY <1>5 DEF Step
    <3>2. s.u \in StepIds(chain)
      BY <1>1, <1>2, <1>8, FirstStep DEF StepIds, Steps
    <3>3. db.rows[s.u].text \in Chat!Updates
      BY <1>4, <3>1, <3>2 DEF Flushing, Backed, HeldIds, DbTyped
    <3> QED BY <1>2, <3>1, <3>3 DEF Chat!Item, RestTyped
  <2> HIDE DEF i
  <2>5. Chat!Ids(Append(bucket, i)) \subseteq Chat!Ids(bucket) \cup {s.u}
    BY <2>4, ItemAdded DEF Chat!Ids
  <2>6. StepIds(Tail(chain)) \subseteq StepIds(chain) /\ s.u \in StepIds(chain)
    BY <1>1, <1>2, <1>8, LaterSteps, FirstStep DEF StepIds, Steps
  <2>7. HeldIds(flight.items, bucket', chain') \subseteq HeldIds(flight.items, bucket, chain)
    BY <1>1, <2>1, <2>5, <2>6 DEF HeldIds
  <2> QED BY <1>1, <1>7, <2>1, <2>2, <2>3, <2>7
<1>9. CASE s.edit # 0
  <2>0. Chat!Amend(s.u, s.edit)
    BY <1>5, <1>9 DEF Chat!IntakeStep
  <2>1. /\ StepIds(Tail(chain)) = StepIds(chain) /\ StepsDistinct(Tail(chain))
        /\ StepsOrdered(Tail(chain), refused)
    BY <1>1, <1>2, <1>4, <1>9, LaterSteps DEF Flushing, Queue
  <2>2. Flushing(db, flight.items, flight.batch, bucket, Tail(chain), refused)
    BY <1>4, <2>1, SameSteps
  <2>3. CASE UNCHANGED <<bucket, db, timers>>
    <3>1. timers' \in [quiet : BOOLEAN, max : BOOLEAN] /\ (bucket' = <<>> => timers' = Chat!Off /\ ~deferred)
      BY <1>2, <2>3 DEF RestTyped
    <3>2. HeldIds(flight.items, bucket', chain') \subseteq HeldIds(flight.items, bucket, chain)
      BY <1>1, <2>1, <2>3 DEF HeldIds
    <3> QED BY <1>1, <1>7, <2>2, <2>3, <3>1, <3>2
  <2>4. CASE /\ Chat!Pending(db, s.u) /\ s.u \in Chat!Ids(bucket) /\ UNCHANGED timers
             /\ bucket' = [k \in DOMAIN bucket |->
                    IF bucket[k].u = s.u THEN [bucket[k] EXCEPT !.text = s.edit] ELSE bucket[k]]
             /\ db' = [db EXCEPT !.rows[s.u].text = s.edit]
    <3>1. s.u \in Chat!Updates /\ s.edit \in Chat!Updates
      BY <1>5, <1>9 DEF Step, Chat!Updates
    <3>2. s.u \in Chat!Waiting(db) /\ StepIds(Tail(chain)) \subseteq Chat!Updates
      BY <1>6, <2>1, <2>4, <3>1 DEF Chat!Waiting
    <3>3. /\ Flushing(db', flight.items, flight.batch, bucket', Tail(chain), refused)
          /\ bucket' = <<>> => bucket = <<>>
          /\ db'.pin = db.pin /\ db'.prev = db.prev /\ Chat!Waiting(db') = Chat!Waiting(db)
          /\ Chat!Ids(bucket') = Chat!Ids(bucket)
          /\ \A v \in Chat!Updates : /\ db'.rows[v].state = db.rows[v].state
                                     /\ db'.rows[v].target = db.rows[v].target
      <4> DEFINE e == s.edit
                 u == s.u
                 t == Tail(chain)
                 b == [k \in DOMAIN bucket |->
                    IF bucket[k].u = u THEN [bucket[k] EXCEPT !.text = e] ELSE bucket[k]]
                 f == [db EXCEPT !.rows[u].text = e]
      <4>1. u \in Chat!Waiting(db) /\ u \in Chat!Ids(bucket) /\ e \in Chat!Updates /\ StepIds(t) \subseteq Chat!Updates
            /\ Flushing(db, flight.items, flight.batch, bucket, t, refused)
        BY <2>2, <2>4, <3>1, <3>2
      <4>2. bucket' = b /\ db' = f
        BY <2>4
      <4> HIDE DEF e, u, t
      <4>3. /\ Flushing(f, flight.items, flight.batch, b, t, refused) /\ (b = <<>> => bucket = <<>>)
            /\ f.pin = db.pin /\ f.prev = db.prev /\ Chat!Waiting(f) = Chat!Waiting(db)
            /\ Chat!Ids(b) = Chat!Ids(bucket)
            /\ \A v \in Chat!Updates : /\ f.rows[v].state = db.rows[v].state
                                       /\ f.rows[v].target = db.rows[v].target
        BY <4>1, AmendedItem
      <4> HIDE DEF b, f
      <4> QED BY <4>2, <4>3 DEF t
    <3>4. timers' \in [quiet : BOOLEAN, max : BOOLEAN] /\ (bucket' = <<>> => timers' = Chat!Off /\ ~deferred)
      BY <1>2, <2>4, <3>3 DEF RestTyped
    <3>5. HeldIds(flight.items, bucket', chain') \subseteq HeldIds(flight.items, bucket, chain)
      BY <1>1, <2>1, <3>3 DEF HeldIds
    <3> QED BY <1>1, <1>7, <3>3, <3>4, <3>5
  <2> QED BY <2>0, <2>3, <2>4 DEF Chat!Amend
<1> QED BY <1>8, <1>9

-----------------------------------------------------------------------------
(* The next update. *)

\* A queue in order is in order for those who are refused less often.
LEMMA MoreRefused ==
  ASSUME NEW d, NEW items, NEW batch, NEW bk, NEW ch, NEW R, NEW S, R \subseteq S,
         Flushing(d, items, batch, bk, ch, R)
  PROVE  Flushing(d, items, batch, bk, ch, S)
<1>1. Queue(items, bk, ch, S)
  BY DEF Flushing, Queue, Ordered, StepsOrdered, Before
<1>2. Batched(d, items, batch, S)
  BY DEF Flushing, Batched, Ordered
<1>3. Histories(d, S)
  BY DEF Flushing, Histories, Passed, Sorted, Behind
<1> QED BY <1>1, <1>2, <1>3 DEF Flushing

\* The places of a chain with a step behind it.
LEMMA StepAdded ==
  ASSUME NEW ch \in Seq(Step), NEW s \in Step
  PROVE  /\ Append(ch, s) \in Seq(Step)
         /\ Len(ch) \in Nat /\ DOMAIN ch = 1 .. Len(ch)
         /\ Len(ch) + 1 \in DOMAIN Append(ch, s) /\ Append(ch, s)[Len(ch) + 1] = s
         /\ \A k \in DOMAIN ch : k \in DOMAIN Append(ch, s) /\ Append(ch, s)[k] = ch[k]
         /\ \A k \in DOMAIN Append(ch, s) :
              (k \in DOMAIN ch /\ Append(ch, s)[k] = ch[k]) \/ k = Len(ch) + 1
OBVIOUS

\* An edit is put behind the chain.
LEMMA EditAdded ==
  ASSUME NEW ch \in Seq(Step), NEW s \in Step, s.edit # 0, NEW R
  PROVE  LET new == Append(ch, s)
         IN  /\ StepIds(new) = StepIds(ch)
             /\ StepsDistinct(ch) => StepsDistinct(new)
             /\ StepsOrdered(ch, R) => StepsOrdered(new, R)
<1> DEFINE new == Append(ch, s)
<1>1. /\ Len(ch) \in Nat
      /\ Len(ch) + 1 \in DOMAIN new /\ new[Len(ch) + 1] = s
      /\ \A k \in DOMAIN ch : k \in DOMAIN new /\ new[k] = ch[k]
      /\ \A k \in DOMAIN new : (k \in DOMAIN ch /\ new[k] = ch[k]) \/ k = Len(ch) + 1
  BY StepAdded
<1> HIDE DEF new
<1>2. Steps(new) = Steps(ch) /\ \A k \in Steps(ch) : new[k] = ch[k]
  BY <1>1 DEF Steps
<1>3. StepIds(new) = StepIds(ch)
  BY <1>2 DEF StepIds
<1>4. StepsDistinct(ch) => StepsDistinct(new)
  BY <1>2 DEF StepsDistinct
<1>5. StepsOrdered(ch, R) => StepsOrdered(new, R)
  BY <1>2 DEF StepsOrdered
<1> QED BY <1>3, <1>4, <1>5 DEF new

\* A download is put behind the chain.
LEMMA DownloadAdded ==
  ASSUME Chat!InboxAssumption, NEW ch \in Seq(Step), NEW u \in Chat!Updates, NEW R,
         u \notin StepIds(ch),
         u \in R \/ \A v \in StepIds(ch) : v < u
  PROVE  LET new == Append(ch, [u |-> u, edit |-> 0])
         IN  /\ new \in Seq(Step)
             /\ StepIds(new) = StepIds(ch) \cup {u}
             /\ StepsDistinct(ch) => StepsDistinct(new)
             /\ StepsOrdered(ch, R) => StepsOrdered(new, R)
<1> DEFINE s == [u |-> u, edit |-> 0]
           new == Append(ch, s)
           n == Len(ch) + 1
<1>0. s \in Step /\ s.u = u /\ s.edit = 0
  <2>1. 0 \in 0 .. MaxUpdates
    BY DEF Chat!InboxAssumption
  <2> QED BY <2>1 DEF Step
<1> HIDE DEF s
<1>1. /\ new \in Seq(Step) /\ Len(ch) \in Nat /\ DOMAIN ch = 1 .. Len(ch)
      /\ n \in DOMAIN new /\ new[n] = s
      /\ \A k \in DOMAIN ch : k \in DOMAIN new /\ new[k] = ch[k]
      /\ \A k \in DOMAIN new : (k \in DOMAIN ch /\ new[k] = ch[k]) \/ k = n
  BY <1>0, StepAdded
<1>2. n \notin DOMAIN ch /\ \A k \in DOMAIN ch : k < n
  BY <1>1
<1> HIDE DEF new, n
<1>3. /\ n \in Steps(new) /\ new[n].u = u
      /\ \A k \in Steps(ch) : k \in Steps(new) /\ new[k] = ch[k] /\ k < n
      /\ \A k \in Steps(new) : (k \in Steps(ch) /\ new[k] = ch[k]) \/ k = n
  BY <1>0, <1>1, <1>2 DEF Steps
<1>4. StepIds(new) = StepIds(ch) \cup {u}
  BY <1>3 DEF StepIds
<1>5. \A k \in Steps(ch) : ch[k].u # u /\ ch[k].u \in StepIds(ch)
  BY DEF StepIds
<1>6. StepsDistinct(ch) => StepsDistinct(new)
  BY <1>3, <1>5 DEF StepsDistinct
<1>7. ASSUME StepsOrdered(ch, R), NEW j \in Steps(new), NEW k \in Steps(new), j < k,
             new[j].u \notin R, new[k].u \notin R
      PROVE  new[j].u < new[k].u
  <2>1. j # n \/ k # n
    BY <1>1, <1>7 DEF n
  <2>2. CASE k = n
    <3>1. j \in Steps(ch) /\ new[j] = ch[j] /\ u \notin R
      BY <1>3, <1>7, <2>1, <2>2
    <3> QED BY <1>3, <1>5, <2>2, <3>1
  <2>3. CASE k # n
    <3>1. k \in Steps(ch) /\ new[k] = ch[k]
      BY <1>3, <2>3
    <3>2. j # n
      <4>1. k < n /\ k \in Nat /\ n \in Nat
        BY <1>1, <1>3, <3>1 DEF Steps, n
      <4> QED BY <1>7, <4>1
    <3>3. j \in Steps(ch) /\ new[j] = ch[j]
      BY <1>3, <3>2
    <3> QED BY <1>7, <3>1, <3>3 DEF StepsOrdered
  <2> QED BY <2>2, <2>3
<1>8. StepsOrdered(ch, R) => StepsOrdered(new, R)
  BY <1>7 DEF StepsOrdered
<1> QED BY <1>1, <1>4, <1>6, <1>8 DEF new, s

\* A message is recorded, the last one that was sent or one that was refused before.
LEMMA RecordedItem ==
  ASSUME Chat!InboxAssumption, NEW d, NEW items, NEW batch, NEW bk, NEW ch \in Seq(Step), NEW R,
         Flushing(d, items, batch, bk, ch, R),
         NEW u \in Chat!Updates, d.rows[u].state = "none",
         u \in R \/ \A v \in Chat!Updates : d.rows[v].state # "none" => v < u
  PROVE  LET f == [d EXCEPT !.rows[u] = [state |-> "pending", text |-> u, target |-> 0]]
             new == Append(ch, [u |-> u, edit |-> 0])
         IN  /\ Flushing(f, items, batch, bk, new, R) /\ new \in Seq(Step)
             /\ f.pin = d.pin /\ f.prev = d.prev /\ Chat!Waiting(f) = Chat!Waiting(d) \cup {u}
             /\ StepIds(new) = StepIds(ch) \cup {u}
             /\ f.rows[u].state = "pending" /\ f.rows[u].target = 0
             /\ \A v \in Chat!Updates \ {u} : f.rows[v] = d.rows[v]
<1> DEFINE row == [state |-> "pending", text |-> u, target |-> 0]
           f == [d EXCEPT !.rows[u] = row]
           new == Append(ch, [u |-> u, edit |-> 0])
<1>1. /\ d \in Chat!Db /\ DbTyped(d) /\ Histories(d, R)
      /\ items \in Seq(Chat!Item) /\ batch \in Seq(Chat!Item) /\ bk \in Seq(Chat!Item)
  BY DEF Flushing, DbTyped
<1>2. row \in Chat!Row /\ row.state = "pending" /\ row.text = u /\ row.target = 0
  BY DEF Chat!Row, Chat!Updates
<1> HIDE DEF row
<1>3. /\ f \in Chat!Db /\ f.log = d.log /\ f.pin = d.pin /\ f.prev = d.prev
      /\ f.rows[u] = row /\ \A v \in Chat!Updates \ {u} : f.rows[v] = d.rows[v]
  <2> DEFINE rows == [d.rows EXCEPT ![u] = row]
  <2>1. f = [d EXCEPT !.rows = rows]
    BY <1>1 DEF Chat!Db
  <2>2. rows \in [Chat!Updates -> Chat!Row] /\ rows[u] = row /\ \A v \in Chat!Updates \ {u} : rows[v] = d.rows[v]
    BY <1>1, <1>2 DEF Chat!Db
  <2> HIDE DEF rows, f
  <2> QED BY <1>1, <2>1, <2>2 DEF Chat!Db
<1> HIDE DEF f
<1>4. Chat!Waiting(f) = Chat!Waiting(d) \cup {u}
  BY <1>2, <1>3 DEF Chat!Waiting, Chat!Pending
<1>5. DbTyped(f)
  BY <1>1, <1>2, <1>3 DEF DbTyped
<1>6. \A v \in HeldIds(items, bk, ch) : d.rows[v].state # "none"
  BY DEF Flushing, Backed
<1>7. HeldIds(items, bk, ch) \subseteq Chat!Updates
  <2>1. StepIds(ch) \subseteq Chat!Updates
    BY StepsTyped DEF Step
  <2> QED BY <1>1, <2>1, IdsIn DEF HeldIds
<1>8. u \notin HeldIds(items, bk, ch) /\ (u \in R \/ \A v \in HeldIds(items, bk, ch) : v < u)
  BY <1>6, <1>7
<1>9. /\ new \in Seq(Step) /\ StepIds(new) = StepIds(ch) \cup {u}
      /\ StepsDistinct(ch) => StepsDistinct(new)
      /\ StepsOrdered(ch, R) => StepsOrdered(new, R)
  BY <1>8, DownloadAdded DEF HeldIds
<1> HIDE DEF new
<1>10. Queue(items, bk, new, R)
  <2>1. Queue(items, bk, ch, R)
    BY DEF Flushing
  <2>2. Chat!Ids(items) \cap StepIds(new) = {} /\ Chat!Ids(bk) \cap StepIds(new) = {}
    BY <1>8, <1>9, <2>1 DEF Queue, HeldIds
  <2>3. Before(Chat!Ids(items), StepIds(new), R) /\ Before(Chat!Ids(bk), StepIds(new), R)
    BY <1>8, <1>9, <2>1 DEF Queue, HeldIds, Before
  <2> QED BY <1>9, <2>1, <2>2, <2>3 DEF Queue
<1>11. \A k \in DOMAIN d.log : /\ d.rows[d.log[k].u].state = "committed"
                               /\ d.log[k].u \in Chat!Updates \ {u}
  <2>1. d.log \in Seq(Chat!Entry)
    BY <1>1, DbFields
  <2>2. \A k \in DOMAIN d.log : d.log[k] \in Chat!Entry
    BY <2>1
  <2>3. \A k \in DOMAIN d.log : d.rows[d.log[k].u].state = "committed"
    BY <1>1 DEF Histories, Landed
  <2> QED BY <2>2, <2>3 DEF Chat!Entry
<1>12. \A v \in Chat!Waiting(d) : v \in Chat!Updates \ {u} /\ d.rows[v].state # "none"
  BY DEF Chat!Waiting, Chat!Pending
<1>13. Histories(f, R)
  <2>1. Passed(f, R)
    <3> SUFFICES ASSUME NEW x \in Chat!Waiting(f) \ R, NEW y \in Chat!Waiting(f) \ R, x < y,
                        f.rows[y].target # 0
                 PROVE  f.rows[x].target # 0
      BY DEF Passed
    <3>1. y \in Chat!Waiting(d)
      BY <1>2, <1>3, <1>4
    <3>2. x \in Chat!Waiting(d)
      <4>1. ASSUME x = u PROVE FALSE
        <5>1. y < u /\ y \in Nat /\ u \in Nat
          BY <1>12, <3>1, <4>1 DEF Chat!Updates
        <5> QED BY <4>1, <5>1
      <4> QED BY <1>4, <4>1
    <3>3. f.rows[x] = d.rows[x] /\ f.rows[y] = d.rows[y]
      BY <1>3, <1>12, <3>1, <3>2
    <3>4. Passed(d, R)
      BY <1>1 DEF Histories
    <3> QED BY <3>1, <3>2, <3>3, <3>4 DEF Passed
  <2>0. \A k \in DOMAIN d.log : f.rows[d.log[k].u] = d.rows[d.log[k].u]
    BY <1>3, <1>11
  <2>6. f.log = d.log /\ Landed(d) /\ Cut(d)
    BY <1>1, <1>3 DEF Histories
  <2>2. Landed(f)
    BY <2>0, <2>6 DEF Landed
  <2>3. Cut(f)
    BY <2>0, <2>6 DEF Cut
  <2>4. Sorted(f, R)
    BY <1>1, <1>3 DEF Histories, Sorted
  <2>5. Behind(f, R)
    <3> SUFFICES ASSUME NEW k \in DOMAIN d.log, NEW x \in Chat!Waiting(f) \ R,
                        d.log[k].u \notin R, x < d.log[k].u
                 PROVE  f.rows[x].target # 0 /\ f.rows[x].target # d.log[k].conv
      BY <1>3 DEF Behind
    <3>1. x \in Chat!Waiting(d)
      <4>1. ASSUME x = u PROVE FALSE
        <5>1. d.log[k].u < u /\ d.log[k].u \in Nat /\ u \in Nat
          BY <1>11, <4>1 DEF Chat!Updates
        <5> QED BY <4>1, <5>1
      <4> QED BY <1>4, <4>1
    <3> QED BY <1>1, <1>3, <1>12, <3>1 DEF Histories, Behind
  <2> QED BY <2>1, <2>2, <2>3, <2>4, <2>5 DEF Histories
<1>14. ASSUME NEW s \in Seq(Chat!Item), Chat!Ids(s) \subseteq HeldIds(items, bk, ch), Texts(d, s)
       PROVE  Texts(f, s)
  <2> SUFFICES ASSUME NEW k \in DOMAIN s,
                      Chat!Pending(f, s[k].u) PROVE s[k].text = f.rows[s[k].u].text
    BY DEF Texts
  <2>1. s[k].u \in Chat!Updates \ {u}
    BY <1>8, <1>14, IdsIn
  <2> QED BY <1>3, <1>14, <2>1 DEF Texts, Chat!Pending
<1>15. Backed(f, items, bk, new)
  <2>1. HeldIds(items, bk, new) = HeldIds(items, bk, ch) \cup {u}
    BY <1>9 DEF HeldIds
  <2>2. \A v \in HeldIds(items, bk, new) : f.rows[v].state # "none"
    BY <1>2, <1>3, <1>6, <1>7, <2>1
  <2>3. Texts(f, items) /\ Texts(f, bk)
    BY <1>1, <1>14 DEF Flushing, Backed, HeldIds
  <2> QED BY <2>2, <2>3 DEF Backed
<1>16. Batched(f, items, batch, R)
  <2>1. Chat!Ids(batch) \subseteq Chat!Ids(items) /\ Texts(d, batch)
    BY DEF Flushing, Batched
  <2>2. Texts(f, batch)
    BY <1>1, <1>14, <2>1 DEF HeldIds
  <2>3. Chat!Ids(items) \cap Chat!Waiting(f) \subseteq Chat!Ids(batch)
    BY <1>4, <1>8 DEF Flushing, Batched, HeldIds
  <2> QED BY <2>2, <2>3 DEF Flushing, Batched
<1>17. Flushing(f, items, batch, bk, new, R)
  <2>1. Chat!Waiting(f) \subseteq HeldIds(items, bk, new)
    BY <1>4, <1>9 DEF Flushing, HeldIds
  <2> QED BY <1>1, <1>5, <1>10, <1>13, <1>15, <1>16, <2>1 DEF Flushing
<1> QED BY <1>2, <1>3, <1>4, <1>9, <1>17 DEF f, new, row

-----------------------------------------------------------------------------
(* Navigation. *)

\* What a navigation assigns waited without a target.
LEMMA AssignedKeeps ==
  ASSUME NEW d, NEW items, NEW batch, NEW bk, NEW ch, NEW R, StepIds(ch) \subseteq Chat!Updates,
         Flushing(d, items, batch, bk, ch, R), NEW u \in Chat!Updates, d.pin # 0
  PROVE  LET a == Chat!Assigned(d, u, d.pin)
         IN  /\ Flushing(a, items, batch, bk, ch, R)
             /\ a.pin = d.pin /\ a.prev = d.prev /\ a.log = d.log
             /\ \A v \in Chat!Updates : a.rows[v].state = d.rows[v].state
<1> DEFINE conv == d.pin
           passed(v) == v < u /\ Chat!Pending(d, v) /\ d.rows[v].target = 0
           rows == [v \in Chat!Updates |->
             IF passed(v) THEN [d.rows[v] EXCEPT !.target = conv] ELSE d.rows[v]]
           a == Chat!Assigned(d, u, d.pin)
<1>1. d \in Chat!Db /\ DbTyped(d) /\ Histories(d, R)
  BY DEF Flushing, DbTyped
<1>2. conv \in Nat /\ conv # 0 /\ conv <= Len(d.prev)
  BY <1>1 DEF DbTyped, Chat!Db
<1>3. a = [d EXCEPT !.rows = rows]
  BY DEF Chat!Assigned
<1> HIDE DEF conv, passed, a
<1>4. ASSUME NEW v \in Chat!Updates
      PROVE  /\ rows[v] \in Chat!Row /\ rows[v].state = d.rows[v].state /\ rows[v].text = d.rows[v].text
             /\ rows[v].target = IF passed(v) THEN conv ELSE d.rows[v].target
  <2>1. d.rows[v] \in Chat!Row
    BY <1>1, DbFields
  <2>2. rows[v] = IF passed(v) THEN [d.rows[v] EXCEPT !.target = conv] ELSE d.rows[v]
    OBVIOUS
  <2> HIDE DEF rows
  <2> QED BY <1>2, <2>1, <2>2 DEF Chat!Row
<1>5. rows \in [Chat!Updates -> Chat!Row]
  BY <1>4
<1> HIDE DEF rows
<1>6. a \in Chat!Db /\ a.rows = rows /\ a.log = d.log /\ a.pin = d.pin /\ a.prev = d.prev
  BY <1>1, <1>3, <1>5 DEF Chat!Db
<1>7. Chat!Waiting(a) = Chat!Waiting(d)
  BY <1>4, <1>6 DEF Chat!Waiting, Chat!Pending
<1>8. DbTyped(a)
  <2>1. \A v \in Chat!Updates : a.rows[v].target <= Len(a.prev)
    BY <1>1, <1>2, <1>4, <1>6 DEF DbTyped
  <2> QED BY <1>1, <1>4, <1>6, <2>1 DEF DbTyped
<1>9. \A k \in DOMAIN d.log : /\ d.log[k].u \in Chat!Updates /\ ~passed(d.log[k].u)
                              /\ d.rows[d.log[k].u].state = "committed"
  <2>1. d.log \in Seq(Chat!Entry)
    BY <1>1, DbFields
  <2>2. \A k \in DOMAIN d.log : d.log[k] \in Chat!Entry
    BY <2>1
  <2>3. \A k \in DOMAIN d.log : d.rows[d.log[k].u].state = "committed"
    BY <1>1 DEF Histories, Landed
  <2> QED BY <2>2, <2>3 DEF Chat!Entry, passed, Chat!Pending
<1>10. \A v \in Chat!Waiting(d) : /\ v \in Chat!Updates
                                  /\ passed(v) <=> v < u /\ d.rows[v].target = 0
  BY DEF Chat!Waiting, passed
<1>11. Histories(a, R)
  <2>0. \A k \in DOMAIN d.log :
          LET e == d.log[k].u
          IN  a.rows[e].state = d.rows[e].state /\ a.rows[e].text = d.rows[e].text
              /\ a.rows[e].target = d.rows[e].target
    BY <1>4, <1>6, <1>9
  <2>1. Passed(a, R)
    <3> SUFFICES ASSUME NEW x \in Chat!Waiting(d) \ R, NEW y \in Chat!Waiting(d) \ R, x < y,
                        rows[y].target # 0
                 PROVE  rows[x].target # 0
      BY <1>6, <1>7 DEF Passed
    <3>1. x \in Chat!Updates /\ y \in Chat!Updates
      BY <1>10
    <3>2. CASE passed(x)
      BY <1>2, <1>4, <3>1, <3>2
    <3>3. CASE ~passed(x)
      <4>1. rows[x].target = d.rows[x].target
        BY <1>4, <3>1, <3>3
      <4>2. CASE d.rows[y].target # 0
        <5>1. Passed(d, R)
          BY <1>1 DEF Histories
        <5> QED BY <4>1, <4>2, <5>1 DEF Passed
      <4>3. CASE d.rows[y].target = 0
        <5>1. passed(y)
          BY <1>4, <3>1, <4>3
        <5>2. x < u
          <6>1. x \in Nat /\ y \in Nat /\ u \in Nat /\ y < u
            BY <1>10, <3>1, <5>1 DEF Chat!Updates
          <6> QED BY <6>1
        <5> QED BY <1>10, <3>3, <4>1, <5>2
      <4> QED BY <4>2, <4>3
    <3> QED BY <3>2, <3>3
  <2>6. a.log = d.log /\ Landed(d) /\ Cut(d) /\ Sorted(d, R) /\ Behind(d, R)
    BY <1>1, <1>6 DEF Histories
  <2>2. Landed(a)
    BY <2>0, <2>6 DEF Landed
  <2>3. Cut(a)
    BY <2>0, <2>6 DEF Cut
  <2>4. Sorted(a, R)
    BY <2>6 DEF Sorted
  <2>5. Behind(a, R)
    <3> SUFFICES ASSUME NEW k \in DOMAIN d.log, NEW x \in Chat!Waiting(d) \ R,
                        d.log[k].u \notin R, x < d.log[k].u
                 PROVE  rows[x].target # 0 /\ rows[x].target # d.log[k].conv
      BY <1>6, <1>7 DEF Behind
    <3>1. d.rows[x].target # 0 /\ d.rows[x].target # d.log[k].conv
      BY <2>6 DEF Behind
    <3>2. rows[x].target = d.rows[x].target
      BY <1>4, <1>10, <3>1
    <3> QED BY <3>1, <3>2
  <2> QED BY <2>1, <2>2, <2>3, <2>4, <2>5 DEF Histories
<1>12. ASSUME NEW s \in Seq(Chat!Item), Texts(d, s) PROVE Texts(a, s)
  <2> SUFFICES ASSUME NEW k \in DOMAIN s,
                      Chat!Pending(a, s[k].u) PROVE s[k].text = a.rows[s[k].u].text
    BY DEF Texts
  <2>1. s[k].u \in Chat!Updates
    BY IdsIn
  <2> QED BY <1>4, <1>6, <1>12, <2>1 DEF Texts, Chat!Pending
<1>13. HeldIds(items, bk, ch) \subseteq Chat!Updates
  BY IdsIn DEF HeldIds, Flushing
<1>14. Backed(a, items, bk, ch)
  <2>1. \A v \in HeldIds(items, bk, ch) : d.rows[v].state # "none"
    BY DEF Flushing, Backed
  <2>2. \A v \in HeldIds(items, bk, ch) : a.rows[v].state # "none"
    BY <1>4, <1>6, <1>13, <2>1
  <2> QED BY <1>12, <2>2 DEF Flushing, Backed
<1>15. Batched(a, items, batch, R)
  BY <1>7, <1>12 DEF Flushing, Batched
<1>16. Flushing(a, items, batch, bk, ch, R)
  BY <1>7, <1>8, <1>11, <1>14, <1>15 DEF Flushing
<1> QED BY <1>4, <1>6, <1>16 DEF a

\* e is d, perhaps with another current conversation, and nothing recorded, decided or appended.
Turned(d, e) ==
  /\ \A v \in Chat!Updates : e.rows[v].state = d.rows[v].state
  /\ Len(d.prev) <= Len(e.prev) /\ e.log = d.log
  /\ d.pin # 0 => e.pin # 0

\* A new conversation leaves the queue as it was.
LEMMA MintTurns ==
  ASSUME NEW d, NEW items, NEW batch, NEW bk, NEW ch, NEW R,
         Flushing(d, items, batch, bk, ch, R)
  PROVE  Flushing(Chat!Mint(d), items, batch, bk, ch, R) /\ Turned(d, Chat!Mint(d)) /\ Chat!Mint(d).pin # 0
         /\ Chat!Mint(d).pin \in 1 .. Len(Chat!Mint(d).prev)
<1>1. /\ DbTyped(Chat!Mint(d)) /\ Chat!Mint(d).rows = d.rows /\ Chat!Mint(d).log = d.log /\ Len(d.prev) \in Nat
      /\ Len(Chat!Mint(d).prev) = Len(d.prev) + 1 /\ Chat!Mint(d).pin = Len(d.prev) + 1
  BY Minting DEF Flushing
<1>2. Flushing(Chat!Mint(d), items, batch, bk, ch, R)
  BY <1>1, SameKeeps
<1> QED BY <1>1, <1>2 DEF Turned

\* Another selection assigns what waits and leaves the queue as it was.
LEMMA SelectKeeps ==
  ASSUME NEW items, NEW batch, NEW bk, NEW ch, NEW R, StepIds(ch) \subseteq Chat!Updates,
         Flushing(db, items, batch, bk, ch, R), NEW u \in Chat!Updates, NEW kind
  PROVE  Flushing(Chat!Select(u, kind), items, batch, bk, ch, R) /\ Turned(db, Chat!Select(u, kind))
<1> DEFINE early == \E v \in Chat!Waiting(db) : v < u
           d == IF kind = "new" /\ db.pin = 0 /\ early THEN Chat!Mint(db) ELSE db
           left == IF d.pin = 0 THEN d ELSE Chat!Assigned(d, u, d.pin)
           back == [left EXCEPT !.pin = d.prev[d.pin]]
<1>0. Turned(db, db) /\ Len(db.prev) \in Nat
  <2>1. Len(db.prev) \in Nat
    BY DEF Flushing, DbTyped, Chat!Db
  <2> QED BY <2>1 DEF Turned
<1>1. Flushing(d, items, batch, bk, ch, R) /\ Turned(db, d)
  BY <1>0, MintTurns
<1>2. Chat!Select(u, kind) = CASE kind = "new" -> Chat!Mint(left)
                          [] kind = "back" /\ d.pin # 0 /\ d.prev[d.pin] # 0 -> back
                          [] OTHER -> db
  BY DEF Chat!Select
<1> HIDE DEF d
<1>3. /\ Flushing(left, items, batch, bk, ch, R)
      /\ left.pin = d.pin /\ left.prev = d.prev /\ left.log = d.log
      /\ \A v \in Chat!Updates : left.rows[v].state = d.rows[v].state
  BY <1>1, AssignedKeeps
<1> HIDE DEF left
<1>4. Turned(db, left)
  BY <1>1, <1>3 DEF Turned
<1>5. Flushing(Chat!Mint(left), items, batch, bk, ch, R) /\ Turned(db, Chat!Mint(left))
  <2>1. Flushing(Chat!Mint(left), items, batch, bk, ch, R) /\ Turned(left, Chat!Mint(left))
        /\ Chat!Mint(left).pin # 0
    BY <1>3, MintTurns
  <2>2. /\ Len(Chat!Mint(left).prev) \in Nat /\ Len(left.prev) \in Nat /\ Len(db.prev) \in Nat
    BY <1>0, <1>3, <2>1 DEF Flushing, DbTyped, Chat!Db
  <2> QED BY <1>4, <2>1, <2>2 DEF Turned
<1>6. ASSUME d.pin # 0, d.prev[d.pin] # 0
      PROVE  Flushing(back, items, batch, bk, ch, R) /\ Turned(db, back)
  <2> DEFINE p == d.prev[d.pin]
  <2>1. left \in Chat!Db /\ DbTyped(left)
    BY <1>3 DEF Flushing, DbTyped
  <2>2. d.pin \in DOMAIN left.prev /\ left.prev[d.pin] = p /\ d.pin \in Nat
        /\ d.pin <= Len(left.prev) /\ Len(left.prev) \in Nat
    BY <1>3, <1>6, <2>1 DEF DbTyped, Chat!Db
  <2>3. p \in Nat /\ p < d.pin
    BY <2>1, <2>2 DEF DbTyped, Chat!Db
  <2> HIDE DEF p
  <2>4. back = [left EXCEPT !.pin = p]
    BY DEF p
  <2>5. back \in Chat!Db /\ back.rows = left.rows /\ back.log = left.log /\ back.prev = left.prev /\ back.pin = p
    BY <2>1, <2>3, <2>4 DEF Chat!Db
  <2> HIDE DEF back
  <2>6. p <= Len(left.prev)
    BY <2>2, <2>3
  <2>7. DbTyped(back)
    BY <2>1, <2>5, <2>6 DEF DbTyped
  <2>8. Flushing(back, items, batch, bk, ch, R)
    BY <1>3, <2>5, <2>7, SameKeeps
  <2>9. p # 0
    BY <1>6 DEF p
  <2> QED BY <1>4, <2>5, <2>8, <2>9 DEF Turned
<1> HIDE DEF back
<1>7. CASE kind = "new"
  BY <1>2, <1>5, <1>7
<1>8. CASE kind # "new" /\ kind = "back" /\ d.pin # 0 /\ d.prev[d.pin] # 0
  <2>1. Chat!Select(u, kind) = back
    BY <1>2, <1>8
  <2> QED BY <1>6, <1>8, <2>1
<1>9. CASE kind # "new" /\ ~ (kind = "back" /\ d.pin # 0 /\ d.prev[d.pin] # 0)
  <2>1. Chat!Select(u, kind) = db
    BY <1>2, <1>9
  <2> QED BY <1>0, <2>1
<1> QED BY <1>7, <1>8, <1>9

\* A navigation leaves the queue as it was.
LEMMA NavigateKeeps ==
  ASSUME NEW items, NEW batch, NEW bk, NEW R, StepIds(chain) \subseteq Chat!Updates,
         Flushing(db, items, batch, bk, chain, R), live \subseteq 1 .. Len(db.prev),
         NEW u \in Chat!Updates, NEW kind, Chat!Navigate(u, kind)
  PROVE  /\ Flushing(db', items, batch, bk, chain, R) /\ Turned(db, db')
         /\ live' \subseteq 1 .. Len(db'.prev)
<1>0. Turned(db, db) /\ Len(db.prev) \in Nat
  <2>1. Len(db.prev) \in Nat
    BY DEF Flushing, DbTyped, Chat!Db
  <2> QED BY <2>1 DEF Turned
<1>1. CASE u \in db.receipts
  <2>1. UNCHANGED <<db, live>>
    BY <1>1 DEF Chat!Navigate
  <2> QED BY <1>0, <2>1
<1>2. CASE u \notin db.receipts
  <2> DEFINE d == Chat!Select(u, kind)
  <2>1. db' = [d EXCEPT !.receipts = @ \cup {u}] /\ live' \subseteq live
    BY <1>2 DEF Chat!Navigate
  <2>2. Flushing(d, items, batch, bk, chain, R) /\ Turned(db, d)
    BY SelectKeeps
  <2> HIDE DEF d
  <2>3. d \in Chat!Db /\ DbTyped(d)
    BY <2>2 DEF Flushing, DbTyped
  <2>4. db' \in Chat!Db /\ db'.rows = d.rows /\ db'.log = d.log /\ db'.prev = d.prev /\ db'.pin = d.pin
    BY <2>1, <2>3 DEF Chat!Db
  <2>5. DbTyped(db')
    BY <2>3, <2>4 DEF DbTyped
  <2>6. Flushing(db', items, batch, bk, chain, R)
    BY <2>2, <2>4, <2>5, SameKeeps
  <2>7. Turned(db, db')
    BY <2>2, <2>4 DEF Turned
  <2>8. Len(db.prev) <= Len(db'.prev) /\ Len(db'.prev) \in Nat
    BY <2>4, <2>7 DEF Turned, Chat!Db
  <2> QED BY <1>0, <2>1, <2>6, <2>7, <2>8
<1> QED BY <1>1, <1>2

\* The day's end leaves the queue as it was.
LEMMA RollsKeeps ==
  ASSUME NEW items, NEW batch, NEW bk, NEW R,
         Flushing(db, items, batch, bk, chain, R), live \subseteq 1 .. Len(db.prev), Chat!Rolls
  PROVE  /\ Flushing(db', items, batch, bk, chain, R) /\ Turned(db, db')
         /\ live \subseteq 1 .. Len(db'.prev) /\ db'.pin \in 1 .. Len(db'.prev)
<1>0. Turned(db, db) /\ Len(db.prev) \in Nat /\ db.pin \in Nat /\ db.pin <= Len(db.prev)
  <2>1. Len(db.prev) \in Nat /\ db.pin \in Nat /\ db.pin <= Len(db.prev)
    BY DEF Flushing, DbTyped, Chat!Db
  <2> QED BY <2>1 DEF Turned
<1>1. CASE db' = Chat!Mint(db)
  <2>1. /\ Flushing(db', items, batch, bk, chain, R) /\ Turned(db, db')
        /\ db'.pin \in 1 .. Len(db'.prev)
    BY <1>1, MintTurns
  <2>2. Len(db.prev) <= Len(db'.prev) /\ Len(db'.prev) \in Nat
    BY <2>1 DEF Turned, Flushing, DbTyped, Chat!Db
  <2> QED BY <1>0, <2>1, <2>2
<1>2. CASE db.pin # 0 /\ UNCHANGED db
  BY <1>0, <1>2
<1> QED BY <1>1, <1>2 DEF Chat!Rolls

\* What is sent next comes after all that is recorded.
LEMMA SentOn ==
  ASSUME IInv, NEW kind \in Chat!Kinds, NEW m \in 0 .. handled, MaxUpdates \in Nat,
         IF handled < Len(sent)
         THEN sent[handled + 1] = [kind |-> kind, of |-> m] /\ UNCHANGED sent
         ELSE handled < MaxUpdates /\ sent' = Append(sent, [kind |-> kind, of |-> m])
  PROVE  /\ sent' \in Seq([kind : Chat!Kinds, of : 0 .. MaxUpdates]) /\ Len(sent') <= MaxUpdates
         /\ handled + 1 \in Chat!Updates /\ handled + 1 \in 1 .. Len(sent')
         /\ sent'[handled + 1].kind = kind
         /\ \A v \in Chat!Updates : v <= Len(sent) => v <= Len(sent') /\ sent'[v] = sent[v]
         /\ \A v \in Chat!Updates : v <= Len(sent') => v <= Len(sent) \/ v = handled + 1
         /\ handled + 1 <= Len(sent) \/ handled + 1 = Len(sent) + 1
<1> DEFINE S == [kind : Chat!Kinds, of : 0 .. MaxUpdates]
           s == [kind |-> kind, of |-> m]
<1>1. sent \in Seq(S) /\ Len(sent) <= MaxUpdates /\ handled \in 0 .. Len(sent) /\ Len(sent) \in Nat
  BY DEF IInv, Chat!TypeOK
<1>2. CASE handled < Len(sent)
  <2>1. sent[handled + 1] = s /\ sent' = sent
    BY <1>2
  <2> QED BY <1>1, <1>2, <2>1 DEF Chat!Updates
<1>3. CASE ~ (handled < Len(sent))
  <2>1. handled = Len(sent) /\ handled < MaxUpdates /\ sent' = Append(sent, s)
    BY <1>1, <1>3
  <2>2. s \in S /\ s.kind = kind
    BY <1>1, <2>1
  <2> HIDE DEF S, s
  <2>3. /\ Append(sent, s) \in Seq(S) /\ Len(Append(sent, s)) = Len(sent) + 1
        /\ Append(sent, s)[Len(sent) + 1] = s
        /\ \A k \in 1 .. Len(sent) : Append(sent, s)[k] = sent[k]
    BY <1>1, <2>2
  <2>4. sent' \in Seq(S) /\ Len(sent') = Len(sent) + 1 /\ sent'[handled + 1].kind = kind
    BY <2>1, <2>2, <2>3
  <2>5. \A v \in Chat!Updates : v <= Len(sent) => v <= Len(sent') /\ sent'[v] = sent[v]
    BY <1>1, <2>1, <2>3, <2>4 DEF Chat!Updates
  <2>6. \A v \in Chat!Updates : v <= Len(sent') => v <= Len(sent) \/ v = handled + 1
    BY <1>1, <2>1, <2>4 DEF Chat!Updates
  <2>7. /\ Len(sent') <= MaxUpdates /\ handled + 1 \in Chat!Updates /\ handled + 1 \in 1 .. Len(sent')
        /\ handled + 1 = Len(sent) + 1
    BY <1>1, <2>1, <2>4 DEF Chat!Updates
  <2> QED BY <2>4, <2>5, <2>6, <2>7 DEF S
<1> QED BY <1>2, <1>3

\* The handler of an update keeps the invariant, whatever the update is.
LEMMA HandleKeeps ==
  ASSUME IInv, Chat!InboxAssumption, Chat!Handle
  PROVE  IInv'
<1> DEFINE u == handled + 1
<1>1. /\ bot \in {"polling", "stopping"} /\ handled' = u
      /\ refused' = IF listed THEN refused ELSE refused \cup {u}
      /\ UNCHANGED <<lane, confirmed, listed, bot, bucket, timers, deferred, flight, spoiled, mishaps>>
  BY DEF Chat!Handle
<1>2. PICK kind \in Chat!Kinds, m \in 0 .. handled :
        /\ lane = "app" => kind \in {"text", "edit"}
        /\ IF kind = "edit" THEN m # 0 /\ sent[m].kind = "text" ELSE m = 0
        /\ IF handled < Len(sent)
           THEN sent[u] = [kind |-> kind, of |-> m] /\ UNCHANGED sent
           ELSE handled < MaxUpdates /\ sent' = Append(sent, [kind |-> kind, of |-> m])
        /\ CASE ~listed -> UNCHANGED <<db, chain, live>>
             [] listed /\ kind = "text" -> Chat!TakeMessage(u)
             [] listed /\ kind = "edit" -> Chat!TakeEdit(u, m)
             [] listed /\ kind \in {"new", "back"} -> Chat!Navigate(u, kind)
             [] listed /\ kind = "command" -> Chat!Command
  BY DEF Chat!Handle
<1>3. /\ MaxUpdates \in Nat /\ handled \in Nat /\ handled <= Len(sent) /\ Len(sent) \in Nat
  BY DEF IInv, Chat!TypeOK, Chat!InboxAssumption
<1>4. /\ sent' \in Seq([kind : Chat!Kinds, of : 0 .. MaxUpdates]) /\ Len(sent') <= MaxUpdates
      /\ u \in Chat!Updates /\ u \in 1 .. Len(sent') /\ sent'[u].kind = kind
      /\ \A v \in Chat!Updates : v <= Len(sent) => v <= Len(sent') /\ sent'[v] = sent[v]
      /\ \A v \in Chat!Updates : v <= Len(sent') => v <= Len(sent) \/ v = u
      /\ u <= Len(sent) \/ u = Len(sent) + 1
  BY <1>2, <1>3, SentOn
<1>5. RestTyped /\ Recorded /\ AppOnly /\ Phased /\ chain \in Seq(Step)
  BY Typing DEF IInv, RestTyped, Step
<1>6. Flushing(db, flight.items, flight.batch, bucket, chain, refused)
  BY <1>1, Apart
<1>7. StepIds(chain) \subseteq Chat!Updates /\ live \subseteq 1 .. Len(db.prev)
  BY <1>5, StepsTyped DEF RestTyped
<1> HIDE DEF u
\* What is left to show, when the tables and the queue are in order.
<1>8. ASSUME Flushing(db', flight.items, flight.batch, bucket, chain', refused),
             chain' \in Seq(Step), live' \subseteq 1 .. Len(db'.prev), AppOnly',
             db.pin # 0 => db'.pin # 0,
             \A v \in Chat!Updates : db.rows[v].state # "none" => db'.rows[v].state # "none",
             \A v \in Chat!Updates : db'.rows[v].state # "none" => db.rows[v].state # "none" \/ v = u,
             listed /\ kind = "text" => db'.rows[u].state # "none"
      PROVE  IInv'
  <2>1. refused \subseteq refused' /\ refused' \subseteq Chat!Updates
    BY <1>1, <1>4, <1>5 DEF RestTyped
  <2>2. Flushing(db', flight'.items, flight'.batch, bucket', chain', refused')
    BY <1>1, <1>8, <2>1, MoreRefused
  <2>3. confirmed' \in 0 .. handled' /\ handled' \in 0 .. Len(sent')
    BY <1>1, <1>3, <1>4, <1>5 DEF RestTyped, u
  <2>4. RestTyped'
    BY <1>1, <1>4, <1>5, <1>8, <2>1, <2>3 DEF RestTyped, Step
  <2>5. Recorded'
    <3> SUFFICES ASSUME NEW v \in Chat!Updates
                 PROVE  /\ db'.rows[v].state # "none" => v <= Len(sent')
                        /\ v <= Len(sent') /\ v \notin refused' /\ sent'[v].kind = "text"
                             => db'.rows[v].state # "none"
      BY DEF Recorded
    <3>1. /\ db.rows[v].state # "none" => v <= Len(sent)
          /\ v <= Len(sent) /\ v \notin refused /\ sent[v].kind = "text" => db.rows[v].state # "none"
      BY <1>5 DEF Recorded
    <3>2. db'.rows[v].state # "none" => v <= Len(sent')
      BY <1>4, <1>8, <3>1
    <3>3. ASSUME v <= Len(sent'), v \notin refused', sent'[v].kind = "text"
          PROVE  db'.rows[v].state # "none"
      <4>1. CASE v <= Len(sent)
        BY <1>4, <1>8, <2>1, <3>1, <3>3, <4>1
      <4>2. CASE v = u
        <5>1. listed /\ kind = "text"
          BY <1>1, <1>4, <3>3, <4>2
        <5> QED BY <1>8, <4>2, <5>1
      <4> QED BY <1>4, <3>3, <4>1, <4>2
    <3> QED BY <3>2, <3>3
  <2>6. Phased'
    BY <1>1, <1>5, <1>8 DEF Phased
  <2> QED BY <1>1, <1>8, <2>2, <2>4, <2>5, <2>6, Together
<1>9. ASSUME UNCHANGED <<db, chain, live>>, ~(listed /\ kind = "text") \/ db.rows[u].state # "none"
      PROVE  IInv'
  <2>1. AppOnly'
    BY <1>1, <1>9, AppStays
  <2> QED BY <1>5, <1>6, <1>7, <1>8, <1>9, <2>1
<1>10. CASE ~listed
  BY <1>2, <1>9, <1>10
<1>11. CASE listed /\ kind = "text"
  <2>1. Chat!TakeMessage(u)
    BY <1>2, <1>11
  <2>2. CASE db.rows[u].state # "none"
    BY <1>9, <2>1, <2>2 DEF Chat!TakeMessage
  <2>3. CASE db.rows[u].state = "none"
    <3>1. /\ db' = [db EXCEPT !.rows[u] = [state |-> "pending", text |-> u, target |-> 0]]
          /\ chain' = Append(chain, [u |-> u, edit |-> 0]) /\ live' = live
      BY <2>1, <2>3 DEF Chat!TakeMessage
    <3>2. u \in refused \/ \A v \in Chat!Updates : db.rows[v].state # "none" => v < u
      <4>1. CASE u <= Len(sent)
        <5>1. sent[u].kind = "text"
          BY <1>4, <1>11, <4>1
        <5> QED BY <1>4, <1>5, <2>3, <4>1, <5>1 DEF Recorded
      <4>2. CASE u = Len(sent) + 1
        <5>1. \A v \in Chat!Updates : db.rows[v].state # "none" => v <= Len(sent)
          BY <1>5 DEF Recorded
        <5> QED BY <1>3, <4>2, <5>1 DEF Chat!Updates
      <4> QED BY <1>4, <4>1, <4>2
    <3>3. /\ Flushing(db', flight.items, flight.batch, bucket, chain', refused) /\ chain' \in Seq(Step)
          /\ db'.pin = db.pin /\ db'.prev = db.prev /\ Chat!Waiting(db') = Chat!Waiting(db) \cup {u}
          /\ StepIds(chain') = StepIds(chain) \cup {u}
          /\ db'.rows[u].state = "pending" /\ db'.rows[u].target = 0
          /\ \A v \in Chat!Updates \ {u} : db'.rows[v] = db.rows[v]
      <4> DEFINE f == [db EXCEPT !.rows[u] = [state |-> "pending", text |-> u, target |-> 0]]
                 new == Append(chain, [u |-> u, edit |-> 0])
      <4>1. /\ Flushing(f, flight.items, flight.batch, bucket, new, refused) /\ new \in Seq(Step)
            /\ f.pin = db.pin /\ f.prev = db.prev /\ Chat!Waiting(f) = Chat!Waiting(db) \cup {u}
            /\ StepIds(new) = StepIds(chain) \cup {u}
            /\ f.rows[u].state = "pending" /\ f.rows[u].target = 0
            /\ \A v \in Chat!Updates \ {u} : f.rows[v] = db.rows[v]
        BY <1>4, <1>5, <1>6, <2>3, <3>2, RecordedItem
      <4>2. db' = f /\ chain' = new
        BY <3>1
      <4> HIDE DEF f, new
      <4> QED BY <4>1, <4>2
    <3>4. AppOnly'
      <4>1. HeldIds(flight.items, bucket, chain') = HeldIds(flight.items, bucket, chain) \cup {u}
        BY <3>3 DEF HeldIds
      <4>2. \A v \in Chat!Updates : db.rows[v].target = 0 => db'.rows[v].target = 0
        BY <3>3
      <4> QED BY <1>1, <1>5, <3>3, <4>1, <4>2 DEF AppOnly
    <3>5. /\ \A v \in Chat!Updates : db.rows[v].state # "none" => db'.rows[v].state # "none"
          /\ \A v \in Chat!Updates : db'.rows[v].state # "none" => db.rows[v].state # "none" \/ v = u
      BY <3>3
    <3>6. live' \subseteq 1 .. Len(db'.prev) /\ db'.rows[u].state # "none" /\ (db.pin # 0 => db'.pin # 0)
      BY <1>7, <3>1, <3>3
    <3> QED BY <1>8, <3>3, <3>4, <3>5, <3>6
  <2> QED BY <2>2, <2>3
<1>12. CASE listed /\ kind = "edit"
  <2>1. Chat!TakeEdit(u, m)
    BY <1>2, <1>12
  <2>2. UNCHANGED <<db, live>>
    BY <2>1 DEF Chat!TakeEdit
  <2>3. CASE ~Chat!Pending(db, m)
    <3>1. UNCHANGED chain
      BY <2>1, <2>3 DEF Chat!TakeEdit
    <3> QED BY <1>9, <1>12, <2>2, <3>1
  <2>4. CASE Chat!Pending(db, m)
    <3> DEFINE s == [u |-> m, edit |-> u]
    <3>1. chain' = Append(chain, s)
      BY <2>1, <2>4 DEF Chat!TakeEdit
    <3>2. s \in Step /\ s.edit # 0
      <4>1. m \in Chat!Updates
        BY <1>2, <1>3, <1>4, <1>12 DEF Chat!Updates, u
      <4>2. u \in 0 .. MaxUpdates /\ u # 0
        BY <1>3, <1>4 DEF Chat!Updates
      <4> QED BY <4>1, <4>2 DEF Step
    <3> HIDE DEF s
    <3>3. /\ chain' \in Seq(Step) /\ StepIds(chain') = StepIds(chain)
          /\ StepsDistinct(chain') /\ StepsOrdered(chain', refused)
      <4>1. StepsDistinct(chain) /\ StepsOrdered(chain, refused)
        BY <1>6 DEF Flushing, Queue
      <4> QED BY <1>5, <3>1, <3>2, <4>1, EditAdded, StepAdded
    <3>4. Flushing(db, flight.items, flight.batch, bucket, chain', refused)
      BY <1>6, <3>3, SameSteps
    <3>5. AppOnly'
      BY <1>1, <1>5, <2>2, <3>3 DEF AppOnly, HeldIds
    <3> QED BY <1>7, <1>8, <1>12, <2>2, <3>3, <3>4, <3>5
  <2> QED BY <2>3, <2>4
<1>13. ASSUME lane # "app", UNCHANGED chain, live' \subseteq 1 .. Len(db'.prev), kind # "text",
              Flushing(db', flight.items, flight.batch, bucket, chain, refused), Turned(db, db')
       PROVE  IInv'
  <2>1. AppOnly'
    BY <1>1, <1>13 DEF AppOnly
  <2> QED BY <1>5, <1>8, <1>13, <2>1 DEF Turned
<1>14. CASE listed /\ kind \in {"new", "back"}
  <2>1. Chat!Navigate(u, kind)
    BY <1>2, <1>14
  <2>2. UNCHANGED chain
    BY <2>1 DEF Chat!Navigate
  <2>3. /\ Flushing(db', flight.items, flight.batch, bucket, chain, refused) /\ Turned(db, db')
        /\ live' \subseteq 1 .. Len(db'.prev)
    BY <1>4, <1>6, <1>7, <2>1, NavigateKeeps
  <2> QED BY <1>2, <1>13, <1>14, <2>2, <2>3
<1>15. CASE listed /\ kind = "command"
  <2>1. Chat!Rolls /\ live' \subseteq live /\ UNCHANGED chain
    BY <1>2, <1>15 DEF Chat!Command
  <2>2. /\ Flushing(db', flight.items, flight.batch, bucket, chain, refused) /\ Turned(db, db')
        /\ live \subseteq 1 .. Len(db'.prev)
    BY <1>6, <1>7, <2>1, RollsKeeps
  <2> QED BY <1>2, <1>13, <1>15, <2>1, <2>2
<1> QED BY <1>10, <1>11, <1>12, <1>14, <1>15 DEF Chat!Kinds

-----------------------------------------------------------------------------
(* Around the lane. *)

\* A wake that rolls the conversation keeps the invariant.
LEMMA WakeKeeps ==
  ASSUME IInv, Chat!Wake
  PROVE  IInv'
<1>1. /\ lane = "dm" /\ bot = "polling" /\ Chat!Rolls /\ live' = live \cup {db'.pin}
      /\ UNCHANGED <<lane, sent, confirmed, handled, listed, bot, chain, bucket, timers, deferred,
                     flight, spoiled, refused, mishaps>>
  BY DEF Chat!Wake
<1>2. RestTyped /\ Recorded /\ Phased
  BY Typing DEF IInv
<1>3. Flushing(db, flight.items, flight.batch, bucket, chain, refused)
  BY <1>1, Apart
<1>4. /\ Flushing(db', flight.items, flight.batch, bucket, chain, refused) /\ Turned(db, db')
      /\ live \subseteq 1 .. Len(db'.prev) /\ db'.pin \in 1 .. Len(db'.prev)
  BY <1>1, <1>2, <1>3, RollsKeeps DEF RestTyped
<1>5. RestTyped'
  BY <1>1, <1>2, <1>4 DEF RestTyped
<1>6. Recorded'
  BY <1>1, <1>2, <1>4, SameRecorded DEF Turned
<1>7. AppOnly'
  BY <1>1, DmIsNoApp
<1>8. Phased'
  BY <1>1, <1>2, <1>4 DEF Phased, Turned
<1> QED BY <1>1, <1>4, <1>5, <1>6, <1>7, <1>8, Together

\* A step that changes neither the rows nor the queue, in a channel that may be down.
LEMMA StillKeeps ==
  ASSUME IInv, RestTyped', DbTyped(db'),
         db'.rows = db.rows, db'.log = db.log, db'.pin = db.pin, db'.prev = db.prev,
         UNCHANGED <<lane, sent, bot, chain, bucket, deferred, flight, spoiled, refused>>
  PROVE  IInv'
<1>1. /\ Chat!Waiting(db') = Chat!Waiting(db) /\ Histories(db', refused)
      /\ \A s : Texts(db, s) => Texts(db', s)
  BY SameHistories DEF IInv
<1>2. Chat!TypeOK'
  <2>1. RestTyped' /\ DbTyped(db') => Chat!TypeOK'
    BY DEF Chat!TypeOK, RestTyped, DbTyped
  <2> QED BY <2>1
<1>3. Backed(db', flight.items, bucket, chain) /\ Batched(db', flight.items, flight.batch, refused)
  BY <1>1 DEF IInv, Backed, Batched
<1>4. Kept' /\ Recorded' /\ AppOnly' /\ Phased'
  BY <1>1 DEF IInv, Kept, Recorded, AppOnly, Phased
<1> QED BY <1>1, <1>2, <1>3, <1>4 DEF IInv

\* A turn that ends, another configuration, and an app that is deleted.
LEMMA AroundKeeps ==
  ASSUME IInv, Chat!InboxAssumption, Chat!TurnOver \/ Chat!Reconfigure \/ Chat!DeleteApp
  PROVE  IInv'
<1>1. RestTyped /\ DbTyped(db)
  BY Typing DEF IInv
<1>2. CASE Chat!TurnOver
  <2>1. /\ live' \subseteq live
        /\ UNCHANGED <<lane, sent, confirmed, handled, listed, db, bot, chain, bucket, timers, deferred,
                       flight, spoiled, refused, mishaps>>
    BY <1>2 DEF Chat!TurnOver
  <2>2. RestTyped'
    BY <1>1, <2>1 DEF RestTyped
  <2> QED BY <1>1, <2>1, <2>2, StillKeeps
<1>3. CASE Chat!Reconfigure
  <2>1. /\ listed' \in BOOLEAN /\ mishaps' \in 0 .. MaxMishaps
        /\ UNCHANGED <<lane, sent, confirmed, handled, db, bot, chain, bucket, timers, deferred,
                       flight, live, spoiled, refused>>
    BY <1>1, <1>3 DEF Chat!Reconfigure, Chat!Mishap, Chat!memory, RestTyped, Chat!InboxAssumption
  <2>2. RestTyped'
    BY <1>1, <2>1 DEF RestTyped
  <2> QED BY <1>1, <2>1, <2>2, StillKeeps
<1>4. CASE Chat!DeleteApp
  <2>1. /\ db' = [db EXCEPT !.gone = TRUE] /\ live' = {}
        /\ UNCHANGED <<lane, sent, confirmed, handled, listed, bot, chain, bucket, timers, deferred,
                       flight, spoiled, refused, mishaps>>
    BY <1>4 DEF Chat!DeleteApp
  <2>2. /\ db' \in Chat!Db /\ db'.rows = db.rows /\ db'.log = db.log /\ db'.pin = db.pin
        /\ db'.prev = db.prev
    BY <1>1, <2>1 DEF DbTyped, Chat!Db
  <2>3. DbTyped(db')
    BY <1>1, <2>2 DEF DbTyped
  <2>4. RestTyped'
    BY <1>1, <2>1 DEF RestTyped
  <2> QED BY <2>1, <2>2, <2>3, <2>4, StillKeeps
<1> QED BY <1>2, <1>3, <1>4

\* A shutdown starts a drain.
LEMMA ShutdownKeeps ==
  ASSUME IInv, Chat!Shutdown
  PROVE  IInv'
<1>1. /\ bot = "polling" /\ bot' = "stopping" /\ live' = {}
      /\ UNCHANGED <<lane, sent, confirmed, handled, listed, db, chain, bucket, timers, deferred, flight,
                     spoiled, refused, mishaps>>
  BY DEF Chat!Shutdown
<1>2. RestTyped'
  BY <1>1, Typing DEF IInv, RestTyped, Chat!Phases
<1>3. Phased'
  BY <1>1 DEF IInv, Phased
<1> QED BY <1>1, <1>2, <1>3, QuietKeeps

\* Nothing is held.
LEMMA EmptyQueue ==
  ASSUME NEW d, NEW R
  PROVE  /\ Queue(<<>>, <<>>, <<>>, R) /\ Backed(d, <<>>, <<>>, <<>>)
         /\ Batched(d, <<>>, <<>>, R) /\ HeldIds(<<>>, <<>>, <<>>) = {}
<1>1. DOMAIN <<>> = {}
  OBVIOUS
<1>2. \A e : e = <<>> => /\ Chat!Ids(e) = {} /\ Steps(e) = {} /\ Distinct(e) /\ Ordered(e, R)
                         /\ Texts(d, e) /\ StepsDistinct(e) /\ StepsOrdered(e, R) /\ StepIds(e) = {}
  BY <1>1 DEF Chat!Ids, Steps, Distinct, Ordered, Texts, StepsDistinct, StepsOrdered, StepIds
<1>3. Before({}, {}, R)
  BY DEF Before
<1> QED BY <1>2, <1>3 DEF Queue, Backed, Batched, HeldIds

\* A process that is down holds nothing and has its tables.
LEMMA DownKeeps ==
  ASSUME IInv, Chat!Forgotten, bot' = "down", UNCHANGED <<lane, sent, db, refused>>,
         listed' \in BOOLEAN, confirmed' \in 0 .. handled', handled' \in 0 .. Len(sent),
         mishaps' \in 0 .. MaxMishaps
  PROVE  IInv'
<1>1. /\ chain' = <<>> /\ bucket' = <<>> /\ timers' = Chat!Off /\ deferred' = FALSE /\ flight' = Chat!NoFlight
      /\ live' = {} /\ spoiled' = FALSE
  BY DEF Chat!Forgotten
<1>2. RestTyped /\ DbTyped(db)
  BY Typing DEF IInv
<1>3. flight'.items = <<>> /\ flight'.batch = <<>> /\ Chat!NoFlight \in Chat!Flights /\ Chat!Off \in [quiet : BOOLEAN, max : BOOLEAN]
  BY <1>1 DEF Chat!NoFlight, Chat!Flights, Chat!Off
<1>4. Chat!TypeOK'
  <2>1. chain' \in Seq([u : Chat!Updates, edit : 0 .. MaxUpdates]) /\ bucket' \in Seq(Chat!Item)
    BY <1>1
  <2>2. RestTyped'
    BY <1>1, <1>2, <1>3, <2>1 DEF RestTyped, Chat!Phases
  <2>3. RestTyped' /\ DbTyped(db') => Chat!TypeOK'
    BY DEF Chat!TypeOK, RestTyped, DbTyped
  <2> QED BY <1>2, <2>2, <2>3
<1>5. /\ Queue(flight'.items, bucket', chain', refused') /\ Backed(db', flight'.items, bucket', chain')
      /\ Batched(db', flight'.items, flight'.batch, refused')
      /\ HeldIds(flight'.items, bucket', chain') = {}
  BY <1>1, <1>3, EmptyQueue
<1>6. Kept'
  BY <1>1 DEF Kept
<1>7. Histories(db', refused') /\ Recorded'
  BY DEF IInv, Recorded
<1>8. AppOnly'
  BY <1>1, <1>5 DEF IInv, AppOnly
<1>9. Phased'
  BY <1>1 DEF Phased, Chat!NoFlight
<1> QED BY <1>4, <1>5, <1>6, <1>7, <1>8, <1>9 DEF IInv

\* A crash and an exit.
LEMMA EndKeeps ==
  ASSUME IInv, Chat!InboxAssumption, Chat!Crash \/ Chat!Exit
  PROVE  IInv'
<1>1. /\ RestTyped /\ mishaps \in Nat /\ mishaps <= MaxMishaps /\ MaxMishaps \in Nat
      /\ confirmed \in Nat /\ handled \in Nat /\ Len(sent) \in Nat /\ confirmed <= handled /\ handled <= Len(sent)
  BY Typing DEF IInv, RestTyped, Chat!InboxAssumption
<1>2. Chat!Forgotten /\ bot' = "down" /\ UNCHANGED <<lane, sent, listed, db, refused>>
  BY DEF Chat!Crash, Chat!Exit
<1>3. mishaps' \in 0 .. MaxMishaps
  BY <1>1 DEF Chat!Crash, Chat!Exit, Chat!Mishap
<1>4. confirmed' \in 0 .. handled' /\ handled' \in 0 .. Len(sent)
  BY <1>1 DEF Chat!Crash, Chat!Exit
<1> QED BY <1>1, <1>2, <1>3, <1>4, DownKeeps DEF RestTyped

\* A start puts every pending row into the bucket, in the order of their ids.
LEMMA BootKeeps ==
  ASSUME IInv, Chat!InboxAssumption, Chat!Boot
  PROVE  IInv'
<1> DEFINE all == [u \in Chat!Updates |-> [u |-> u, edit |-> 0]]
           r == Chat!Only(all, Chat!Waiting(db))
<1>1. /\ bot = "down" /\ bot' = "polling" /\ chain' = r
      /\ UNCHANGED <<lane, sent, confirmed, handled, listed, db, bucket, timers, deferred, flight, live,
                     spoiled, refused, mishaps>>
  BY DEF Chat!Boot
<1>2. RestTyped /\ DbTyped(db) /\ Recorded /\ AppOnly /\ Phased /\ Histories(db, refused)
  BY Typing DEF IInv
<1>3. bucket = <<>> /\ flight = Chat!NoFlight /\ flight.items = <<>> /\ flight.batch = <<>>
  BY <1>1 DEF IInv, Kept, Chat!NoFlight
<1>4. all \in Seq(Step) /\ Len(all) = MaxUpdates /\ \A u \in Chat!Updates : all[u].u = u /\ all[u].edit = 0
  <2>1. MaxUpdates \in Nat /\ Chat!Updates = 1 .. MaxUpdates
    BY DEF Chat!InboxAssumption, Chat!Updates
  <2>2. \A u \in Chat!Updates : [u |-> u, edit |-> 0] \in Step
    BY <2>1 DEF Step
  <2>3. all \in [1 .. MaxUpdates -> Step]
    BY <2>1, <2>2
  <2> HIDE DEF all
  <2>4. all \in Seq(Step) /\ Len(all) = MaxUpdates
    BY <2>1, <2>3
  <2> QED BY <2>4 DEF all
<1> HIDE DEF all
<1>5. r \in Seq(Step) /\ \E e : Embeds(e, r, all, MaxUpdates, Chat!Waiting(db))
  BY <1>4, OnlyEmbeds
<1>6. PICK e : Embeds(e, r, all, MaxUpdates, Chat!Waiting(db))
  BY <1>5
<1> HIDE DEF r
<1>7. /\ DOMAIN r = 1 .. Len(r) /\ Len(r) \in Nat
      /\ \A k \in DOMAIN r : e[k] \in Chat!Waiting(db) /\ r[k].u = e[k] /\ r[k].edit = 0
      /\ \A j, k \in DOMAIN r : j < k => e[j] < e[k]
      /\ \A u \in Chat!Waiting(db) : \E k \in DOMAIN r : e[k] = u
  <2>1. DOMAIN r = 1 .. Len(r) /\ Len(r) \in Nat /\ Chat!Updates = 1 .. MaxUpdates
    BY <1>5 DEF Chat!Updates
  <2>2. \A k \in DOMAIN r : e[k] \in Chat!Updates /\ r[k] = all[e[k]] /\ all[e[k]].u \in Chat!Waiting(db)
    BY <1>6, <2>1 DEF Embeds
  <2>3. \A j, k \in DOMAIN r : j < k => e[j] < e[k]
    BY <1>6, <2>1 DEF Embeds
  <2>4. ASSUME NEW u \in Chat!Waiting(db) PROVE \E k \in DOMAIN r : e[k] = u
    <3>1. u \in Chat!Updates
      BY DEF Chat!Waiting
    <3>2. all[u].u \in Chat!Waiting(db)
      BY <1>4, <3>1
    <3> QED BY <1>6, <2>1, <3>1, <3>2 DEF Embeds
  <2> QED BY <1>4, <2>1, <2>2, <2>3, <2>4
<1>8. Steps(r) = DOMAIN r /\ StepIds(r) = Chat!Waiting(db)
  BY <1>7 DEF Steps, StepIds
<1>9. StepsDistinct(r)
  <2> SUFFICES ASSUME NEW j \in DOMAIN r, NEW k \in DOMAIN r, e[j] = e[k] PROVE j = k
    BY <1>7, <1>8 DEF StepsDistinct
  <2>1. j \in Nat /\ k \in Nat /\ e[j] \in Nat /\ ~ (j < k) /\ ~ (k < j)
    BY <1>7 DEF Chat!Waiting, Chat!Updates
  <2> QED BY <2>1
<1>10. StepsOrdered(r, refused)
  BY <1>7, <1>8 DEF StepsOrdered
<1>11. Chat!Ids(<<>>) = {} /\ Distinct(<<>>) /\ Ordered(<<>>, refused) /\ Texts(db, <<>>)
  <2>1. Queue(<<>>, <<>>, <<>>, refused) /\ Backed(db, <<>>, <<>>, <<>>)
        /\ HeldIds(<<>>, <<>>, <<>>) = {}
    BY EmptyQueue
  <2> QED BY <2>1 DEF Queue, Backed, HeldIds
<1>12. HeldIds(<<>>, <<>>, r) = Chat!Waiting(db)
  BY <1>8, <1>11 DEF HeldIds
<1>13. Queue(<<>>, <<>>, r, refused)
  BY <1>9, <1>10, <1>11 DEF Queue, Before
<1>14. Backed(db, <<>>, <<>>, r)
  BY <1>11, <1>12 DEF Backed, Chat!Waiting, Chat!Pending
<1>15. Batched(db, <<>>, <<>>, refused)
  BY <1>11 DEF Batched
<1>16. Flushing(db', flight'.items, flight'.batch, bucket', chain', refused')
  <2>1. <<>> \in Seq(Chat!Item)
    OBVIOUS
  <2> QED BY <1>1, <1>2, <1>3, <1>12, <1>13, <1>14, <1>15, <2>1 DEF Flushing
<1>17. RestTyped'
  BY <1>1, <1>2, <1>5 DEF RestTyped, Step, Chat!Phases
<1>18. Recorded'
  BY <1>1, <1>2 DEF Recorded
<1>19. AppOnly'
  BY <1>1, <1>2, <1>3, <1>12 DEF AppOnly
<1>20. Phased'
  BY <1>1, <1>2 DEF Phased
<1> QED BY <1>1, <1>16, <1>17, <1>18, <1>19, <1>20, Together

\* A channel starts with nothing recorded and nothing held.
LEMMA InitHolds ==
  ASSUME Chat!InboxAssumption, Chat!Init
  PROVE  IInv
<1>1. /\ lane \in {"dm", "app"} /\ sent = <<>> /\ confirmed = 0 /\ handled = 0 /\ listed = TRUE
      /\ bot = "polling" /\ chain = <<>> /\ bucket = <<>> /\ timers = Chat!Off /\ deferred = FALSE
      /\ flight = Chat!NoFlight /\ live = {} /\ spoiled = FALSE /\ refused = {} /\ mishaps = 0
  BY DEF Chat!Init
<1> DEFINE pin == IF lane = "app" THEN 1 ELSE 0
           prev == IF lane = "app" THEN <<0>> ELSE <<>>
           rows == [u \in Chat!Updates |-> Chat!Unseen]
<1>2. db = [rows |-> rows, receipts |-> {}, gone |-> FALSE, log |-> <<>>, pin |-> pin, prev |-> prev]
  BY DEF Chat!Init
<1>3. /\ rows \in [Chat!Updates -> Chat!Row]
      /\ \A u \in Chat!Updates : rows[u].state = "none" /\ rows[u].text = 0 /\ rows[u].target = 0
  BY DEF Chat!Row, Chat!Unseen
<1>4. pin \in Nat /\ prev \in Seq(Nat) /\ pin <= Len(prev) /\ Len(prev) \in Nat
      /\ \A c \in DOMAIN prev : prev[c] < c
  OBVIOUS
<1>5. lane = "app" => pin = 1 /\ prev = <<0>>
  OBVIOUS
<1> HIDE DEF rows, pin, prev
<1>6. <<>> \in Seq(Chat!Entry) /\ FALSE \in BOOLEAN /\ {} \subseteq Chat!Updates
  OBVIOUS
<1>7. db \in Chat!Db /\ db.rows = rows /\ db.log = <<>> /\ db.pin = pin /\ db.prev = prev
  BY <1>2, <1>3, <1>4, <1>6 DEF Chat!Db
<1>8. DbTyped(db)
  BY <1>3, <1>4, <1>7 DEF DbTyped
<1>9. flight.items = <<>> /\ flight.batch = <<>> /\ flight.at = "none" /\ Chat!NoFlight \in Chat!Flights
      /\ Chat!Off \in [quiet : BOOLEAN, max : BOOLEAN]
  BY <1>1 DEF Chat!NoFlight, Chat!Flights, Chat!Off
<1>10. RestTyped
  <2>1. /\ sent \in Seq([kind : Chat!Kinds, of : 0 .. MaxUpdates]) /\ Len(sent) = 0
        /\ chain \in Seq([u : Chat!Updates, edit : 0 .. MaxUpdates]) /\ bucket \in Seq(Chat!Item)
    BY <1>1
  <2>2. MaxUpdates \in Nat /\ MaxMishaps \in Nat
    BY DEF Chat!InboxAssumption
  <2>3. confirmed \in 0 .. handled /\ handled \in 0 .. Len(sent) /\ mishaps \in 0 .. MaxMishaps
        /\ Len(sent) <= MaxUpdates
    BY <1>1, <2>1, <2>2
  <2>4. live \subseteq 1 .. Len(db.prev) /\ refused \subseteq Chat!Updates
    BY <1>1
  <2> QED BY <1>1, <1>9, <2>1, <2>3, <2>4 DEF RestTyped, Chat!Phases
<1>11. Chat!Waiting(db) = {}
  BY <1>3, <1>7 DEF Chat!Waiting, Chat!Pending
<1>12. Histories(db, refused)
  <2>1. DOMAIN db.log = {}
    BY <1>7
  <2> QED BY <1>11, <2>1 DEF Histories, Passed, Landed, Cut, Sorted, Behind
<1>13. /\ Queue(flight.items, bucket, chain, refused) /\ Backed(db, flight.items, bucket, chain)
       /\ Batched(db, flight.items, flight.batch, refused)
       /\ HeldIds(flight.items, bucket, chain) = {}
  BY <1>1, <1>9, EmptyQueue
<1>14. Kept
  BY <1>1, <1>11 DEF Kept
<1>15. Recorded
  <2>1. Len(sent) = 0
    BY <1>1
  <2> QED BY <1>3, <1>7, <2>1 DEF Recorded, Chat!Updates
<1>16. AppOnly
  BY <1>1, <1>3, <1>5, <1>7, <1>13 DEF AppOnly
<1>17. Phased
  BY <1>1, <1>9 DEF Phased
<1> QED BY <1>8, <1>10, <1>12, <1>13, <1>14, <1>15, <1>16, <1>17, Typing DEF IInv

\* Every step keeps the invariant.
LEMMA NextKeeps ==
  ASSUME Chat!InboxAssumption, IInv, [Chat!Next]_(Chat!inbox)
  PROVE  IInv'
<1>1. CASE UNCHANGED Chat!inbox
  <2>1. UNCHANGED <<lane, sent, confirmed, handled, listed, db, bot, chain, bucket, timers, deferred,
                    flight, live, spoiled, refused, mishaps>>
    BY <1>1 DEF Chat!inbox, Chat!memory
  <2>2. RestTyped' /\ DbTyped(db')
    BY <2>1, Typing DEF IInv, RestTyped
  <2> QED BY <2>1, <2>2, StillKeeps
<1>2. CASE Chat!Next
  <2>1. CASE Chat!Settle
    BY <2>1, SettleKeeps
  <2>2. CASE Chat!Handle
    BY <2>2, HandleKeeps
  <2>3. CASE Chat!IntakeStep
    BY <2>3, IntakeStepKeeps
  <2>4. CASE Chat!Timer
    BY <2>4, TimerKeeps
  <2>5. CASE Chat!Resume
    BY <2>5, ResumeKeeps
  <2>6. CASE Chat!Wake
    BY <2>6, WakeKeeps
  <2>7. CASE Chat!TurnOver \/ Chat!Reconfigure \/ Chat!DeleteApp
    BY <2>7, AroundKeeps
  <2>8. CASE Chat!Shutdown
    BY <2>8, ShutdownKeeps
  <2>9. CASE Chat!Drain
    BY <2>9, DrainKeeps
  <2>10. CASE Chat!Crash \/ Chat!Exit
    BY <2>10, EndKeeps
  <2>11. CASE Chat!Boot
    BY <2>11, BootKeeps
  <2> QED BY <1>2, <2>1, <2>2, <2>3, <2>4, <2>5, <2>6, <2>7, <2>8, <2>9, <2>10, <2>11 DEF Chat!Next
<1> QED BY <1>1, <1>2

-----------------------------------------------------------------------------
(* What it says. *)

\* A queue of distinct items holds each of them in one place.
LEMMA HeldInOne ==
  ASSUME IInv
  PROVE  Chat!HeldOnce
<1>1. Queue(flight.items, bucket, chain, refused) /\ Kept
  BY DEF IInv
<1>2. ASSUME bot # "down",
             NEW u \in Chat!Waiting(db) PROVE \E p \in Chat!Places : Chat!HeldAt(p) = u
  <2>1. u \in HeldIds(flight.items, bucket, chain)
    BY <1>1, <1>2 DEF Kept
  <2>2. CASE u \in Chat!Ids(flight.items)
    <3>1. PICK k \in DOMAIN flight.items : flight.items[k].u = u
      BY <2>2 DEF Chat!Ids
    <3>2. <<"flight", k>> \in Chat!Places /\ Chat!HeldAt(<<"flight", k>>) = u
      BY <3>1 DEF Chat!Places, Chat!HeldAt
    <3> QED BY <3>2
  <2>3. CASE u \in Chat!Ids(bucket)
    <3>1. PICK k \in DOMAIN bucket : bucket[k].u = u
      BY <2>3 DEF Chat!Ids
    <3>2. <<"bucket", k>> \in Chat!Places /\ Chat!HeldAt(<<"bucket", k>>) = u
      BY <3>1 DEF Chat!Places, Chat!HeldAt
    <3> QED BY <3>2
  <2>4. CASE u \in StepIds(chain)
    <3>1. PICK k \in Steps(chain) : chain[k].u = u
      BY <2>4 DEF StepIds
    <3>2. <<"chain", k>> \in Chat!Places /\ Chat!HeldAt(<<"chain", k>>) = u
      BY <3>1 DEF Chat!Places, Chat!HeldAt, Steps
    <3> QED BY <3>2
  <2> QED BY <2>1, <2>2, <2>3, <2>4 DEF HeldIds
<1>3. ASSUME NEW p \in Chat!Places
      PROVE  \/ \E k \in Steps(chain) : p = <<"chain", k>> /\ Chat!HeldAt(p) = chain[k].u
             \/ \E k \in DOMAIN flight.items : p = <<"flight", k>> /\ Chat!HeldAt(p) = flight.items[k].u
             \/ \E k \in DOMAIN bucket : p = <<"bucket", k>> /\ Chat!HeldAt(p) = bucket[k].u
  <2>1. CASE p \in {"chain"} \X {k \in DOMAIN chain : chain[k].edit = 0}
    <3>1. PICK k \in Steps(chain) : p = <<"chain", k>>
      BY <2>1 DEF Steps
    <3> QED BY <3>1 DEF Chat!HeldAt
  <2>2. CASE p \in {"flight"} \X DOMAIN flight.items
    <3>1. PICK k \in DOMAIN flight.items : p = <<"flight", k>>
      BY <2>2
    <3> QED BY <3>1 DEF Chat!HeldAt
  <2>3. CASE p \in {"bucket"} \X DOMAIN bucket
    <3>1. PICK k \in DOMAIN bucket : p = <<"bucket", k>>
      BY <2>3
    <3> QED BY <3>1 DEF Chat!HeldAt
  <2> QED BY <2>1, <2>2, <2>3 DEF Chat!Places
<1>4. ASSUME NEW p \in Chat!Places, NEW q \in Chat!Places,
             Chat!HeldAt(p) = Chat!HeldAt(q) PROVE p = q
  <2>1. \A j \in Steps(chain), k \in Steps(chain) : chain[j].u = chain[k].u => j = k
    BY <1>1 DEF Queue, StepsDistinct
  <2>2. /\ \A j, k \in DOMAIN flight.items : flight.items[j].u = flight.items[k].u => j = k
        /\ \A j, k \in DOMAIN bucket : bucket[j].u = bucket[k].u => j = k
    BY <1>1 DEF Queue, Distinct
  <2>3. /\ \A j \in Steps(chain), k \in DOMAIN flight.items : chain[j].u # flight.items[k].u
        /\ \A j \in Steps(chain), k \in DOMAIN bucket : chain[j].u # bucket[k].u
        /\ \A j \in DOMAIN flight.items, k \in DOMAIN bucket : flight.items[j].u # bucket[k].u
    BY <1>1 DEF Queue, StepIds, Chat!Ids
  <2> DEFINE inChain(x) == \E k \in Steps(chain) : x = <<"chain", k>> /\ Chat!HeldAt(x) = chain[k].u
             inFlight(x) == \E k \in DOMAIN flight.items :
                              x = <<"flight", k>> /\ Chat!HeldAt(x) = flight.items[k].u
             inBucket(x) == \E k \in DOMAIN bucket : x = <<"bucket", k>> /\ Chat!HeldAt(x) = bucket[k].u
  <2>4. (inChain(p) \/ inFlight(p) \/ inBucket(p)) /\ (inChain(q) \/ inFlight(q) \/ inBucket(q))
    BY <1>3
  <2>5. inChain(p) => p = q
    <3>1. inChain(p) => inChain(q)
      BY <1>4, <2>3, <2>4, Zenon
    <3> QED BY <1>4, <2>1, <3>1, Zenon
  <2>6. inFlight(p) => p = q
    <3>1. inFlight(p) => inFlight(q)
      BY <1>4, <2>3, <2>4, Zenon
    <3> QED BY <1>4, <2>2, <3>1, Zenon
  <2>7. inBucket(p) => p = q
    <3>1. inBucket(p) => inBucket(q)
      BY <1>4, <2>3, <2>4, Zenon
    <3> QED BY <1>4, <2>2, <3>1, Zenon
  <2> QED BY <2>4, <2>5, <2>6, <2>7
<1> QED BY <1>2, <1>4 DEF Chat!HeldOnce

\* The invariant says what is promised.
LEMMA IInvSays ==
  ASSUME IInv
  PROVE  Chat!IntakeInv
<1>1. Chat!TypeOK /\ Histories(db, refused) /\ Kept /\ Phased /\ Texts(db, bucket)
  BY DEF IInv, Backed
<1>2. Chat!LandedOnce
  BY <1>1 DEF Histories, Landed, Texts, Chat!LandedOnce
<1>3. Chat!InOrder
  BY <1>1 DEF Histories, Sorted, Chat!InOrder
<1>4. Chat!NavigationCutsOff
  BY <1>1 DEF Histories, Cut, Chat!NavigationCutsOff
<1>5. Chat!CleanStop
  <2> SUFFICES ASSUME bot = "off"
               PROVE  Chat!Waiting(db) = {} /\ chain = <<>> /\ bucket = <<>> /\ flight = Chat!NoFlight
    BY DEF Chat!CleanStop
  <2>1. chain = <<>> /\ bucket = <<>> /\ flight = Chat!NoFlight /\ flight.items = <<>>
    BY <1>1 DEF Phased, Chat!NoFlight
  <2>2. HeldIds(flight.items, bucket, chain) = {}
    BY <2>1, EmptyQueue
  <2> QED BY <1>1, <2>1, <2>2 DEF Kept
<1> QED BY <1>1, <1>2, <1>3, <1>4, <1>5, HeldInOne DEF Chat!IntakeInv

\* What a step may find in any state, between any two calls, after any mishap.
THEOREM InductiveInvariant == Chat!InboxAssumption => (Chat!Spec => []IInv)
<1> SUFFICES ASSUME Chat!InboxAssumption PROVE Chat!Spec => []IInv
  OBVIOUS
<1>1. Chat!Init => IInv
  BY InitHolds
<1>2. IInv /\ [Chat!Next]_(Chat!inbox) => IInv'
  BY NextKeeps
<1> QED BY <1>1, <1>2, PTL DEF Chat!Spec

\* While the process is up a recorded input waits in one place, a step of the chain, the bucket
\* or the flush; it reaches one history, once, with its last text, in the order it was sent and
\* where the navigation left it; and a clean stop leaves nothing waiting (tg/mod.ts,
\* flushRolling; tg/inbox.ts; tg/buffer.ts; rolling/navigation.ts).
THEOREM IntakeHolds ==
  /\ Chat!InboxAssumption => (Chat!Spec => []Chat!IntakeInv)
  /\ Spec => []IntakeInv
<1>1. Chat!InboxAssumption => (Chat!Spec => []Chat!IntakeInv)
  <2> SUFFICES ASSUME Chat!InboxAssumption PROVE Chat!Spec => []Chat!IntakeInv
    OBVIOUS
  <2>1. IInv => Chat!IntakeInv
    BY IInvSays
  <2> QED BY <2>1, InductiveInvariant, PTL
<1>2. Spec => []IntakeInv
  <2>1. Chat!Init => IInv
    BY InitHolds, IntakeAssumption
  <2>2. IInv /\ [Chat!Next]_(Chat!inbox) => IInv'
    BY NextKeeps, IntakeAssumption
  <2>3. IInv => IntakeInv
    BY IInvSays DEF IntakeInv
  <2> QED BY <2>1, <2>2, <2>3, PTL DEF Spec, Chat!Spec
<1> QED BY <1>1, <1>2

-----------------------------------------------------------------------------
(* Where turns start. *)

\* e has d's log and behind it what started no turn, or one in e's current conversation.
Continues(d, e) == \A k \in DOMAIN d.log : k \in DOMAIN e.log /\ e.log[k] = d.log[k]
Silent(d, e) == Continues(d, e) /\ \A k \in DOMAIN e.log \ DOMAIN d.log : ~e.log[k].turn
Joins(d, e) ==
  Continues(d, e) /\ \A k \in DOMAIN e.log \ DOMAIN d.log : e.log[k].turn => e.log[k].conv = e.pin

\* What appends no turn may come before what joins the current conversation.
LEMMA SilentThenJoins ==
  ASSUME NEW d, NEW a, NEW e, Silent(d, a), Joins(a, e)
  PROVE  Joins(d, e)
<1>1. Continues(d, e)
  BY DEF Silent, Joins, Continues
<1>2. ASSUME NEW k \in DOMAIN e.log \ DOMAIN d.log, e.log[k].turn PROVE e.log[k].conv = e.pin
  <2>1. CASE k \in DOMAIN a.log
    BY <1>2, <2>1 DEF Silent, Joins, Continues
  <2>2. CASE k \notin DOMAIN a.log
    BY <1>2, <2>2 DEF Joins
  <2> QED BY <2>1, <2>2
<1> QED BY <1>1, <1>2 DEF Joins

\* What appends nothing starts no turn.
LEMMA SameJoins ==
  ASSUME NEW d, NEW e, e.log = d.log
  PROVE  Joins(d, e) /\ Silent(d, e)
BY DEF Joins, Silent, Continues

\* What a commit appends.
LEMMA CommitAppends ==
  ASSUME NEW d \in Chat!Db, NEW items \in Seq(Chat!Item), NEW conv \in [Chat!Updates -> Nat],
         NEW turn \in BOOLEAN
  PROVE  LET c == Chat!Committed(d, items, conv, turn)
         IN  /\ c \in Chat!Db /\ c.pin = d.pin /\ Continues(d, c)
             /\ \A k \in DOMAIN c.log \ DOMAIN d.log :
                  (c.log[k].turn => turn) /\ \E u \in Chat!Updates : c.log[k].conv = conv[u]
<1> DEFINE c == Chat!Committed(d, items, conv, turn)
<1>1. /\ c \in Chat!Db /\ c.pin = d.pin
      /\ Len(d.log) \in Nat /\ Len(items) \in Nat
      /\ Len(c.log) = Len(d.log) + Len(items) /\ DOMAIN c.log = 1 .. Len(c.log)
      /\ \A k \in 1 .. Len(d.log) : c.log[k] = d.log[k]
      /\ \A k \in 1 .. Len(items) :
           c.log[Len(d.log) + k] = [u |-> items[k].u, text |-> items[k].text,
                                    conv |-> conv[items[k].u], turn |-> turn]
  BY CommitFacts
<1>2. DOMAIN d.log = 1 .. Len(d.log)
  <2>1. d.log \in Seq(Chat!Entry)
    BY DbFields
  <2> QED BY <2>1
<1> HIDE DEF c
<1>3. Continues(d, c)
  BY <1>1, <1>2 DEF Continues
<1>4. ASSUME NEW k \in DOMAIN c.log \ DOMAIN d.log
      PROVE  (c.log[k].turn => turn) /\ \E u \in Chat!Updates : c.log[k].conv = conv[u]
  <2> DEFINE j == k - Len(d.log)
  <2>1. j \in 1 .. Len(items) /\ k = Len(d.log) + j
    BY <1>1, <1>2
  <2> HIDE DEF j
  <2>2. items[j].u \in Chat!Updates
    <3>1. DOMAIN items = 1 .. Len(items) /\ \A i \in DOMAIN items : items[i] \in Chat!Item
      BY IdsIn
    <3> QED BY <2>1, <3>1 DEF Chat!Item
  <2>3. c.log[k] = [u |-> items[j].u, text |-> items[j].text, conv |-> conv[items[j].u], turn |-> turn]
    BY <1>1, <2>1
  <2> QED BY <2>2, <2>3
<1> QED BY <1>1, <1>3, <1>4 DEF c

\* An archive starts no turn.
LEMMA ArchivedIsSilent ==
  ASSUME NEW d \in Chat!Db, NEW items \in Seq(Chat!Item), NEW convs
  PROVE  Chat!ArchivedTo(d, items, convs) \in Chat!Db /\ Silent(d, Chat!ArchivedTo(d, items, convs))
<1> DEFINE passed == Chat!Only(items, {u \in Chat!Waiting(d) : d.rows[u].target \in convs})
           conv == [u \in Chat!Updates |-> d.rows[u].target]
<1>1. passed \in Seq(Chat!Item) /\ FALSE \in BOOLEAN
  BY OnlyKeeps
<1>2. conv \in [Chat!Updates -> Nat]
  BY DbFields DEF Chat!Row
<1>3. Chat!ArchivedTo(d, items, convs) = Chat!Committed(d, passed, conv, FALSE)
  BY DEF Chat!ArchivedTo
<1> HIDE DEF passed, conv
<1> DEFINE c == Chat!Committed(d, passed, conv, FALSE)
<1>4. c \in Chat!Db /\ Continues(d, c) /\ \A k \in DOMAIN c.log \ DOMAIN d.log : ~c.log[k].turn
  BY <1>1, <1>2, CommitAppends
<1> HIDE DEF c
<1>5. Silent(d, c)
  BY <1>4 DEF Silent
<1> QED BY <1>3, <1>4, <1>5 DEF c

\* Nor do the archives a failed commit got done.
LEMMA BegunIsSilent ==
  ASSUME NEW d \in Chat!Db, NEW items \in Seq(Chat!Item), NEW e \in Chat!Begun(d, items)
  PROVE  Silent(d, e)
<1>1. \E convs : e = Chat!ArchivedTo(d, items, convs)
  BY DEF Chat!Begun
<1> QED BY <1>1, ArchivedIsSilent

\* An admission starts its turns in the current conversation.
LEMMA AdmittedJoins ==
  ASSUME NEW d \in Chat!Db, NEW items \in Seq(Chat!Item)
  PROVE  Joins(d, Chat!Admitted(d, items))
<1> DEFINE conv == [u \in Chat!Updates |-> d.pin]
<1>1. conv \in [Chat!Updates -> Nat] /\ \A u \in Chat!Updates : conv[u] = d.pin
  BY DbFields
<1> DEFINE yes == TRUE
<1>3. yes \in BOOLEAN
  OBVIOUS
<1>2. Chat!Admitted(d, items) = Chat!Committed(d, items, conv, yes)
  BY DEF Chat!Admitted
<1> HIDE DEF conv, yes
<1> DEFINE c == Chat!Committed(d, items, conv, yes)
<1>4. /\ c.pin = d.pin /\ Continues(d, c)
      /\ \A k \in DOMAIN c.log \ DOMAIN d.log : \E u \in Chat!Updates : c.log[k].conv = conv[u]
  BY <1>1, <1>3, CommitAppends
<1>5. Chat!Admitted(d, items) = c
  BY <1>2
<1> HIDE DEF c
<1>6. \A k \in DOMAIN c.log \ DOMAIN d.log : c.log[k].conv = d.pin
  BY <1>1, <1>4
<1>7. Joins(d, c)
  BY <1>4, <1>6 DEF Joins
<1> QED BY <1>5, <1>7

\* An acknowledgement starts none.
LEMMA AcknowledgedJoins ==
  ASSUME NEW d \in Chat!Db, NEW items
  PROVE  Joins(d, Chat!Acknowledged(d, items))
BY AckFacts, SameJoins

\* What is done with a batch that may be admitted.
LEMMA AdmitsJoins ==
  ASSUME NEW d \in Chat!Db, NEW batch \in Seq(Chat!Item), NEW bk, Chat!Admits(d, batch, bk)
  PROVE  Joins(d, db')
<1>1. db' = Chat!Acknowledged(d, batch) \/ db' = Chat!Admitted(d, batch)
  BY DEF Chat!Admits, Chat!Ends
<1> QED BY <1>1, AdmittedJoins, AcknowledgedJoins

\* What is done with the rest of a batch.
LEMMA RoutesJoins ==
  ASSUME NEW d \in Chat!Db, NEW items, NEW batch \in Seq(Chat!Item), NEW bk,
         Chat!Routes(d, items, batch, bk)
  PROVE  Joins(d, db')
<1>1. CASE Chat!Ends(Chat!Acknowledged(d, batch), live, bk)
  BY <1>1, AcknowledgedJoins DEF Chat!Ends
<1>2. CASE Chat!Admits(d, batch, bk)
  BY <1>2, AdmitsJoins
<1>3. CASE Chat!Waits(Chat!Mint(d), "marking", items, batch, bk)
  <2>1. db' = Chat!Mint(d) /\ Chat!Mint(d).log = d.log
    BY <1>3 DEF Chat!Waits, Chat!Mint, Chat!Db
  <2> QED BY <2>1, SameJoins
<1>4. CASE Chat!Waits(d, "checking", items, batch, bk)
  BY <1>4, SameJoins DEF Chat!Waits
<1> QED BY <1>1, <1>2, <1>3, <1>4 DEF Chat!Routes

\* A flush, in either channel.
LEMMA FlushJoins ==
  ASSUME IInv, Chat!Flush(bucket)
  PROVE  Joins(db, db')
<1>1. db \in Chat!Db /\ bucket \in Seq(Chat!Item)
  BY DEF IInv, Chat!TypeOK
<1>2. CASE lane = "app"
  <2>1. db' = Chat!Acknowledged(db, bucket) \/ db' = Chat!Admitted(db, bucket) \/ db' = db
    BY <1>2 DEF Chat!Flush, Chat!FlushApp, Chat!Ends, Chat!Breaks
  <2> QED BY <1>1, <2>1, AcknowledgedJoins, AdmittedJoins, SameJoins
<1>3. CASE lane # "app"
  <2> DEFINE d == Chat!Archived(db, bucket)
             rest == Chat!Remaining(db, bucket)
  <2>1. d \in Chat!Db /\ Silent(db, d)
    BY <1>1, ArchivedIsSilent DEF Chat!Archived
  <2>2. rest \in Seq(Chat!Item)
    BY <1>1, OnlyKeeps DEF Chat!Remaining
  <2>3. Chat!Routes(d, bucket, rest, <<>>) \/ \E done \in Chat!Begun(db, bucket) : db' = done
    BY <1>3 DEF Chat!Flush, Chat!Breaks
  <2> HIDE DEF d, rest
  <2>4. CASE Chat!Routes(d, bucket, rest, <<>>)
    BY <2>1, <2>2, <2>4, RoutesJoins, SilentThenJoins
  <2>5. CASE \E done \in Chat!Begun(db, bucket) : db' = done
    <3>1. Silent(db, db')
      BY <1>1, <2>5, BegunIsSilent
    <3> QED BY <3>1 DEF Silent, Joins
  <2> QED BY <2>3, <2>4, <2>5
<1> QED BY <1>2, <1>3

\* A continuation after an await.
LEMMA ResumeJoins ==
  ASSUME IInv, Chat!Resume
  PROVE  Joins(db, db')
<1>1. db \in Chat!Db /\ flight.batch \in Seq(Chat!Item)
  BY DEF IInv, Chat!TypeOK, Chat!Flights
<1> DEFINE d == Chat!Archived(db, flight.batch)
           rest == Chat!Remaining(db, flight.batch)
<1>2. d \in Chat!Db /\ Silent(db, d)
  BY <1>1, ArchivedIsSilent DEF Chat!Archived
<1>3. rest \in Seq(Chat!Item)
  BY <1>1, OnlyKeeps DEF Chat!Remaining
<1>4. \/ Chat!Routes(d, flight.items, rest, bucket)
      \/ Chat!Admits(d, rest, bucket)
      \/ Chat!Waits(Chat!Mint(d), "marking", flight.items, rest, bucket)
      \/ \E done \in Chat!Begun(db, flight.batch) : db' = done
  BY DEF Chat!Resume, Chat!Rechecked, Chat!Breaks
<1> HIDE DEF d, rest
<1>5. CASE Chat!Routes(d, flight.items, rest, bucket)
  BY <1>2, <1>3, <1>5, RoutesJoins, SilentThenJoins
<1>6. CASE Chat!Admits(d, rest, bucket)
  BY <1>2, <1>3, <1>6, AdmitsJoins, SilentThenJoins
<1>7. CASE Chat!Waits(Chat!Mint(d), "marking", flight.items, rest, bucket)
  <2>1. db' = Chat!Mint(d) /\ Chat!Mint(d).log = d.log
    BY <1>2, <1>7 DEF Chat!Waits, Chat!Mint, Chat!Db
  <2> QED BY <1>2, <2>1, SameJoins, SilentThenJoins
<1>8. CASE \E done \in Chat!Begun(db, flight.batch) : db' = done
  <2>1. Silent(db, db')
    BY <1>1, <1>8, BegunIsSilent
  <2> QED BY <2>1 DEF Silent, Joins
<1> QED BY <1>4, <1>5, <1>6, <1>7, <1>8

\* The other steps append nothing.
LEMMA OthersAppendNothing ==
  ASSUME IInv, Chat!InboxAssumption, Chat!Handle \/ Chat!Wake \/ Chat!IntakeStep \/ Chat!DeleteApp
  PROVE  db'.log = db.log
<1>1. db \in Chat!Db /\ live \subseteq 1 .. Len(db.prev) /\ StepIds(chain) \subseteq Chat!Updates
  BY StepsTyped DEF IInv, Chat!TypeOK
<1>2. ASSUME Flushing(db, flight.items, flight.batch, bucket, chain, refused), Chat!Rolls
      PROVE  db'.log = db.log
  BY <1>1, <1>2, RollsKeeps DEF Turned
<1>3. CASE Chat!Handle
  <2>1. bot # "down"
    BY <1>3 DEF Chat!Handle
  <2>2. Flushing(db, flight.items, flight.batch, bucket, chain, refused)
    BY <2>1, Apart
  <2>3. handled + 1 \in Chat!Updates
    <3>1. /\ MaxUpdates \in Nat /\ handled \in Nat /\ Len(sent) \in Nat /\ Len(sent) <= MaxUpdates
      BY DEF IInv, Chat!TypeOK, Chat!InboxAssumption
    <3>2. handled < Len(sent) \/ handled < MaxUpdates
      BY <1>3 DEF Chat!Handle
    <3> QED BY <3>1, <3>2 DEF Chat!Updates
  <2>4. \/ UNCHANGED db
        \/ Chat!TakeMessage(handled + 1)
        \/ \E kind : Chat!Navigate(handled + 1, kind)
        \/ Chat!Rolls
    BY <1>3 DEF Chat!Handle, Chat!TakeEdit, Chat!Command, Chat!Kinds
  <2>5. CASE Chat!TakeMessage(handled + 1)
    BY <1>1, <2>5 DEF Chat!TakeMessage, Chat!Db
  <2>6. ASSUME NEW kind, Chat!Navigate(handled + 1, kind) PROVE db'.log = db.log
    BY <1>1, <2>2, <2>3, <2>6, NavigateKeeps DEF Turned
  <2> QED BY <1>2, <2>2, <2>4, <2>5, <2>6
<1>4. CASE Chat!Wake
  <2>1. Flushing(db, flight.items, flight.batch, bucket, chain, refused) /\ Chat!Rolls
    BY <1>4, Apart DEF Chat!Wake
  <2> QED BY <1>2, <2>1
<1>5. CASE Chat!IntakeStep
  BY <1>1, <1>5 DEF Chat!IntakeStep, Chat!Push, Chat!Amend, Chat!Db
<1>6. CASE Chat!DeleteApp
  BY <1>1, <1>6 DEF Chat!DeleteApp, Chat!Db
<1> QED BY <1>3, <1>4, <1>5, <1>6

\* Every step.
LEMMA NextJoins ==
  ASSUME Chat!InboxAssumption, IInv, [Chat!Next]_(Chat!inbox)
  PROVE  Joins(db, db')
<1>1. ASSUME db'.log = db.log PROVE Joins(db, db')
  BY <1>1, SameJoins
<1>2. ASSUME Chat!Flush(bucket) \/ UNCHANGED db PROVE Joins(db, db')
  BY <1>1, <1>2, FlushJoins
<1>3. CASE UNCHANGED Chat!inbox \/ Chat!TurnOver \/ Chat!Reconfigure \/ Chat!Shutdown \/ Chat!Crash \/ Chat!Exit \/ Chat!Boot
  <2>1. UNCHANGED db
    BY <1>3 DEF Chat!inbox, Chat!TurnOver, Chat!Reconfigure, Chat!Shutdown, Chat!Crash, Chat!Exit,
       Chat!Boot
  <2> QED BY <1>2, <2>1
<1>4. CASE Chat!Settle \/ Chat!Timer \/ Chat!Drain
  <2>1. Chat!Flush(bucket) \/ UNCHANGED db
    BY <1>4 DEF Chat!Settle, Chat!Timer, Chat!Drain, Chat!SecondLook, Chat!StartDrain, Chat!Fire
  <2> QED BY <1>2, <2>1
<1>5. CASE Chat!Resume
  BY <1>5, ResumeJoins
<1>6. CASE Chat!Handle \/ Chat!Wake \/ Chat!IntakeStep \/ Chat!DeleteApp
  BY <1>1, <1>6, OthersAppendNothing
<1> QED BY <1>3, <1>4, <1>5, <1>6 DEF Chat!Next

\* A turn starts in the conversation that is current when its batch is committed, however many
\* navigations, downloads and crashes came between (tg/mod.ts, flushRolling).
THEOREM TurnsJoinTheCurrent ==
  /\ Chat!InboxAssumption => (Chat!Spec => Chat!JoinsTheCurrent)
  /\ Spec => JoinsTheCurrent
<1> DEFINE Current ==
      \A k \in DOMAIN db'.log \ DOMAIN db.log : db'.log[k].turn => db'.log[k].conv = db'.pin
<1>1. Chat!InboxAssumption /\ IInv /\ [Chat!Next]_(Chat!inbox) => [Current]_(Chat!inbox)
  BY NextJoins DEF Joins
<1>2. Chat!InboxAssumption => (Chat!Spec => Chat!JoinsTheCurrent)
  <2> SUFFICES ASSUME Chat!InboxAssumption PROVE Chat!Spec => Chat!JoinsTheCurrent
    OBVIOUS
  <2> QED BY <1>1, InductiveInvariant, PTL DEF Chat!Spec, Chat!JoinsTheCurrent
<1>3. Spec => JoinsTheCurrent
  <2>1. Chat!Init => IInv
    BY InitHolds, IntakeAssumption
  <2>2. IInv /\ [Chat!Next]_(Chat!inbox) => IInv' /\ [Current]_(Chat!inbox)
    BY <1>1, NextKeeps, IntakeAssumption
  <2> QED BY <2>1, <2>2, PTL DEF Spec, Chat!Spec, JoinsTheCurrent, Chat!JoinsTheCurrent
<1> QED BY <1>2, <1>3

=============================================================================
