----------------------------- MODULE SubagentProofs -----------------------------
(***************************************************************************)
(* Subagent runs, for any number of rows, inputs and faults.               *)
(***************************************************************************)
EXTENDS MCBackgroundWork, FiniteSetTheorems, TLAPS

-----------------------------------------------------------------------------
(* The inductive invariant. *)

Strange(r) == r \in crossed \cup revived

\* What Pi holds: inputs after the one it is bound to, the last placed among them; an
\* outcome is of the input it is bound to, and ends its work.
PiAt(r) ==
    /\ pi[r].bound <= pi[r].placed
    /\ \A n \in pi[r].subs : pi[r].bound < n /\ n <= pi[r].placed
    /\ pi[r].subs # {} => pi[r].placed \in pi[r].subs
    /\ pi[r].out # None => /\ pi[r].out.rev = pi[r].bound /\ answers[r] = pi[r].bound
                           /\ pi[r].work \in {"idle", "gen"}
    /\ pi[r].placed = 0 => pi[r].work = "idle" /\ pi[r].out = None
    /\ pi[r].placed > 0 => Crew!Known(r)

\* A row and what Pi holds of it.
RowAt(r) == Crew!Known(r) =>
    /\ runs[r].halt => runs[r].status \notin {"done", "failed"}
    /\ Crew!Over(r) => runs[r].park = None /\ (runs[r].owed \/ news[r] = runs[r].status)
    /\ runs[r].sub <= pi[r].placed /\ pi[r].placed <= runs[r].rev
    /\ runs[r].intent => runs[r].rev > 0
    /\ pi[r].placed > 0 => runs[r].conv /\ (Crew!Over(r) \/ Crew!Along(r))
    /\ runs[r].park # None => /\ pi[r].placed > 0
                              /\ ~runs[r].halt => pi[r].work \in {"gate", "replay"}
    /\ runs[r].status \in {"running", "needs_input"} => runs[r].conv
    /\ runs[r].status = "done" => pi[r].out # None /\ pi[r].out.rev = runs[r].rev
    /\ Crew!Over(r) /\ ~Strange(r) => pi[r].work # "tool" /\ pi[r].subs = {}
    /\ r \in given => runs[r].park = None

\* A steer that has not placed its input yet, and may take it back.
Steering(r) == lane[r] # None /\ lane[r].op = "steer" /\ lane[r].at \in {"claim", "prepare"}

\* The outcome of an input is there, or Pi rests.
Ended(r, rev) ==
    \/ pi[r].work = "idle" /\ pi[r].subs = {}
    \/ pi[r].out # None /\ pi[r].out.rev = rev

WatchAt(r) ==
    /\ \A v \in watch[r] \cup ready[r] : Crew!Known(r) /\ v <= runs[r].rev /\ (Steering(r) => v < runs[r].rev)
    /\ ready[r] # {} => pi[r].work \notin {"gate", "replay"}
    /\ Crew!Known(r) /\ ~Strange(r) /\ ~runs[r].halt /\ ~Crew!Over(r) =>
        /\ \A v \in ready[r] : pi[r].placed <= v => Ended(r, v)
        /\ runs[r].intent => /\ runs[r].rev \notin ready[r]
                             /\ runs[r].rev \in watch[r] => runs[r].park # None

\* What holds a lane, and what the row may be meanwhile.
LaneAt(r) == lane[r] # None =>
    /\ Crew!Known(r)
    /\ lane[r].op = "drain" =>
        /\ r \in inflight /\ lane[r].at \in {"claim", "prepare", "regain", "look", "submit"}
        /\ Crew!Over(r) => (runs[r].halt /\ lane[r].at = "claim") \/ (r \in revived /\ lane[r].at \in {"claim", "prepare"})
        /\ lane[r].at \in {"claim", "prepare", "regain"} => runs[r].status # "running"
    /\ lane[r].op \in {"steer", "recover"} =>
        /\ lane[r].at \in {"claim", "prepare", "regain", "look", "submit", "lookup"}
        /\ runs[r].status = "running" \/ (runs[r].status = "needs_input" /\ runs[r].park = "open")
        /\ lane[r].op = "steer" => lane[r].at \notin {"lookup", "regain"} /\ runs[r].park # "decided"
    /\ Steering(r) => runs[r].intent /\ pi[r].placed < runs[r].rev
    /\ lane[r].at = "regain" => runs[r].park = "decided"
    /\ lane[r].at \in {"look", "submit"} =>
        runs[r].status \in {"running", "needs_input"} /\ runs[r].intent
    /\ lane[r].op = "stop" => lane[r].at = "abort" /\ runs[r].halt /\ ~Crew!Over(r)
    /\ lane[r].op = "finalize" =>
        /\ lane[r].at \in {"read", "close"} /\ ~Crew!Over(r) /\ lane[r].rev = runs[r].rev /\ ~runs[r].intent
        /\ pi[r].work \notin {"gate", "replay"}
        /\ lane[r].kept = "done" => pi[r].out # None /\ pi[r].out.rev = lane[r].rev /\ pi[r].out.kind = "done"
        /\ ~Strange(r) /\ ~runs[r].halt => Ended(r, lane[r].rev)
    /\ lane[r].op = "reattach" =>
        lane[r].at = "lookup" /\ runs[r].status # "running" /\ ~Crew!Over(r) /\ runs[r].park # None
    /\ lane[r].op = "exhaust" => lane[r].at = "abort"

\* What runs has something to settle it, and so has the input a steer may go back to.
OwnedAt(r) ==
    mode # "down" /\ Crew!Live(r) /\ r \notin crossed =>
        /\ lane[r] = None => \/ r \in pending \cup boot
                             \/ ~runs[r].intent /\ runs[r].rev \in watch[r] \cup ready[r]
        /\ Steering(r) => r \in pending \cup boot \/ runs[r].rev - 1 \in watch[r] \cup ready[r]

Emptied(r) == r \in inflight =>
    /\ Crew!Known(r)
    /\ runs[r].status = "running" => lane[r] # None /\ lane[r].op = "drain" /\ lane[r].at \in {"look", "submit"}

At(r) == PiAt(r) /\ RowAt(r) /\ WatchAt(r) /\ LaneAt(r) /\ OwnedAt(r) /\ Emptied(r)

\* The row whose lease it is.
Holding(r) == Crew!Known(r) /\ ~Crew!Over(r) /\ r \notin revived /\ (Crew!Along(r) \/ r \in inflight)
Leases ==
    /\ \A q \in Crew!Rows : Crew!Known(q) => \A p \in 1 .. q - 1 : Crew!Known(p)
    /\ shared =>
        /\ \A p, q \in Crew!Rows : Holding(p) /\ Holding(q) => p = q
        /\ \A q \in inflight : Holding(q) /\ ~Crew!Along(q) => \A p \in 1 .. q - 1 : Crew!Over(p) \/ p \in revived

Modes ==
    /\ mode = "up" => boot = {}
    /\ mode = "down" => /\ boot = {} /\ pending = {} /\ inflight = {} /\ given = {}
                        /\ \A r \in Crew!Rows : lane[r] = None /\ watch[r] = {} /\ ready[r] = {}

IInv == Crew!TypeOK /\ (\A r \in Crew!Rows : At(r)) /\ Leases /\ Modes /\ Crew!Slots

-----------------------------------------------------------------------------
(* What a step does to a row.                                              *)

\* Nothing.
Unmoved(q) ==
    /\ runs'[q] = runs[q] /\ pi'[q] = pi[q] /\ watch'[q] = watch[q] /\ ready'[q] = ready[q]
    /\ lane'[q] = lane[q] /\ news'[q] = news[q] /\ answers'[q] = answers[q] /\ mode' = mode
    /\ (q \in pending' <=> q \in pending) /\ (q \in boot' <=> q \in boot)
    /\ (q \in inflight' <=> q \in inflight) /\ (q \in given' <=> q \in given)
    /\ (q \in crossed' <=> q \in crossed) /\ (q \in revived' <=> q \in revived)

\* It takes no lease and no slot, and what is over stays over.
Modest(r) ==
    /\ Crew!Known(r) => Crew!Known(r)'
    /\ r \in revived => r \in revived'
    /\ Crew!Over(r) => Crew!Over(r)' \/ r \in revived'
    /\ Holding(r)' => Holding(r)
    /\ r \in inflight' => r \in inflight
    /\ Crew!Known(r) /\ ~Crew!Over(r) /\ Crew!Along(r) => Crew!Over(r)' \/ Crew!Along(r)'
    /\ Crew!Known(r)' /\ runs'[r].status = "running" => r \in Crew!Busy

LEMMA UnmovedHolds ==
  ASSUME NEW q \in Crew!Rows, At(q), Unmoved(q)
  PROVE  At(q)' /\ Modest(q)
<1>1. PiAt(q)' /\ RowAt(q)'
  BY DEF Unmoved, At, PiAt, RowAt, Crew!Known, Crew!Over, Crew!Along, Strange
<1>2. WatchAt(q)' /\ LaneAt(q)'
  BY DEF Unmoved, At, WatchAt, LaneAt, Crew!Known, Crew!Over, Strange, Steering, Ended
<1>3. OwnedAt(q)' /\ Emptied(q)'
  BY DEF Unmoved, At, OwnedAt, Emptied, Crew!Known, Crew!Live, Steering
<1>4. Modest(q)
  BY DEF Unmoved, Modest, Crew!Known, Crew!Over, Holding, Crew!Along, Crew!Busy
<1> QED BY <1>1, <1>2, <1>3, <1>4 DEF At

USE DEF Crew!Known, Crew!Over, Crew!Live, Crew!Along, Strange, Crew!Statuses, Crew!process, Crew!history, Crew!Same, Crew!Parked

Typed(r) ==
    /\ runs[r] \in Crew!Run \cup {None} /\ pi[r] \in Crew!Agent /\ lane[r] \in Crew!Holder \cup {None}
    /\ watch[r] \subseteq 1 .. MaxRev /\ ready[r] \subseteq 1 .. MaxRev
    /\ news[r] \in Crew!Statuses \cup {None} /\ answers[r] \in Nat

\* What is to be shown of a step of row r.
Sound(r) == Crew!TypeOK' /\ At(r)' /\ Modest(r) /\ \A q \in Crew!Rows \ {r} : Unmoved(q)

SameInput(new, run) == new.rev = run.rev /\ new.intent = run.intent /\ new.conv = run.conv /\ new.sub = run.sub

LEMMA RowTyped ==
  ASSUME Crew!TypeOK, NEW r \in Crew!Rows
  PROVE  Typed(r)
BY DEF Crew!TypeOK, Typed

\* A row that is told: its notice went out, or is owed.
LEMMA ToldRow ==
  ASSUME Crew!TypeOK, NEW r \in Crew!Rows, NEW mine \in Crew!Run, Crew!Tell(r, mine)
  PROVE  \E new \in Crew!Run :
            /\ runs' = [runs EXCEPT ![r] = new] /\ new.status = mine.status /\ new.halt = mine.halt
            /\ new.park = mine.park /\ SameInput(new, mine) /\ (new.owed \/ news'[r] = new.status)
            /\ news' \in [Crew!Rows -> Crew!Statuses \cup {None}] /\ (\A q \in Crew!Rows \ {r} : news'[q] = news[q])
            /\ troubles' \in Nat
<1>1. CASE /\ runs' = [runs EXCEPT ![r] = [mine EXCEPT !.owed = FALSE]]
           /\ news' = [news EXCEPT ![r] = mine.status] /\ UNCHANGED troubles
  <2>1. PICK new \in Crew!Run : new = [mine EXCEPT !.owed = FALSE]
    BY DEF Crew!Run
  <2>2. new.status = mine.status /\ new.halt = mine.halt /\ new.park = mine.park /\ SameInput(new, mine)
    BY <2>1 DEF Crew!Run, SameInput
  <2>3. news'[r] = new.status /\ news' \in [Crew!Rows -> Crew!Statuses \cup {None}] /\ \A q \in Crew!Rows \ {r} : news'[q] = news[q]
    BY <1>1, <2>1 DEF Crew!TypeOK, Crew!Run
  <2>4. troubles' \in Nat
    BY <1>1 DEF Crew!TypeOK
  <2> QED BY <1>1, <2>1, <2>2, <2>3, <2>4
<1>2. CASE runs' = [runs EXCEPT ![r] = [mine EXCEPT !.owed = TRUE]] /\ Crew!Fault /\ UNCHANGED news
  <2>1. PICK new \in Crew!Run : new = [mine EXCEPT !.owed = TRUE]
    BY DEF Crew!Run
  <2>2. new.status = mine.status /\ new.halt = mine.halt /\ new.park = mine.park /\ SameInput(new, mine) /\ new.owed
    BY <2>1 DEF Crew!Run, SameInput
  <2>3. news' \in [Crew!Rows -> Crew!Statuses \cup {None}] /\ \A q \in Crew!Rows \ {r} : news'[q] = news[q]
    BY <1>2 DEF Crew!TypeOK
  <2>4. troubles' \in Nat
    BY <1>2 DEF Crew!TypeOK, Crew!Fault
  <2> QED BY <1>2, <2>1, <2>2, <2>3, <2>4
<1> QED BY <1>1, <1>2 DEF Crew!Tell

\* The lane: taken, kept for the next step, left.
InLane(r, held, op, at) ==
    /\ held \in Crew!Holder /\ held # None /\ held.op = op /\ held.at = at
    /\ lane' = [lane EXCEPT ![r] = held] /\ lane'[r] = held

LEMMA EnterLane ==
  ASSUME Crew!SubagentsAssumption, Crew!TypeOK, NEW r \in Crew!Rows, NEW op, NEW at, NEW rev,
         Crew!Enter(r, op, at, rev),
         [op |-> op, at |-> at, rev |-> rev, kept |-> None] \in Crew!Holder
  PROVE  lane[r] = None /\ \E held : InLane(r, held, op, at) /\ held.rev = rev /\ held.kept = None
<1>1. PICK held : held = [op |-> op, at |-> at, rev |-> rev, kept |-> None]
  OBVIOUS
<1>2. InLane(r, held, op, at) /\ held.rev = rev /\ held.kept = None
  BY <1>1 DEF Crew!Enter, InLane, Crew!TypeOK, Crew!SubagentsAssumption
<1> QED BY <1>2 DEF Crew!Enter

LEMMA ToLane ==
  ASSUME Crew!SubagentsAssumption, Crew!TypeOK, NEW r \in Crew!Rows, lane[r] # None,
         NEW at \in {"claim", "prepare", "regain", "look", "submit"}, Crew!To(r, at)
  PROVE  \E held : InLane(r, held, lane[r].op, at) /\ held.rev = lane[r].rev /\ held.kept = lane[r].kept
<1>1. PICK was \in Crew!Holder : lane[r] = was
  BY DEF Crew!TypeOK
<1>2. PICK held : held = [was EXCEPT !.at = at]
  OBVIOUS
<1>3. held \in Crew!Holder /\ held.op = was.op /\ held.at = at /\ held.rev = was.rev /\ held.kept = was.kept
  BY <1>2 DEF Crew!Holder
<1>4. lane' = [lane EXCEPT ![r] = held] /\ lane'[r] = held
  BY <1>1, <1>2 DEF Crew!To, Crew!TypeOK
<1> QED BY <1>1, <1>3, <1>4 DEF InLane, Crew!SubagentsAssumption

LEMMA EndsLane ==
  ASSUME Crew!TypeOK, NEW r \in Crew!Rows, Crew!Ends(r)
  PROVE  /\ lane' = [lane EXCEPT ![r] = None] /\ lane'[r] = None /\ inflight' \subseteq inflight
         /\ \A q \in Crew!Rows \ {r} : q \in inflight' <=> q \in inflight
         /\ lane[r].op = "drain" => r \notin inflight'
         /\ lane[r].op # "drain" => (r \in inflight' <=> r \in inflight)
BY DEF Crew!TypeOK, Crew!Ends, Crew!Leave

\* Where Pi was given nothing, it is at rest.
LEMMA PiEmpty ==
  ASSUME Crew!TypeOK, NEW r \in Crew!Rows, PiAt(r), pi[r].placed = 0
  PROVE  pi[r].work = "idle" /\ pi[r].subs = {} /\ pi[r].out = None
<1>1. pi[r].bound \in Nat /\ pi[r].subs \subseteq Nat
  BY DEF Crew!TypeOK, Crew!Agent
<1>2. ASSUME NEW n \in pi[r].subs
      PROVE  FALSE
  BY <1>1, <1>2 DEF PiAt
<1> QED BY <1>2 DEF PiAt

\* The input a row is at is placed, or was, or nothing is.
Placing(r, p, rev) ==
    \/ p = pi[r]
    \/ /\ p.subs = pi[r].subs \cup {rev} /\ p.placed = rev /\ p.placed > pi[r].placed
       /\ p.work = pi[r].work /\ p.bound = pi[r].bound /\ p.out = pi[r].out

LEMMA PlaceRow ==
  ASSUME Crew!SubagentsAssumption, Crew!TypeOK, NEW r \in Crew!Rows, Crew!Known(r), Crew!Place(r)
  PROVE  \E p \in Crew!Agent : pi' = [pi EXCEPT ![r] = p] /\ pi'[r] = p /\ Placing(r, p, runs[r].rev) /\ p.placed >= runs[r].rev
<1>1. PICK was \in Crew!Agent : pi[r] = was
  BY DEF Crew!TypeOK
<1>2. PICK rev \in Nat : runs[r].rev = rev
  BY DEF Crew!TypeOK, Crew!Run, Crew!SubagentsAssumption
<1>3. CASE was.placed >= rev
  <2>1. pi' = [pi EXCEPT ![r] = was] /\ pi'[r] = was
    BY <1>1, <1>2, <1>3 DEF Crew!TypeOK, Crew!Place
  <2> QED BY <1>1, <1>2, <1>3, <2>1 DEF Placing
<1>4. CASE ~(was.placed >= rev)
  <2>1. PICK p : p = [was EXCEPT !.subs = @ \cup {rev}, !.placed = rev]
    OBVIOUS
  <2>2. p \in Crew!Agent /\ p.subs = was.subs \cup {rev} /\ p.placed = rev /\ p.work = was.work /\ p.bound = was.bound /\ p.out = was.out
    BY <2>1 DEF Crew!Agent
  <2>3. p.placed > was.placed /\ p.placed >= rev
    BY <1>4, <2>2 DEF Crew!Agent
  <2>4. pi' = [pi EXCEPT ![r] = p] /\ pi'[r] = p
    BY <1>1, <1>2, <1>4, <2>1 DEF Crew!Place, Crew!TypeOK
  <2> QED BY <1>1, <1>2, <2>2, <2>3, <2>4 DEF Placing
<1> QED BY <1>3, <1>4

\* A change of what Pi does for a row, in fields.
Changed(r, p, work, subs, bound, outcome) ==
    /\ p \in Crew!Agent /\ pi' = [pi EXCEPT ![r] = p] /\ pi'[r] = p /\ p.work = work /\ p.subs = subs
    /\ p.placed = pi[r].placed /\ p.bound = bound /\ p.out = outcome

LEMMA StartHolds ==
  ASSUME Crew!SubagentsAssumption, Crew!TypeOK, NEW r \in Crew!Rows, At(r), Crew!Start(r)
  PROVE  Sound(r)
<1>1. runs[r] = None /\ (r > 1 => runs[r - 1] # None) /\ UNCHANGED <<pi, Crew!process, Crew!history, news, troubles>>
  BY DEF Crew!Start, Crew!Put
<1>2. PICK new : new = [status |-> "queued", halt |-> FALSE, rev |-> 0, intent |-> FALSE, conv |-> FALSE,
                        sub |-> 0, park |-> None, owed |-> FALSE]
  OBVIOUS
<1>3. /\ new \in Crew!Run /\ new.status = "queued" /\ ~new.halt /\ new.rev = 0 /\ ~new.intent /\ ~new.conv /\ new.sub = 0
      /\ new.park = None /\ ~new.owed
  BY <1>2 DEF Crew!Run, Crew!SubagentsAssumption
<1>4. runs' = [runs EXCEPT ![r] = new] /\ runs'[r] = new /\ Typed(r)
  BY <1>2, RowTyped DEF Crew!TypeOK, Crew!Start, Crew!Put
<1>5. Crew!TypeOK' /\ (\A q \in Crew!Rows \ {r} : Unmoved(q))
  BY <1>1, <1>3, <1>4 DEF Crew!TypeOK, Unmoved
<1>6. PiAt(r)'
  BY <1>1, <1>3, <1>4 DEF Typed, At, PiAt
<1>7. RowAt(r)'
  BY <1>1, <1>3, <1>4 DEF Typed, At, PiAt, RowAt, Crew!Agent
<1>8. WatchAt(r)'
  BY <1>1, <1>3, <1>4 DEF At, WatchAt, Ended
<1>9. LaneAt(r)'
  BY <1>1, <1>3, <1>4 DEF At, LaneAt, Ended
<1>10. OwnedAt(r)' /\ Emptied(r)'
  BY <1>1, <1>3, <1>4 DEF At, OwnedAt, Emptied
<1>11. Modest(r)
  BY <1>1, <1>3, <1>4 DEF At, Emptied, Modest, Holding, Crew!Busy
<1> QED BY <1>5, <1>6, <1>7, <1>8, <1>9, <1>10, <1>11 DEF At, Sound

LEMMA SendHolds ==
  ASSUME Crew!SubagentsAssumption, Crew!TypeOK, NEW r \in Crew!Rows, At(r), Crew!Send(r)
  PROVE  Sound(r)
<1>1. PICK run \in Crew!Run : runs[r] = run
  BY RowTyped DEF Crew!Send, Typed
<1>2. /\ lane[r] = None /\ ~run.halt /\ run.rev < MaxRev /\ run.conv /\ run.park = None
      /\ UNCHANGED <<pi, watch, ready, mode, boot, pending, inflight, given, Crew!history, news, troubles>>
  BY <1>1 DEF Crew!Send, Crew!Put
<1>5. PICK rev \in 0 .. MaxRev : rev = run.rev + 1
  BY <1>1, <1>2 DEF Crew!Run, Crew!SubagentsAssumption
<1>6. pi[r].placed <= rev /\ run.sub <= pi[r].placed /\ rev > 0
  BY <1>1, <1>2, <1>5 DEF Crew!Send, At, RowAt, Crew!Run, Crew!Agent, Crew!TypeOK
<1>3. ASSUME run.status = "needs_input", lane' = lane,
             Crew!Put(r, [runs[r] EXCEPT !.rev = @ + 1, !.intent = TRUE, !.status = "queued"])
      PROVE  Sound(r)
  <2>1. PICK new : new = [run EXCEPT !.rev = rev, !.intent = TRUE, !.status = "queued"]
    OBVIOUS
  <2>2. /\ new \in Crew!Run /\ new.rev = rev /\ new.intent /\ new.status = "queued"
        /\ new.halt = run.halt /\ new.conv = run.conv /\ new.sub = run.sub /\ new.park = run.park
        /\ new.owed = run.owed
    BY <1>1, <2>1 DEF Crew!Run
  <2>3. runs' = [runs EXCEPT ![r] = new] /\ runs'[r] = new /\ Typed(r)
    BY <1>1, <1>3, <1>5, <2>1, RowTyped DEF Crew!Put, Crew!TypeOK
  <2>4. Crew!TypeOK' /\ (\A q \in Crew!Rows \ {r} : Unmoved(q))
    BY <1>2, <1>3, <2>2, <2>3 DEF Crew!TypeOK, Unmoved
  <2>5. PiAt(r)'
    BY <1>6, <1>1, <1>2, <1>3, <1>5, <2>2, <2>3 DEF At, PiAt, Crew!SubagentsAssumption
  <2>6. RowAt(r)'
    BY <1>6, <1>1, <1>2, <1>3, <1>5, <2>2, <2>3 DEF At, RowAt, Crew!SubagentsAssumption
  <2>7. WatchAt(r)'
    BY <1>6, <1>1, <1>2, <1>3, <1>5, <2>2, <2>3 DEF Typed, At, WatchAt, Crew!Run, Ended,
       Crew!SubagentsAssumption
  <2>8. LaneAt(r)'
    BY <1>6, <1>1, <1>2, <1>3, <1>5, <2>2, <2>3 DEF At, LaneAt, Ended
  <2>9. OwnedAt(r)' /\ Emptied(r)'
    BY <1>6, <1>1, <1>2, <1>3, <1>5, <2>2, <2>3 DEF At, OwnedAt, Emptied, Crew!SubagentsAssumption
  <2>10. Modest(r)
    BY <1>6, <1>1, <1>2, <1>3, <1>5, <2>2, <2>3 DEF At, Modest, Holding, Crew!Busy,
       Crew!SubagentsAssumption
  <2> QED BY <2>4, <2>5, <2>6, <2>7, <2>8, <2>9, <2>10 DEF At, Sound
<1>4. ASSUME run.status = "running", ~run.intent, Crew!Enter(r, "steer", "claim", 0),
             Crew!Put(r, [runs[r] EXCEPT !.rev = @ + 1, !.intent = TRUE])
      PROVE  Sound(r)
  <2>1. PICK new : new = [run EXCEPT !.rev = rev, !.intent = TRUE]
    OBVIOUS
  <2>2. /\ new \in Crew!Run /\ new.rev = rev /\ new.intent /\ new.status = run.status
        /\ new.halt = run.halt /\ new.conv = run.conv /\ new.sub = run.sub /\ new.park = run.park
        /\ new.owed = run.owed
    BY <1>1, <2>1 DEF Crew!Run
  <2>3. runs' = [runs EXCEPT ![r] = new] /\ runs'[r] = new /\ Typed(r)
    BY <1>1, <1>4, <1>5, <2>1, RowTyped DEF Crew!Put, Crew!TypeOK
  <2>4. PICK held : held = [op |-> "steer", at |-> "claim", rev |-> 0, kept |-> None]
    OBVIOUS
  <2>5. lane' = [lane EXCEPT ![r] = held] /\ lane'[r] = held /\ held \in Crew!Holder /\ held.op = "steer" /\ held.at = "claim"
    BY <1>4, <2>4 DEF Crew!Enter, Crew!Holder, Crew!TypeOK
  <2>6. Crew!TypeOK' /\ (\A q \in Crew!Rows \ {r} : Unmoved(q))
    BY <1>2, <2>2, <2>3, <2>5 DEF Crew!TypeOK, Unmoved
  <2>7. PiAt(r)'
    BY <1>6, <1>1, <1>2, <1>4, <1>5, <2>2, <2>3, <2>5 DEF At, PiAt, Crew!SubagentsAssumption
  <2>8. RowAt(r)'
    BY <1>6, <1>1, <1>2, <1>4, <1>5, <2>2, <2>3, <2>5 DEF At, RowAt, Crew!SubagentsAssumption
  <2>9. WatchAt(r)'
    BY <1>6, <1>1, <1>2, <1>4, <1>5, <2>2, <2>3, <2>5 DEF Typed, At, WatchAt, Crew!Run, Ended,
       Crew!SubagentsAssumption
  <2>10. LaneAt(r)'
    BY <1>6, <1>1, <1>2, <1>4, <1>5, <2>2, <2>3, <2>5 DEF Typed, At, RowAt, LaneAt, Crew!Run,
       Crew!Agent, Crew!SubagentsAssumption
  <2>11. OwnedAt(r)' /\ Emptied(r)'
    BY <1>6, <1>1, <1>2, <1>4, <1>5, <2>2, <2>3, <2>5 DEF Typed, At, OwnedAt, Emptied,
       Crew!SubagentsAssumption
  <2>12. Modest(r)
    BY <1>6, <1>1, <1>2, <1>4, <1>5, <2>2, <2>3, <2>5 DEF At, Modest, Holding, Crew!Busy,
       Crew!SubagentsAssumption
  <2> QED BY <2>6, <2>7, <2>8, <2>9, <2>10, <2>11, <2>12 DEF At, Sound
<1> QED BY <1>1, <1>2, <1>3, <1>4, <1>5, <1>6 DEF Crew!Send

LEMMA DecideHolds ==
  ASSUME Crew!SubagentsAssumption, Crew!TypeOK, NEW r \in Crew!Rows, At(r), Crew!Decide(r)
  PROVE  Sound(r)
<1>1. PICK run \in Crew!Run : runs[r] = run
  BY RowTyped DEF Crew!Decide, Typed
<1>2. /\ run.status = "needs_input" /\ run.park # None /\ ~run.halt /\ lane[r] = None
      /\ UNCHANGED <<pi, Crew!process, Crew!history, news, troubles>>
  BY <1>1 DEF Crew!Decide, Crew!Put
<1>3. PICK new : new = [run EXCEPT !.status = "queued", !.park = "decided"]
  OBVIOUS
<1>4. /\ new \in Crew!Run /\ new.status = "queued" /\ new.park = "decided" /\ SameInput(new, run)
      /\ new.halt = run.halt /\ new.owed = run.owed
  BY <1>1, <1>3 DEF SameInput, Crew!Run
<1>5. runs' = [runs EXCEPT ![r] = new] /\ runs'[r] = new /\ Typed(r)
  BY <1>1, <1>2, <1>3, RowTyped DEF Crew!Decide, Crew!Put, Crew!TypeOK
<1>6. Crew!TypeOK' /\ (\A q \in Crew!Rows \ {r} : Unmoved(q))
  BY <1>2, <1>4, <1>5 DEF Crew!TypeOK, Unmoved
<1>7. PiAt(r)'
  BY <1>1, <1>2, <1>4, <1>5 DEF At, PiAt, Crew!SubagentsAssumption
<1>8. RowAt(r)'
  BY <1>1, <1>2, <1>4, <1>5 DEF SameInput, At, RowAt, Crew!SubagentsAssumption
<1>9. WatchAt(r)'
  BY <1>1, <1>2, <1>4, <1>5 DEF SameInput, At, WatchAt, Steering, Ended, Crew!SubagentsAssumption
<1>10. LaneAt(r)'
  BY <1>1, <1>2, <1>4, <1>5 DEF At, LaneAt, Ended
<1>11. OwnedAt(r)' /\ Emptied(r)'
  BY <1>1, <1>2, <1>4, <1>5 DEF At, OwnedAt, Emptied, Crew!SubagentsAssumption
<1>12. Modest(r)
  BY <1>1, <1>2, <1>4, <1>5 DEF At, Modest, Holding, Crew!Busy, Crew!SubagentsAssumption
<1> QED BY <1>6, <1>7, <1>8, <1>9, <1>10, <1>11, <1>12 DEF At, Sound

LEMMA StopHolds ==
  ASSUME Crew!SubagentsAssumption, Crew!TypeOK, NEW r \in Crew!Rows, At(r), Crew!Stop(r)
  PROVE  Sound(r)
<1>1. PICK run \in Crew!Run : runs[r] = run
  BY RowTyped DEF Crew!Stop, Typed
<1>2. ~Crew!Over(r) /\ UNCHANGED <<pi, Crew!process, Crew!history, news, troubles>>
  BY <1>1 DEF Crew!Stop, Crew!Put
<1>3. PICK new : new = [run EXCEPT !.halt = TRUE]
  OBVIOUS
<1>4. /\ new \in Crew!Run /\ new.halt /\ SameInput(new, run) /\ new.status = run.status
      /\ new.park = run.park /\ new.owed = run.owed
  BY <1>1, <1>3 DEF SameInput, Crew!Run
<1>5. runs' = [runs EXCEPT ![r] = new] /\ runs'[r] = new /\ Typed(r)
  BY <1>1, <1>2, <1>3, RowTyped DEF Crew!Stop, Crew!Put, Crew!TypeOK
<1>6. Crew!TypeOK' /\ (\A q \in Crew!Rows \ {r} : Unmoved(q))
  BY <1>2, <1>4, <1>5 DEF Crew!TypeOK, Unmoved
<1>7. PiAt(r)'
  BY <1>1, <1>2, <1>4, <1>5 DEF At, PiAt, Crew!SubagentsAssumption
<1>8. RowAt(r)'
  BY <1>1, <1>2, <1>4, <1>5 DEF SameInput, At, RowAt, Crew!SubagentsAssumption
<1>9. WatchAt(r)'
  BY <1>1, <1>2, <1>4, <1>5 DEF SameInput, At, WatchAt, Steering, Crew!SubagentsAssumption
<1>10. LaneAt(r)'
  BY <1>1, <1>2, <1>4, <1>5 DEF SameInput, At, LaneAt, Steering, Crew!SubagentsAssumption
<1>11. OwnedAt(r)' /\ Emptied(r)'
  BY <1>1, <1>2, <1>4, <1>5 DEF At, OwnedAt, Emptied, Crew!SubagentsAssumption
<1>12. Modest(r)
  BY <1>1, <1>2, <1>4, <1>5 DEF SameInput, At, Modest, Holding, Crew!Busy, Crew!SubagentsAssumption
<1> QED BY <1>6, <1>7, <1>8, <1>9, <1>10, <1>11, <1>12 DEF At, Sound

LEMMA AdmitHolds ==
  ASSUME Crew!SubagentsAssumption, Crew!TypeOK, NEW r \in Crew!Rows, At(r), Crew!Admit(r)
  PROVE  Sound(r)
<1>1. PICK run \in Crew!Run : runs[r] = run
  BY RowTyped DEF Crew!Admit, Typed, At, Emptied
<1>2. /\ r \in inflight
      /\ revived' = IF Crew!Over(r) /\ ~runs[r].halt THEN revived \cup {r} ELSE revived
      /\ UNCHANGED <<runs, pi, watch, ready, mode, boot, pending, inflight, given, shared, answers, crossed,
                     troubles, news>>
  BY DEF Crew!Admit
<1>3. lane[r] = None /\ \E held : InLane(r, held, "drain", "claim")
  BY EnterLane DEF Crew!Admit, Crew!Holder, Crew!SubagentsAssumption
<1>4. PICK held : InLane(r, held, "drain", "claim")
  BY <1>3
<1>5. Typed(r) /\ /\ lane' = [lane EXCEPT ![r] = held] /\ held \in Crew!Holder
  BY <1>4, RowTyped DEF InLane
<1>6. Crew!TypeOK' /\ (\A q \in Crew!Rows \ {r} : Unmoved(q))
  BY <1>2, <1>4, <1>5 DEF Crew!TypeOK, Unmoved, InLane
<1>7. PiAt(r)'
  BY <1>1, <1>2, <1>3, <1>4, <1>5 DEF InLane, At, PiAt
<1>8. RowAt(r)'
  BY <1>1, <1>2, <1>3, <1>4, <1>5 DEF InLane, At, RowAt
<1>9. WatchAt(r)'
  BY <1>1, <1>2, <1>3, <1>4, <1>5 DEF InLane, At, WatchAt, Steering, Ended
<1>10. LaneAt(r)'
  BY <1>1, <1>2, <1>3, <1>4, <1>5 DEF InLane, At, LaneAt, Steering, Emptied
<1>11. OwnedAt(r)' /\ Emptied(r)'
  BY <1>1, <1>2, <1>3, <1>4, <1>5 DEF At, OwnedAt, Emptied
<1>12. Modest(r)
  BY <1>1, <1>2, <1>3, <1>4, <1>5 DEF At, Modest, Holding, Crew!Busy
<1> QED BY <1>6, <1>7, <1>8, <1>9, <1>10, <1>11, <1>12 DEF At, Sound

\* An admission that threw, whatever it had recorded and placed by then.
Caught(r, new) ==
    /\ runs[r] \in Crew!Run /\ new \in Crew!Run /\ new.status = runs[r].status /\ new.halt = runs[r].halt /\ new.rev = runs[r].rev
    /\ new.intent = runs[r].intent /\ new.sub = runs[r].sub /\ new.park = runs[r].park /\ new.owed = runs[r].owed
    /\ runs[r].conv => new.conv

LEMMA PlacedPi ==
  ASSUME Crew!SubagentsAssumption, Crew!TypeOK, NEW r \in Crew!Rows, At(r), NEW run \in Crew!Run,
         runs[r] = run, NEW p \in Crew!Agent, pi'[r] = p, Placing(r, p, run.rev),
         answers' = answers, runs'[r] # None
  PROVE  PiAt(r)'
<1>1. CASE p = pi[r]
  BY <1>1 DEF At, PiAt, Crew!SubagentsAssumption
<1>2. CASE /\ p.subs = pi[r].subs \cup {run.rev} /\ p.placed = run.rev /\ p.placed > pi[r].placed
           /\ p.work = pi[r].work /\ p.bound = pi[r].bound /\ p.out = pi[r].out
  <2>1. pi[r].placed \in Nat /\ pi[r].bound \in Nat /\ pi[r].subs \subseteq Nat /\ run.rev \in Nat
    BY RowTyped DEF Typed, Crew!Agent, Crew!Run
  <2>2. /\ pi[r].bound <= pi[r].placed
        /\ \A n \in pi[r].subs : pi[r].bound < n /\ n <= pi[r].placed
    BY DEF At, PiAt
  <2>3. p.bound <= p.placed /\ (\A n \in p.subs : p.bound < n /\ n <= p.placed) /\ p.placed \in p.subs /\ p.placed > 0
    BY <1>2, <2>1, <2>2
  <2> QED BY <1>2, <2>3 DEF At, PiAt, Crew!SubagentsAssumption
<1> QED BY <1>1, <1>2 DEF Placing

LEMMA ThrownHolds ==
  ASSUME Crew!SubagentsAssumption, Crew!TypeOK, NEW r \in Crew!Rows, At(r), NEW new, Caught(r, new),
         Crew!Thrown(r, new), lane[r] # None, lane[r].op \in Crew!Admitting,
         lane[r].at # "lookup", NEW p \in Crew!Agent, pi' = [pi EXCEPT ![r] = p], Placing(r, p, runs[r].rev),
         p = pi[r] \/ lane[r].at = "submit",
         troubles' \in Nat, UNCHANGED <<watch, ready, mode, boot, given, Crew!history>>
  PROVE  Sound(r)
<1>1. PICK run \in Crew!Run : runs[r] = run
  BY DEF Caught
<1>2. /\ new \in Crew!Run /\ new.status = run.status /\ new.halt = run.halt /\ new.rev = run.rev
      /\ new.intent = run.intent /\ new.sub = run.sub /\ new.park = run.park /\ new.owed = run.owed
      /\ run.conv => new.conv
  BY <1>1 DEF Caught
<1>3. /\ lane' = [lane EXCEPT ![r] = None] /\ lane'[r] = None /\ inflight' \subseteq inflight
      /\ \A q \in Crew!Rows \ {r} : q \in inflight' <=> q \in inflight
      /\ lane[r].op = "drain" => r \notin inflight'
      /\ lane[r].op # "drain" => (r \in inflight' <=> r \in inflight)
  BY EndsLane DEF Crew!Thrown
<1>4. /\ pi'[r] = p /\ p.work = pi[r].work /\ p.bound = pi[r].bound /\ p.out = pi[r].out
      /\ UNCHANGED <<watch, ready, mode, boot, given, Crew!history>> /\ Typed(r)
      /\ lane[r] # None /\ lane[r].op \in {"drain", "steer", "recover"} /\ lane[r].at # "lookup"
  BY RowTyped DEF Placing, Crew!Admitting, Crew!TypeOK
<1>5. /\ p.placed <= run.rev /\ p.placed >= pi[r].placed
      /\ p.placed > 0 => pi[r].placed > 0 \/ lane[r].at = "submit"
      /\ p.placed # pi[r].placed => p.placed = run.rev /\ lane[r].at = "submit"
      /\ run.sub <= p.placed
      /\ (run.park # None => p.placed > 0)
      /\ (p.subs # {} => pi[r].subs # {} \/ lane[r].at = "submit")
  BY <1>1, <1>4 DEF Typed, Placing, At, RowAt, LaneAt, Crew!Run, Crew!Agent
<1>6. \E mine \in Crew!Run :
        /\ runs' = [runs EXCEPT ![r] = mine] /\ mine.halt = run.halt /\ mine.rev = run.rev /\ mine.intent = run.intent
        /\ mine.sub = run.sub /\ mine.park = run.park /\ mine.conv = new.conv
        /\ \/ /\ mine.status = run.status /\ mine.owed = run.owed /\ UNCHANGED <<pending, news>>
              /\ run.halt \/ run.status \notin {"queued", "running"} \/ (lane[r].op = "drain" /\ ~new.conv)
           \/ /\ mine.status = "running" /\ ~run.halt /\ run.status \in {"queued", "running"}
              /\ pending' = pending \cup {r} /\ UNCHANGED news /\ (lane[r].op # "drain" \/ new.conv)
           \/ /\ mine.status = "failed" /\ ~run.halt /\ run.status \in {"queued", "running"}
              /\ lane[r].op = "drain" /\ ~new.conv
              /\ news' = [news EXCEPT ![r] = "failed"] /\ UNCHANGED pending
  <2>1. CASE new.halt \/ new.status \notin {"queued", "running"}
    BY <1>2, <2>1 DEF Crew!Thrown
  <2>2. CASE ~new.halt /\ new.status \in {"queued", "running"} /\ (lane[r].op # "drain" \/ new.conv)
    <3>1. PICK mine : mine = [new EXCEPT !.status = "running"]
      OBVIOUS
    <3>2. /\ mine \in Crew!Run /\ mine.status = "running" /\ mine.halt = run.halt /\ mine.rev = run.rev /\ mine.intent = run.intent
          /\ mine.sub = run.sub /\ mine.park = run.park /\ mine.conv = new.conv
      BY <1>2, <3>1 DEF Crew!Run
    <3>3. runs' = [runs EXCEPT ![r] = mine] /\ pending' = pending \cup {r} /\ UNCHANGED news
      BY <2>2, <3>1 DEF Crew!Thrown, Crew!Owe
    <3> QED BY <1>2, <2>2, <3>2, <3>3
  <2>3. CASE ~new.halt /\ new.status \in {"queued", "running"} /\ lane[r].op = "drain" /\ ~new.conv
    <3>1. PICK mine : mine = [new EXCEPT !.status = "failed", !.owed = FALSE]
      OBVIOUS
    <3>2. /\ mine \in Crew!Run /\ mine.status = "failed" /\ mine.halt = run.halt /\ mine.rev = run.rev /\ mine.intent = run.intent
          /\ mine.sub = run.sub /\ mine.park = run.park /\ mine.conv = new.conv
      BY <1>2, <3>1 DEF Crew!Run
    <3>3. \/ runs' = [runs EXCEPT ![r] = new] /\ UNCHANGED <<pending, news>>
          \/ runs' = [runs EXCEPT ![r] = mine] /\ news' = [news EXCEPT ![r] = "failed"] /\ UNCHANGED pending
      BY <2>3, <3>1 DEF Crew!Thrown
    <3> QED BY <1>2, <2>3, <3>2, <3>3
  <2> QED BY <2>1, <2>2, <2>3
<1>7. PICK mine \in Crew!Run :
        /\ runs' = [runs EXCEPT ![r] = mine] /\ mine.halt = run.halt /\ mine.rev = run.rev /\ mine.intent = run.intent
        /\ mine.sub = run.sub /\ mine.park = run.park /\ mine.conv = new.conv
        /\ \/ /\ mine.status = run.status /\ mine.owed = run.owed /\ UNCHANGED <<pending, news>>
              /\ run.halt \/ run.status \notin {"queued", "running"} \/ (lane[r].op = "drain" /\ ~new.conv)
           \/ /\ mine.status = "running" /\ ~run.halt /\ run.status \in {"queued", "running"}
              /\ pending' = pending \cup {r} /\ UNCHANGED news /\ (lane[r].op # "drain" \/ new.conv)
           \/ /\ mine.status = "failed" /\ ~run.halt /\ run.status \in {"queued", "running"}
              /\ lane[r].op = "drain" /\ ~new.conv
              /\ news' = [news EXCEPT ![r] = "failed"] /\ UNCHANGED pending
  BY <1>6
<1>8. runs'[r] = mine /\ (mine.status = "failed" /\ run.status # "failed" => news'[r] = "failed")
  BY <1>7 DEF Crew!TypeOK
<1>9. ~new.conv => /\ pi[r].placed = 0 /\ lane[r].at # "submit" /\ run.park = None
                   /\ p.work = "idle" /\ p.subs = {} /\ p.placed = 0
  BY <1>1, <1>2, <1>4, <1>5, PiEmpty DEF At, RowAt, LaneAt, Crew!Agent
<1>10. PiAt(r)'
  BY <1>1, <1>4, <1>7, <1>8, PlacedPi DEF Crew!SubagentsAssumption
<1>11. RowAt(r)'
  <2>1. p.placed <= mine.rev /\ mine.sub <= p.placed /\ (mine.park # None => p.placed > 0)
    BY <1>5, <1>7
  <2>2. p.placed > 0 => mine.conv /\ (mine.status \in {"done", "failed", "stopped"} \/ mine.status # "queued" \/ mine.intent \/ mine.park # None)
    BY <1>1, <1>2, <1>4, <1>5, <1>7, <1>9 DEF At, RowAt, LaneAt
  <2>3. mine.status \in {"done", "failed", "stopped"} => mine.park = None
    BY <1>1, <1>2, <1>4, <1>5, <1>7, <1>9 DEF At, RowAt, LaneAt
  <2>4. mine.status \in {"done", "failed", "stopped"} => mine.owed \/ news'[r] = mine.status
    BY <1>1, <1>2, <1>4, <1>5, <1>7, <1>8, <1>9 DEF At, RowAt, LaneAt
  <2>5. mine.status \in {"done", "failed", "stopped"} /\ ~Strange(r) => p.work # "tool" /\ p.subs = {}
    BY <1>1, <1>2, <1>4, <1>5, <1>7, <1>8, <1>9 DEF At, RowAt, LaneAt
  <2>6. mine.status \in {"running", "needs_input"} => mine.conv
    BY <1>1, <1>2, <1>4, <1>5, <1>7, <1>8, <1>9 DEF At, RowAt, LaneAt
  <2>7. mine.status = "done" => p.out # None /\ p.out.rev = mine.rev
    BY <1>1, <1>2, <1>4, <1>5, <1>7, <1>8, <1>9 DEF At, RowAt, LaneAt
  <2> QED BY <1>1, <1>4, <1>7, <1>8, <2>1, <2>2, <2>3, <2>4, <2>5, <2>6, <2>7 DEF At, RowAt,
             Crew!SubagentsAssumption
<1>12. WatchAt(r)'
  <2>1. \A v \in watch[r] \cup ready[r] : v <= mine.rev
    BY <1>1, <1>7 DEF At, WatchAt, Crew!SubagentsAssumption
  <2>2. ASSUME NEW v \in ready[r], ~Strange(r), ~run.halt,
               ~(mine.status \in {"done", "failed", "stopped"}), p.placed <= v
        PROVE  (p.work = "idle" /\ p.subs = {}) \/ (p.out # None /\ p.out.rev = v)
    <3>1. v \in Nat /\ pi[r].placed \in Nat /\ run.rev \in Nat /\ p.placed \in Nat
      BY <1>4 DEF Typed, Crew!Agent, Crew!Run
    <3>2. CASE p = pi[r]
      BY <1>1, <1>2, <1>7, <2>2, <3>2 DEF At, WatchAt, Ended
    <3>3. CASE p # pi[r]
      <4>1. p.placed = run.rev /\ v = run.rev
        BY <1>1, <1>4, <2>2, <3>1, <3>3 DEF Placing, At, WatchAt
      <4>2. run.intent /\ run.status \in {"running", "needs_input"}
        BY <1>1, <3>3 DEF At, LaneAt, Crew!SubagentsAssumption
      <4> QED BY <1>1, <2>2, <4>1, <4>2 DEF At, WatchAt, Crew!SubagentsAssumption
    <3> QED BY <3>2, <3>3
  <2> QED BY <1>1, <1>2, <1>3, <1>4, <1>7, <1>8, <2>1, <2>2 DEF At, WatchAt, Steering, Ended,
             Crew!SubagentsAssumption
<1>13. Crew!TypeOK' /\ (\A q \in Crew!Rows \ {r} : Unmoved(q))
  BY <1>3, <1>4, <1>7 DEF Crew!TypeOK, Unmoved
<1>14. LaneAt(r)'
  BY <1>1, <1>2, <1>3, <1>4, <1>5, <1>7, <1>8, <1>9 DEF At, LaneAt, Ended
<1>15. OwnedAt(r)' /\ Emptied(r)'
  BY <1>1, <1>2, <1>3, <1>4, <1>5, <1>7, <1>8, <1>9 DEF At, RowAt, LaneAt, OwnedAt, Emptied,
     Crew!Run
<1>16. Modest(r)
  BY <1>1, <1>2, <1>3, <1>4, <1>5, <1>7, <1>8, <1>9 DEF At, LaneAt, Modest, Holding, Crew!Busy,
     Crew!SubagentsAssumption
<1> QED BY <1>13, <1>10, <1>11, <1>12, <1>14, <1>15, <1>16 DEF At, Sound

\* An admission that was refused: a steer takes its input back, a recovery stays owed.
LEMMA RefusedHolds ==
  ASSUME Crew!SubagentsAssumption, Crew!TypeOK, NEW r \in Crew!Rows, At(r), lane[r] # None,
         lane[r].op \in {"drain", "steer", "recover"},
         lane[r].at \in {"claim", "prepare", "regain"}, Crew!Refused(r), troubles' \in Nat,
         UNCHANGED <<pi, watch, ready, mode, boot, given, Crew!history>>
  PROVE  Sound(r)
<1>1. /\ lane[r] # None /\ lane[r].op \in {"drain", "steer", "recover"} /\ Typed(r) /\ troubles' \in Nat
      /\ lane[r].at \in {"claim", "prepare", "regain"}
      /\ UNCHANGED <<pi, watch, ready, mode, boot, given, Crew!history, news>>
  BY RowTyped DEF Crew!Refused
<1>2. PICK run \in Crew!Run : runs[r] = run
  BY <1>1 DEF Typed, At, LaneAt
<1>5. Crew!Ends(r)
  BY DEF Crew!Refused
<1>6. /\ lane' = [lane EXCEPT ![r] = None] /\ lane'[r] = None /\ inflight' \subseteq inflight
      /\ \A q \in Crew!Rows \ {r} : q \in inflight' <=> q \in inflight
      /\ lane[r].op = "drain" => r \notin inflight'
      /\ lane[r].op # "drain" => (r \in inflight' <=> r \in inflight)
  BY EndsLane, <1>5
  <1>7. pending' \subseteq Crew!Rows /\ (\A q \in Crew!Rows \ {r} : q \in pending' <=> q \in pending)
      /\ (r \in pending => r \in pending') /\ (lane[r].op = "recover" => r \in pending')
  BY <1>1 DEF Crew!Refused, Crew!Owe, Crew!TypeOK
<1>8. CASE lane[r].op = "steer"
  <2>1. Steering(r) /\ run.intent /\ pi[r].placed < run.rev /\ run.rev \in 1 .. MaxRev
    BY <1>1, <1>2, <1>8 DEF At, LaneAt, Steering, Crew!Run, Typed, Crew!Agent
  <2>2. PICK rev \in 0 .. MaxRev : rev = run.rev - 1
    BY <2>1 DEF Crew!SubagentsAssumption
  <2>3. PICK new : new = [run EXCEPT !.rev = rev, !.intent = FALSE]
    OBVIOUS
  <2>4. /\ new \in Crew!Run /\ new.rev = rev /\ ~new.intent /\ new.status = run.status /\ new.halt = run.halt
        /\ new.conv = run.conv /\ new.sub = run.sub /\ new.park = run.park /\ new.owed = run.owed
    BY <1>2, <2>3 DEF Crew!Run
  <2>5. runs' = [runs EXCEPT ![r] = new] /\ runs'[r] = new
    BY <1>2, <1>8, <2>2, <2>3 DEF Crew!TypeOK, Crew!Refused
  <2>6. pi[r].placed <= rev /\ run.sub <= pi[r].placed /\ \A v \in watch[r] \cup ready[r] : v <= rev
    BY <1>1, <1>2, <1>8, <2>1, <2>2 DEF At, RowAt, WatchAt, Typed, Crew!Agent,
       Crew!SubagentsAssumption
  <2>7. Crew!TypeOK' /\ (\A q \in Crew!Rows \ {r} : Unmoved(q))
    BY <1>1, <1>5, <1>6, <1>7, <1>8, <2>4, <2>5 DEF Crew!TypeOK, Unmoved
  <2>8. PiAt(r)'
    BY <1>1, <1>2, <1>5, <1>6, <1>7, <1>8, <2>1, <2>2, <2>4, <2>5, <2>6 DEF At, PiAt,
       Crew!SubagentsAssumption
  <2>9. RowAt(r)'
    BY <1>1, <1>2, <1>5, <1>6, <1>7, <1>8, <2>1, <2>2, <2>4, <2>5, <2>6 DEF At, RowAt, LaneAt
  <2>10. WatchAt(r)'
    BY <1>1, <1>2, <1>5, <1>6, <1>7, <1>8, <2>1, <2>2, <2>4, <2>5, <2>6 DEF At, WatchAt, Steering,
       Ended, Crew!SubagentsAssumption
  <2>11. LaneAt(r)'
    BY <1>1, <1>2, <1>5, <1>6, <1>7, <1>8, <2>1, <2>2, <2>4, <2>5, <2>6 DEF At, LaneAt, Ended
  <2>12. OwnedAt(r)' /\ Emptied(r)'
    BY <1>1, <1>2, <1>5, <1>6, <1>7, <1>8, <2>1, <2>2, <2>4, <2>5, <2>6 DEF At, OwnedAt, Emptied,
       Steering, Crew!SubagentsAssumption
  <2>13. Modest(r)
    BY <1>1, <1>2, <1>5, <1>6, <1>7, <1>8, <2>1, <2>2, <2>4, <2>5, <2>6 DEF At, LaneAt, Modest,
       Holding, Crew!Busy, Crew!SubagentsAssumption
  <2> QED BY <2>7, <2>8, <2>9, <2>10, <2>11, <2>12, <2>13 DEF At, Sound
  <1>9. CASE lane[r].op # "steer"
  <2>1. UNCHANGED runs
    BY <1>9 DEF Crew!Refused
  <2>2. Crew!TypeOK' /\ (\A q \in Crew!Rows \ {r} : Unmoved(q))
    BY <1>1, <1>5, <1>6, <1>7, <2>1 DEF Crew!TypeOK, Unmoved
  <2>3. PiAt(r)'
    BY <1>1, <1>2, <1>5, <1>6, <1>7, <1>9, <2>1 DEF Typed, At, PiAt
  <2>4. RowAt(r)'
    BY <1>1, <1>2, <1>5, <1>6, <1>7, <1>9, <2>1 DEF Typed, At, RowAt
  <2>5. WatchAt(r)'
    BY <1>1, <1>2, <1>5, <1>6, <1>7, <1>9, <2>1 DEF At, WatchAt, Steering, Ended
  <2>6. LaneAt(r)'
    BY <1>1, <1>2, <1>5, <1>6, <1>7, <1>9, <2>1 DEF At, LaneAt, Ended
  <2>7. OwnedAt(r)' /\ Emptied(r)'
    BY <1>1, <1>2, <1>5, <1>6, <1>7, <1>9, <2>1 DEF At, LaneAt, OwnedAt, Emptied
  <2>8. Modest(r)
    BY <1>1, <1>2, <1>5, <1>6, <1>7, <1>9, <2>1 DEF At, Modest, Holding, Crew!Busy
  <2> QED BY <2>2, <2>3, <2>4, <2>5, <2>6, <2>7, <2>8 DEF At, Sound
  <1> QED BY <1>1, <1>8, <1>9

LEMMA ClaimedHolds ==
  ASSUME Crew!SubagentsAssumption, Crew!TypeOK, NEW r \in Crew!Rows, At(r), Crew!Claimed(r)
  PROVE  Sound(r)
<1>1. /\ lane[r] # None /\ lane[r].op \in {"drain", "steer", "recover"} /\ lane[r].at = "claim" /\ Typed(r)
      /\ UNCHANGED <<pi, watch, ready, mode, boot, given, Crew!history>>
  BY RowTyped DEF Crew!Claimed, Crew!Holds, Crew!Admitting
<1>2. PICK run \in Crew!Run : runs[r] = run
  BY <1>1 DEF Typed, At, LaneAt
<1>3. ASSUME run.halt, Crew!Ends(r), UNCHANGED <<runs, news, troubles, pending>>
      PROVE  Sound(r)
  <2>1. /\ lane' = [lane EXCEPT ![r] = None] /\ lane'[r] = None /\ inflight' \subseteq inflight
        /\ \A q \in Crew!Rows \ {r} : q \in inflight' <=> q \in inflight
        /\ lane[r].op = "drain" => r \notin inflight'
        /\ lane[r].op # "drain" => (r \in inflight' <=> r \in inflight)
    BY EndsLane, <1>3
  <2>2. Crew!TypeOK' /\ (\A q \in Crew!Rows \ {r} : Unmoved(q))
    BY <1>1, <1>3, <2>1 DEF Crew!TypeOK, Unmoved
  <2>3. PiAt(r)'
    BY <1>1, <1>2, <1>3, <2>1 DEF Typed, At, PiAt
  <2>4. RowAt(r)'
    BY <1>1, <1>2, <1>3, <2>1 DEF Typed, At, RowAt
  <2>5. WatchAt(r)'
    BY <1>1, <1>2, <1>3, <2>1 DEF At, WatchAt, Steering
  <2>6. LaneAt(r)'
    BY <1>1, <1>2, <1>3, <2>1 DEF At, LaneAt, Ended
  <2>7. OwnedAt(r)' /\ Emptied(r)'
    BY <1>1, <1>2, <1>3, <2>1 DEF At, OwnedAt, Emptied
  <2>8. Modest(r)
    BY <1>1, <1>2, <1>3, <2>1 DEF At, Modest, Holding, Crew!Busy
  <2> QED BY <2>2, <2>3, <2>4, <2>5, <2>6, <2>7, <2>8 DEF At, Sound
<1>4. ASSUME ~run.halt, Crew!To(r, "prepare"), UNCHANGED <<runs, news, troubles, inflight, pending>>
      PROVE  Sound(r)
  <2>1. PICK held : InLane(r, held, lane[r].op, "prepare")
    BY <1>1, <1>4, ToLane
  <2>2. lane' = [lane EXCEPT ![r] = held] /\ held \in Crew!Holder
    BY <2>1 DEF InLane
  <2>3. Crew!TypeOK' /\ (\A q \in Crew!Rows \ {r} : Unmoved(q))
    BY <1>1, <1>4, <2>2 DEF Crew!TypeOK, Unmoved
  <2>4. PiAt(r)'
    BY <1>1, <1>2, <1>4, <2>1 DEF InLane, At, PiAt
  <2>5. RowAt(r)'
    BY <1>1, <1>2, <1>4, <2>1 DEF InLane, At, RowAt
  <2>6. WatchAt(r)'
    BY <1>1, <1>2, <1>4, <2>1 DEF InLane, At, WatchAt, Steering, Ended
  <2>7. LaneAt(r)'
    BY <1>1, <1>2, <1>4, <2>1 DEF InLane, At, LaneAt, Steering
  <2>8. OwnedAt(r)' /\ Emptied(r)'
    BY <1>1, <1>2, <1>4, <2>1 DEF InLane, At, OwnedAt, Emptied, Steering
  <2>9. Modest(r)
    BY <1>1, <1>2, <1>4, <2>1 DEF At, Modest, Holding, Crew!Busy
  <2> QED BY <2>3, <2>4, <2>5, <2>6, <2>7, <2>8, <2>9 DEF At, Sound
<1>5. ASSUME Crew!Fault, Crew!Refused(r)
      PROVE  Sound(r)
  BY <1>1, <1>5, RefusedHolds DEF Crew!Fault, Crew!TypeOK
<1>6. ASSUME Crew!Fault, lane[r].op = "drain", Crew!Thrown(r, runs[r])
      PROVE  Sound(r)
  <2>1. Caught(r, runs[r])
    BY <1>2 DEF Caught
  <2>2. PICK p \in Crew!Agent : p = pi[r]
    BY <1>1 DEF Typed
  <2>3. pi' = [pi EXCEPT ![r] = p] /\ Placing(r, p, runs[r].rev) /\ troubles' \in Nat
    BY <1>1, <1>6, <2>2 DEF Placing, Crew!TypeOK, Crew!Fault
  <2> QED BY <1>1, <1>6, <2>1, <2>2, <2>3, ThrownHolds DEF Crew!Admitting
<1> QED BY <1>2, <1>3, <1>4, <1>5, <1>6 DEF Crew!Claimed, Crew!Halted

LEMMA PreparedHolds ==
  ASSUME Crew!SubagentsAssumption, Crew!TypeOK, NEW r \in Crew!Rows, At(r), Crew!Prepared(r)
  PROVE  Sound(r)
<1>1. /\ lane[r] # None /\ lane[r].op \in {"drain", "steer", "recover"} /\ lane[r].at = "prepare" /\ Typed(r)
      /\ UNCHANGED <<pi, watch, ready, mode, boot, given, Crew!history>>
  BY RowTyped DEF Crew!Prepared, Crew!Holds, Crew!Admitting
<1>2. PICK run \in Crew!Run : runs[r] = run
  BY <1>1 DEF Typed, At, LaneAt
<1>3. PICK set : set = [run EXCEPT !.conv = TRUE]
  OBVIOUS
<1>4. /\ set \in Crew!Run /\ set.conv /\ set.status = run.status /\ set.halt = run.halt /\ set.rev = run.rev
      /\ set.intent = run.intent /\ set.sub = run.sub /\ set.park = run.park /\ set.owed = run.owed
  BY <1>2, <1>3 DEF Crew!Run
<1>5. \/ run.halt /\ Crew!Halted(r) /\ Crew!Put(r, set)
      \/ ~run.halt /\ run.park = "open" /\ Crew!Blocked(r)
      \/ /\ ~run.halt /\ run.park = "decided" /\ Crew!To(r, "regain") /\ Crew!Put(r, set)
         /\ UNCHANGED <<inflight, pending>>
      \/ /\ ~run.halt /\ run.park = None /\ Crew!To(r, "look") /\ UNCHANGED <<inflight, pending>>
         /\ run.intent \/ run.rev < MaxRev
         /\ Crew!Put(r, [set EXCEPT !.rev = IF run.intent THEN @ ELSE @ + 1, !.intent = TRUE, !.status = "running"])
      \/ Crew!Fault /\ (Crew!Thrown(r, run) \/ Crew!Thrown(r, set))
  BY <1>2, <1>3, <1>4 DEF Crew!Prepared
<1>6. ASSUME run.halt, Crew!Halted(r), Crew!Put(r, set)
      PROVE  Sound(r)
  <2>1. /\ lane' = [lane EXCEPT ![r] = None] /\ lane'[r] = None /\ inflight' \subseteq inflight
        /\ \A q \in Crew!Rows \ {r} : q \in inflight' <=> q \in inflight
        /\ lane[r].op = "drain" => r \notin inflight'
        /\ lane[r].op # "drain" => (r \in inflight' <=> r \in inflight)
    BY EndsLane, <1>6 DEF Crew!Halted
  <2>2. runs' = [runs EXCEPT ![r] = set] /\ runs'[r] = set /\ UNCHANGED <<pending, news, troubles>>
    BY <1>6 DEF Crew!Put, Crew!Halted, Crew!TypeOK
  <2>3. Crew!TypeOK' /\ (\A q \in Crew!Rows \ {r} : Unmoved(q))
    BY <1>1, <1>4, <2>1, <2>2 DEF Crew!TypeOK, Unmoved
  <2>4. PiAt(r)'
    BY <1>1, <1>2, <1>4, <2>1, <2>2 DEF At, PiAt, Crew!SubagentsAssumption
  <2>5. RowAt(r)'
    BY <1>1, <1>2, <1>4, <2>1, <2>2 DEF At, RowAt, LaneAt
  <2>6. WatchAt(r)'
    BY <1>1, <1>2, <1>4, <2>1, <2>2 DEF At, WatchAt, Steering, Ended, Crew!SubagentsAssumption
  <2>7. LaneAt(r)'
    BY <1>1, <1>2, <1>4, <2>1, <2>2 DEF At, LaneAt, Ended
  <2>8. OwnedAt(r)' /\ Emptied(r)'
    BY <1>6, <1>1, <1>2, <1>4, <2>1, <2>2 DEF At, OwnedAt, Emptied, Crew!SubagentsAssumption
  <2>9. Modest(r)
    BY <1>1, <1>2, <1>4, <2>1, <2>2 DEF At, Modest, Holding, Crew!Busy, Crew!SubagentsAssumption
  <2> QED BY <2>3, <2>4, <2>5, <2>6, <2>7, <2>8, <2>9 DEF At, Sound
<1>7. ASSUME Crew!Blocked(r)
      PROVE  Sound(r)
  BY <1>1, <1>7, RefusedHolds DEF Crew!Blocked, Crew!TypeOK
<1>8. ASSUME ~run.halt, run.park = "decided", Crew!To(r, "regain"), Crew!Put(r, set),
             UNCHANGED <<inflight, pending>>
      PROVE  Sound(r)
  <2>1. PICK held : InLane(r, held, lane[r].op, "regain")
    BY <1>1, <1>8, ToLane
  <2>2. lane' = [lane EXCEPT ![r] = held] /\ held \in Crew!Holder
    BY <2>1 DEF InLane
  <2>3. runs' = [runs EXCEPT ![r] = set] /\ runs'[r] = set /\ UNCHANGED <<inflight, pending, news, troubles>>
    BY <1>8 DEF Crew!Put, Crew!TypeOK
  <2>4. Crew!TypeOK' /\ (\A q \in Crew!Rows \ {r} : Unmoved(q))
    BY <1>1, <1>4, <2>2, <2>3 DEF Crew!TypeOK, Unmoved
  <2>5. PiAt(r)'
    BY <1>1, <1>2, <1>4, <1>8, <2>1, <2>3 DEF At, PiAt, Crew!SubagentsAssumption
  <2>6. RowAt(r)'
    BY <1>1, <1>2, <1>4, <1>8, <2>1, <2>3 DEF At, RowAt, LaneAt
  <2>7. WatchAt(r)'
    BY <1>1, <1>2, <1>4, <1>8, <2>1, <2>3 DEF InLane, At, WatchAt, Steering, Ended,
       Crew!SubagentsAssumption
  <2>8. LaneAt(r)'
    BY <1>1, <1>2, <1>4, <1>8, <2>1, <2>3 DEF InLane, At, RowAt, LaneAt, Steering,
       Crew!SubagentsAssumption
  <2>9. OwnedAt(r)' /\ Emptied(r)'
    BY <1>1, <1>2, <1>4, <1>8, <2>1, <2>3 DEF InLane, At, OwnedAt, Emptied, Steering,
       Crew!SubagentsAssumption
  <2>10. Modest(r)
    BY <1>1, <1>2, <1>4, <1>8, <2>1, <2>3 DEF At, Modest, Holding, Crew!Busy,
       Crew!SubagentsAssumption
  <2> QED BY <2>4, <2>5, <2>6, <2>7, <2>8, <2>9, <2>10 DEF At, Sound
<1>9. ASSUME ~run.halt, run.park = None, Crew!To(r, "look"), UNCHANGED <<inflight, pending>>,
             run.intent \/ run.rev < MaxRev,
             Crew!Put(r, [set EXCEPT !.rev = IF run.intent THEN @ ELSE @ + 1, !.intent = TRUE, !.status = "running"])
      PROVE  Sound(r)
  <2>1. PICK held : InLane(r, held, lane[r].op, "look")
    BY <1>1, <1>9, ToLane
  <2>2. lane' = [lane EXCEPT ![r] = held] /\ held \in Crew!Holder
    BY <2>1 DEF InLane
  <2>3. PICK rev \in 0 .. MaxRev : rev = IF run.intent THEN run.rev ELSE run.rev + 1
    BY <1>2, <1>9 DEF Crew!Run, Crew!SubagentsAssumption
  <2>4. PICK new : new = [set EXCEPT !.rev = rev, !.intent = TRUE, !.status = "running"]
    OBVIOUS
  <2>5. /\ new \in Crew!Run /\ new.rev = rev /\ new.intent /\ new.status = "running" /\ new.halt = run.halt
        /\ new.conv /\ new.sub = run.sub /\ new.park = run.park /\ new.owed = run.owed
    BY <1>4, <2>4 DEF Crew!Run
  <2>6. runs' = [runs EXCEPT ![r] = new] /\ runs'[r] = new /\ UNCHANGED <<inflight, pending, news, troubles>>
    BY <1>4, <1>9, <2>3, <2>4 DEF Crew!Put, Crew!TypeOK
  <2>7. Crew!TypeOK' /\ (\A q \in Crew!Rows \ {r} : Unmoved(q))
    BY <1>1, <2>2, <2>5, <2>6 DEF Crew!TypeOK, Unmoved
  <2>8. PiAt(r)'
    BY <1>1, <1>2, <1>9, <2>1, <2>3, <2>5, <2>6 DEF At, PiAt, Crew!SubagentsAssumption
  <2>9. RowAt(r)'
    BY <1>1, <1>2, <1>9, <2>1, <2>3, <2>5, <2>6 DEF Typed, At, RowAt, LaneAt, Crew!Run, Crew!Agent
  <2>10. WatchAt(r)'
    BY <1>1, <1>2, <1>9, <2>1, <2>3, <2>5, <2>6 DEF InLane, Typed, At, WatchAt, LaneAt, Crew!Run,
       Steering, Ended, Crew!SubagentsAssumption
  <2>11. LaneAt(r)'
    BY <1>1, <1>2, <1>9, <2>1, <2>3, <2>5, <2>6 DEF InLane, At, LaneAt, Steering,
       Crew!SubagentsAssumption
  <2>12. OwnedAt(r)' /\ Emptied(r)'
    BY <1>1, <1>2, <1>9, <2>1, <2>3, <2>5, <2>6 DEF InLane, At, LaneAt, OwnedAt, Emptied, Steering,
       Crew!SubagentsAssumption
  <2>13. Modest(r)
    BY <1>1, <1>2, <1>9, <2>1, <2>3, <2>5, <2>6 DEF At, LaneAt, Modest, Holding, Crew!Busy,
       Crew!SubagentsAssumption
  <2> QED BY <2>7, <2>8, <2>9, <2>10, <2>11, <2>12, <2>13 DEF At, Sound
<1>10. ASSUME Crew!Fault, Crew!Thrown(r, run) \/ Crew!Thrown(r, set)
       PROVE  Sound(r)
  <2>1. Caught(r, run) /\ Caught(r, set)
    BY <1>2, <1>4 DEF Caught
  <2>2. PICK p \in Crew!Agent : p = pi[r]
    BY <1>1 DEF Typed
  <2>3. pi' = [pi EXCEPT ![r] = p] /\ Placing(r, p, runs[r].rev) /\ troubles' \in Nat
    BY <1>1, <1>10, <2>2 DEF Placing, Crew!TypeOK, Crew!Fault
  <2> QED BY <1>1, <1>10, <2>1, <2>2, <2>3, ThrownHolds DEF Crew!Admitting
<1> QED BY <1>5, <1>6, <1>7, <1>8, <1>9, <1>10

LEMMA RegainedHolds ==
  ASSUME Crew!SubagentsAssumption, Crew!TypeOK, NEW r \in Crew!Rows, At(r), Crew!Regained(r)
  PROVE  Sound(r)
<1>1. /\ lane[r] # None /\ lane[r].op \in {"drain", "steer", "recover"} /\ lane[r].at = "regain" /\ Typed(r)
      /\ UNCHANGED <<pi, ready, mode, boot, shared, answers, revived>>
  BY RowTyped DEF Crew!Regained, Crew!Holds, Crew!Admitting
<1>2. PICK run \in Crew!Run : runs[r] = run
  BY <1>1 DEF Typed, At, LaneAt
<1>3. ASSUME Crew!Blocked(r), UNCHANGED <<watch, given, crossed>>
      PROVE  Sound(r)
  BY <1>1, <1>3, RefusedHolds DEF Crew!Blocked, Crew!TypeOK
<1>4. ASSUME run.halt, Crew!Halted(r), Crew!Same, UNCHANGED <<watch, given, troubles, crossed>>
      PROVE  Sound(r)
  <2>1. /\ lane' = [lane EXCEPT ![r] = None] /\ lane'[r] = None /\ inflight' \subseteq inflight
        /\ \A q \in Crew!Rows \ {r} : q \in inflight' <=> q \in inflight
        /\ lane[r].op = "drain" => r \notin inflight'
        /\ lane[r].op # "drain" => (r \in inflight' <=> r \in inflight)
    BY EndsLane, <1>4 DEF Crew!Halted
  <2>2. UNCHANGED <<runs, news, troubles, watch, given, crossed, pending>>
    BY <1>4 DEF Crew!Halted
  <2>3. Crew!TypeOK' /\ (\A q \in Crew!Rows \ {r} : Unmoved(q))
    BY <1>1, <2>1, <2>2 DEF Crew!TypeOK, Unmoved
  <2>4. PiAt(r)'
    BY <1>1, <1>2, <2>1, <2>2 DEF Typed, At, PiAt
  <2>5. RowAt(r)'
    BY <1>1, <1>2, <2>1, <2>2 DEF Typed, At, RowAt
  <2>6. WatchAt(r)'
    BY <1>1, <1>2, <2>1, <2>2 DEF At, WatchAt, Steering, Ended
  <2>7. LaneAt(r)'
    BY <1>1, <1>2, <2>1, <2>2 DEF At, LaneAt, Ended
  <2>8. OwnedAt(r)' /\ Emptied(r)'
    BY <1>4, <1>1, <1>2, <2>1, <2>2 DEF At, OwnedAt, Emptied
  <2>9. Modest(r)
    BY <1>1, <1>2, <2>1, <2>2 DEF At, Modest, Holding, Crew!Busy
  <2> QED BY <2>3, <2>4, <2>5, <2>6, <2>7, <2>8, <2>9 DEF At, Sound
<1>5. ASSUME Crew!Reachable(r), ~run.halt, Crew!Halted(r),
             Crew!Put(r, [runs[r] EXCEPT !.status = "running", !.park = None]),
             IF watch[r] = {} THEN Crew!Watch(r, runs[r].rev) ELSE UNCHANGED watch,
             given' = given \cup {r},
             crossed' = IF runs[r].intent \/ runs[r].rev \notin watch'[r] THEN crossed \cup {r} ELSE crossed
      PROVE  Sound(r)
  <2>1. /\ lane' = [lane EXCEPT ![r] = None] /\ lane'[r] = None /\ inflight' \subseteq inflight
        /\ \A q \in Crew!Rows \ {r} : q \in inflight' <=> q \in inflight
        /\ lane[r].op = "drain" => r \notin inflight'
        /\ lane[r].op # "drain" => (r \in inflight' <=> r \in inflight)
    BY EndsLane, <1>5 DEF Crew!Halted
  <2>2. PICK new : new = [run EXCEPT !.status = "running", !.park = None]
    OBVIOUS
  <2>3. /\ new \in Crew!Run /\ new.status = "running" /\ new.park = None /\ SameInput(new, run)
        /\ new.halt = run.halt /\ new.owed = run.owed
    BY <1>2, <2>2 DEF SameInput, Crew!Run
  <2>4. runs' = [runs EXCEPT ![r] = new] /\ runs'[r] = new /\ UNCHANGED <<pending, news, troubles>>
    BY <1>2, <1>5, <2>2 DEF Crew!Put, Crew!Halted, Crew!TypeOK
  <2>5. run.park = "decided" /\ ~(run.status \in {"done", "failed", "stopped"}) /\ run.conv /\ ready[r] = {}
    BY <1>1, <1>2, <1>5 DEF At, RowAt, LaneAt, WatchAt, Crew!SubagentsAssumption
  <2>6. run.rev \in 1 .. MaxRev \/ watch[r] # {}
    BY <1>1, <1>2, <1>5 DEF Crew!Reachable, Typed, At, RowAt, Crew!Run, Crew!Agent,
       Crew!SubagentsAssumption
  <2>7. PICK seen \in SUBSET (1 .. MaxRev) : seen = IF watch[r] = {} THEN {run.rev} ELSE watch[r]
    BY <1>1, <2>6 DEF Typed
  <2>8. watch' = [watch EXCEPT ![r] = seen] /\ watch'[r] = seen /\ \A v \in seen : v <= new.rev
    <3>1. watch' = [watch EXCEPT ![r] = seen] /\ watch'[r] = seen
      <4>1. CASE watch[r] = {}
        <5>1. watch[r] \cup {run.rev} = seen
          BY <2>7, <4>1
        <5> QED BY <1>2, <1>5, <4>1, <5>1 DEF Crew!Watch, Crew!TypeOK
      <4>2. CASE watch[r] # {}
        BY <1>5, <2>7, <4>2 DEF Crew!TypeOK
      <4> QED BY <4>1, <4>2
    <3>2. \A v \in watch[r] : v <= run.rev
      BY <1>2 DEF At, WatchAt, Crew!SubagentsAssumption
    <3>3. run.rev <= run.rev /\ new.rev = run.rev
      BY <1>2, <2>3 DEF Crew!Run, SameInput, Crew!SubagentsAssumption
    <3> QED BY <2>7, <3>1, <3>2, <3>3
  <2>9. /\ given' = given \cup {r} /\ (r \in crossed => r \in crossed')
        /\ (run.intent \/ run.rev \notin seen => r \in crossed')
        /\ (\A q \in Crew!Rows \ {r} : q \in crossed' <=> q \in crossed) /\ crossed' \subseteq Crew!Rows
    BY <1>2, <1>5, <2>8 DEF Crew!TypeOK
  <2>10. Crew!TypeOK' /\ (\A q \in Crew!Rows \ {r} : Unmoved(q))
    BY <1>1, <2>1, <2>3, <2>4, <2>8, <2>9 DEF Crew!TypeOK, Unmoved
  <2>11. PiAt(r)'
    BY <1>1, <1>2, <2>1, <2>3, <2>4, <2>5, <2>8, <2>9 DEF At, PiAt, Crew!SubagentsAssumption
  <2>12. RowAt(r)'
    BY <1>1, <1>2, <2>1, <2>3, <2>4, <2>5, <2>8, <2>9 DEF SameInput, At, PiAt, RowAt, LaneAt,
       Crew!Agent, Crew!Outcomes, Crew!Holder, Crew!SubagentsAssumption
  <2>13. WatchAt(r)'
    BY <1>1, <1>2, <2>1, <2>3, <2>4, <2>5, <2>8, <2>9 DEF SameInput, At, WatchAt, Steering,
       Crew!SubagentsAssumption
  <2>14. LaneAt(r)'
    BY <1>1, <1>2, <2>1, <2>3, <2>4, <2>5, <2>8, <2>9 DEF At, LaneAt, Ended
  <2>15. OwnedAt(r)' /\ Emptied(r)'
    BY <1>1, <1>2, <2>1, <2>3, <2>4, <2>5, <2>8, <2>9 DEF SameInput, At, LaneAt, OwnedAt, Emptied,
       Steering
  <2>16. Modest(r)
    BY <1>1, <1>2, <2>1, <2>3, <2>4, <2>5, <2>8, <2>9 DEF At, LaneAt, Modest, Holding, Crew!Busy,
       Crew!SubagentsAssumption
  <2> QED BY <2>10, <2>11, <2>12, <2>13, <2>14, <2>15, <2>16 DEF At, Sound
<1>6. ASSUME Crew!Fault, Crew!Thrown(r, runs[r]), UNCHANGED <<watch, given, crossed>>
      PROVE  Sound(r)
  <2>1. Caught(r, runs[r])
    BY <1>2 DEF Caught
  <2>2. PICK p \in Crew!Agent : p = pi[r]
    BY <1>1 DEF Typed
  <2>3. pi' = [pi EXCEPT ![r] = p] /\ Placing(r, p, runs[r].rev) /\ troubles' \in Nat
    BY <1>1, <1>6, <2>2 DEF Placing, Crew!TypeOK, Crew!Fault
  <2> QED BY <1>1, <1>6, <2>1, <2>2, <2>3, ThrownHolds DEF Crew!Admitting
<1> QED BY <1>2, <1>3, <1>4, <1>5, <1>6 DEF Crew!Regained

LEMMA LookedHolds ==
  ASSUME Crew!SubagentsAssumption, Crew!TypeOK, NEW r \in Crew!Rows, At(r), Crew!Looked(r)
  PROVE  Sound(r)
<1>1. /\ lane[r] # None /\ lane[r].op \in {"drain", "steer", "recover"} /\ lane[r].at = "look" /\ Typed(r)
      /\ UNCHANGED <<pi, watch, ready, mode, boot, given, Crew!history>>
  BY RowTyped DEF Crew!Looked, Crew!Holds, Crew!Admitting
<1>2. PICK run \in Crew!Run : runs[r] = run
  BY <1>1 DEF Typed, At, LaneAt
<1>3. ASSUME run.halt, Crew!Halted(r), Crew!Same, UNCHANGED troubles
      PROVE  Sound(r)
  <2>1. /\ lane' = [lane EXCEPT ![r] = None] /\ lane'[r] = None /\ inflight' \subseteq inflight
        /\ \A q \in Crew!Rows \ {r} : q \in inflight' <=> q \in inflight
        /\ lane[r].op = "drain" => r \notin inflight'
        /\ lane[r].op # "drain" => (r \in inflight' <=> r \in inflight)
    BY EndsLane, <1>3 DEF Crew!Halted
  <2>2. UNCHANGED <<runs, news, troubles, pending>>
    BY <1>3 DEF Crew!Halted
  <2>3. Crew!TypeOK' /\ (\A q \in Crew!Rows \ {r} : Unmoved(q))
    BY <1>1, <2>1, <2>2 DEF Crew!TypeOK, Unmoved
  <2>4. PiAt(r)'
    BY <1>1, <1>2, <2>1, <2>2 DEF Typed, At, PiAt
  <2>5. RowAt(r)'
    BY <1>1, <1>2, <2>1, <2>2 DEF Typed, At, RowAt
  <2>6. WatchAt(r)'
    BY <1>1, <1>2, <2>1, <2>2 DEF At, WatchAt, Steering, Ended
  <2>7. LaneAt(r)'
    BY <1>1, <1>2, <2>1, <2>2 DEF At, LaneAt, Ended
  <2>8. OwnedAt(r)' /\ Emptied(r)'
    BY <1>3, <1>1, <1>2, <2>1, <2>2 DEF At, OwnedAt, Emptied
  <2>9. Modest(r)
    BY <1>1, <1>2, <2>1, <2>2 DEF At, Modest, Holding, Crew!Busy
  <2> QED BY <2>3, <2>4, <2>5, <2>6, <2>7, <2>8, <2>9 DEF At, Sound
<1>4. ASSUME ~run.halt, Crew!To(r, "submit"), UNCHANGED <<runs, news, troubles, inflight, pending>>
      PROVE  Sound(r)
  <2>1. PICK held : InLane(r, held, lane[r].op, "submit")
    BY <1>1, <1>4, ToLane
  <2>2. lane' = [lane EXCEPT ![r] = held] /\ held \in Crew!Holder
    BY <2>1 DEF InLane
  <2>3. Crew!TypeOK' /\ (\A q \in Crew!Rows \ {r} : Unmoved(q))
    BY <1>1, <1>4, <2>2 DEF Crew!TypeOK, Unmoved
  <2>4. PiAt(r)'
    BY <1>1, <1>2, <1>4, <2>1 DEF InLane, At, PiAt
  <2>5. RowAt(r)'
    BY <1>1, <1>2, <1>4, <2>1 DEF InLane, At, RowAt
  <2>6. WatchAt(r)'
    BY <1>1, <1>2, <1>4, <2>1 DEF InLane, At, WatchAt, Steering, Ended
  <2>7. LaneAt(r)'
    BY <1>1, <1>2, <1>4, <2>1 DEF InLane, At, LaneAt, Steering
  <2>8. OwnedAt(r)' /\ Emptied(r)'
    BY <1>1, <1>2, <1>4, <2>1 DEF InLane, At, OwnedAt, Emptied, Steering
  <2>9. Modest(r)
    BY <1>1, <1>2, <1>4, <2>1 DEF At, Modest, Holding, Crew!Busy
  <2> QED BY <2>3, <2>4, <2>5, <2>6, <2>7, <2>8, <2>9 DEF At, Sound
<1>5. ASSUME Crew!Fault, Crew!Thrown(r, runs[r])
      PROVE  Sound(r)
  <2>1. Caught(r, runs[r])
    BY <1>2 DEF Caught
  <2>2. PICK p \in Crew!Agent : p = pi[r]
    BY <1>1 DEF Typed
  <2>3. pi' = [pi EXCEPT ![r] = p] /\ Placing(r, p, runs[r].rev) /\ troubles' \in Nat
    BY <1>1, <1>5, <2>2 DEF Placing, Crew!TypeOK, Crew!Fault
  <2> QED BY <1>1, <1>5, <2>1, <2>2, <2>3, ThrownHolds DEF Crew!Admitting
<1> QED BY <1>2, <1>3, <1>4, <1>5 DEF Crew!Looked

LEMMA SubmittedHolds ==
  ASSUME Crew!SubagentsAssumption, Crew!TypeOK, NEW r \in Crew!Rows, At(r), Crew!Submitted(r)
  PROVE  Sound(r)
<1>1. /\ lane[r] # None /\ lane[r].op \in {"drain", "steer", "recover"} /\ lane[r].at = "submit" /\ Typed(r)
      /\ UNCHANGED <<ready, mode, boot, given, Crew!history>>
  BY RowTyped DEF Crew!Submitted, Crew!Holds, Crew!Admitting
<1>2. PICK run \in Crew!Run : runs[r] = run
  BY <1>1 DEF Typed, At, LaneAt
<1>3. run.status \in {"running", "needs_input"} /\ run.intent /\ run.rev \in 1 .. MaxRev /\ run.conv
  BY <1>1, <1>2 DEF At, LaneAt, RowAt, Crew!Run
<1>4. ASSUME Crew!Place(r), Crew!Halted(r), Crew!Watch(r, runs[r].rev),
             Crew!Put(r, [runs[r] EXCEPT !.sub = runs[r].rev, !.intent = FALSE])
      PROVE  Sound(r)
  <2>1. /\ lane' = [lane EXCEPT ![r] = None] /\ lane'[r] = None /\ inflight' \subseteq inflight
        /\ \A q \in Crew!Rows \ {r} : q \in inflight' <=> q \in inflight
        /\ lane[r].op = "drain" => r \notin inflight'
        /\ lane[r].op # "drain" => (r \in inflight' <=> r \in inflight)
    BY EndsLane, <1>4 DEF Crew!Halted
  <2>2. PICK p \in Crew!Agent : pi' = [pi EXCEPT ![r] = p] /\ pi'[r] = p /\ Placing(r, p, run.rev) /\ p.placed >= run.rev
    BY <1>2, <1>4, PlaceRow DEF Crew!SubagentsAssumption
  <2>3. PICK new : new = [run EXCEPT !.sub = run.rev, !.intent = FALSE]
    OBVIOUS
  <2>4. /\ new \in Crew!Run /\ new.sub = run.rev /\ ~new.intent /\ new.rev = run.rev /\ new.status = run.status
        /\ new.halt = run.halt /\ new.conv = run.conv /\ new.park = run.park /\ new.owed = run.owed
    BY <2>3 DEF Crew!Run
  <2>5. runs' = [runs EXCEPT ![r] = new] /\ runs'[r] = new /\ UNCHANGED <<pending, news, troubles>>
    BY <1>2, <1>4, <2>3 DEF Crew!Put, Crew!Halted, Crew!TypeOK
  <2>6. PICK seen \in SUBSET (1 .. MaxRev) : seen = watch[r] \cup {run.rev}
    BY <1>1, <1>3 DEF Typed
  <2>7. watch' = [watch EXCEPT ![r] = seen] /\ watch'[r] = seen
    BY <1>2, <1>4, <2>6 DEF Crew!Watch, Crew!TypeOK
  <2>8. /\ p.work = pi[r].work /\ p.bound = pi[r].bound /\ p.out = pi[r].out
        /\ p.placed <= run.rev /\ p.placed > 0
    BY <1>1, <1>2, <1>3, <2>2 DEF Placing, Crew!Agent, At, RowAt, Crew!SubagentsAssumption
  <2>9. PiAt(r)'
    BY <1>1, <1>2, <2>2, <2>4, <2>5, PlacedPi DEF Crew!SubagentsAssumption
  <2>10. \A v \in seen \cup ready[r] : v <= new.rev
    BY <1>1, <1>2, <1>3, <2>4, <2>6 DEF At, WatchAt, Crew!SubagentsAssumption
  <2>11. ASSUME NEW v \in ready[r], ~Strange(r), ~run.halt, p.placed <= v
         PROVE  (p.work = "idle" /\ p.subs = {}) \/ (p.out # None /\ p.out.rev = v)
    <3>1. v \in Nat /\ pi[r].placed \in Nat /\ run.rev \in Nat /\ p.placed \in Nat
      BY <1>1, <1>3 DEF Typed, Crew!Agent, Crew!SubagentsAssumption
    <3>2. v <= run.rev /\ v # run.rev
      BY <1>2, <1>3, <2>11 DEF At, WatchAt, Crew!SubagentsAssumption
    <3> QED BY <2>2, <2>11, <3>1, <3>2
  <2>12. Crew!TypeOK' /\ (\A q \in Crew!Rows \ {r} : Unmoved(q))
    BY <1>1, <2>1, <2>2, <2>4, <2>5, <2>7 DEF Crew!TypeOK, Unmoved
  <2>13. RowAt(r)'
    BY <1>1, <1>2, <1>3, <2>1, <2>2, <2>4, <2>5, <2>7, <2>8 DEF At, RowAt, Crew!SubagentsAssumption
  <2>14. WatchAt(r)'
    BY <2>10, <2>11, <1>1, <1>2, <1>3, <2>1, <2>2, <2>4, <2>5, <2>7, <2>8 DEF At, WatchAt, Crew!Run,
       Steering, Ended, Crew!SubagentsAssumption
  <2>15. LaneAt(r)'
    BY <1>1, <1>2, <1>3, <2>1, <2>2, <2>4, <2>5, <2>7, <2>8 DEF At, LaneAt, Ended
  <2>16. OwnedAt(r)' /\ Emptied(r)'
    BY <2>6, <1>1, <1>2, <1>3, <2>1, <2>2, <2>4, <2>5, <2>7, <2>8 DEF At, OwnedAt, Emptied,
       Steering, Crew!SubagentsAssumption
  <2>17. Modest(r)
    BY <1>1, <1>2, <1>3, <2>1, <2>2, <2>4, <2>5, <2>7, <2>8 DEF At, Modest, Holding, Crew!Busy,
       Crew!SubagentsAssumption
  <2> QED BY <2>12, <2>9, <2>13, <2>14, <2>15, <2>16, <2>17 DEF At, Sound
<1>5. ASSUME Crew!Fault, Crew!Place(r) \/ UNCHANGED pi, Crew!Thrown(r, runs[r]), UNCHANGED watch
      PROVE  Sound(r)
  <2>1. Caught(r, runs[r])
    BY <1>2 DEF Caught
  <2>2. PICK p \in Crew!Agent : pi' = [pi EXCEPT ![r] = p] /\ Placing(r, p, runs[r].rev)
    <3>1. CASE Crew!Place(r)
      BY <1>2, <3>1, PlaceRow DEF Crew!SubagentsAssumption
    <3>2. CASE UNCHANGED pi
      BY <1>1, <3>2 DEF Typed, Crew!TypeOK, Placing
    <3> QED BY <1>5, <3>1, <3>2
  <2>3. troubles' \in Nat
    BY <1>5 DEF Crew!TypeOK, Crew!Fault
  <2> QED BY <1>1, <1>5, <2>1, <2>2, <2>3, ThrownHolds DEF Crew!Admitting
<1> QED BY <1>2, <1>4, <1>5 DEF Crew!Submitted

LEMMA QuietRow ==
  ASSUME Crew!TypeOK, NEW r \in Crew!Rows, pi' = [pi EXCEPT ![r] = Crew!Quiet(@)]
  PROVE  \E p \in Crew!Agent : /\ pi' = [pi EXCEPT ![r] = p] /\ pi'[r] = p /\ p.work = "idle" /\ p.subs = {}
                          /\ p.placed = pi[r].placed /\ p.bound = pi[r].bound /\ p.out = pi[r].out
<1>1. PICK was \in Crew!Agent : pi[r] = was
  BY DEF Crew!TypeOK
<1>2. PICK p : p = [was EXCEPT !.work = "idle", !.subs = {}]
  OBVIOUS
<1>3. p \in Crew!Agent /\ p.work = "idle" /\ p.subs = {} /\ p.placed = was.placed /\ p.bound = was.bound /\ p.out = was.out
  BY <1>2 DEF Crew!Agent
<1>4. pi' = [pi EXCEPT ![r] = p] /\ pi'[r] = p
  BY <1>1, <1>2 DEF Crew!Quiet, Crew!TypeOK
<1> QED BY <1>1, <1>3, <1>4

LEMMA StopBeginsHolds ==
  ASSUME Crew!SubagentsAssumption, Crew!TypeOK, NEW r \in Crew!Rows, At(r), Crew!StopBegins(r)
  PROVE  Sound(r)
<1>1. PICK run \in Crew!Run : runs[r] = run
  BY RowTyped DEF Crew!StopBegins, Typed
<1>2. /\ lane[r] = None /\ run.halt /\ run.status # "stopped" /\ Typed(r)
      /\ UNCHANGED <<pi, watch, ready, mode, boot, pending, inflight, given, Crew!history>>
  BY <1>1, RowTyped DEF Crew!StopBegins
<1>3. ASSUME Crew!Enter(r, "stop", "abort", 0), Crew!Same, UNCHANGED troubles
      PROVE  Sound(r)
  <2>1. PICK held : InLane(r, held, "stop", "abort")
    BY <1>3, EnterLane DEF Crew!Holder, Crew!SubagentsAssumption
  <2>2. lane' = [lane EXCEPT ![r] = held] /\ held \in Crew!Holder
    BY <2>1 DEF InLane
  <2>3. Crew!TypeOK' /\ (\A q \in Crew!Rows \ {r} : Unmoved(q))
    BY <1>2, <1>3, <2>2 DEF Crew!TypeOK, Unmoved
  <2>4. PiAt(r)'
    BY <1>1, <1>2, <1>3, <2>1 DEF InLane, At, PiAt
  <2>5. RowAt(r)'
    BY <1>1, <1>2, <1>3, <2>1 DEF InLane, At, RowAt
  <2>6. WatchAt(r)'
    BY <1>1, <1>2, <1>3, <2>1 DEF InLane, At, WatchAt, Steering
  <2>7. LaneAt(r)'
    BY <1>1, <1>2, <1>3, <2>1 DEF InLane, At, RowAt, LaneAt, Steering, Crew!SubagentsAssumption
  <2>8. OwnedAt(r)' /\ Emptied(r)'
    BY <1>1, <1>2, <1>3, <2>1 DEF At, OwnedAt, Emptied
  <2>9. Modest(r)
    BY <1>1, <1>2, <1>3, <2>1 DEF At, Modest, Holding, Crew!Busy
  <2> QED BY <2>3, <2>4, <2>5, <2>6, <2>7, <2>8, <2>9 DEF At, Sound
<1>4. ASSUME ~run.conv, Crew!Stopped(r), UNCHANGED lane
      PROVE  Sound(r)
  <2>1. PICK mine : mine = [run EXCEPT !.status = "stopped", !.park = None]
    OBVIOUS
  <2>2. mine \in Crew!Run /\ mine.status = "stopped" /\ mine.park = None /\ mine.halt /\ SameInput(mine, run)
    BY <1>2, <2>1 DEF Crew!Run, SameInput
  <2>3. PICK new \in Crew!Run :
          /\ runs' = [runs EXCEPT ![r] = new] /\ new.status = mine.status /\ new.halt = mine.halt
          /\ new.park = mine.park /\ SameInput(new, mine) /\ (new.owed \/ news'[r] = new.status)
          /\ news' \in [Crew!Rows -> Crew!Statuses \cup {None}] /\ (\A q \in Crew!Rows \ {r} : news'[q] = news[q])
          /\ troubles' \in Nat
    BY <1>1, <1>4, <2>1, <2>2, ToldRow DEF Crew!Stopped
  <2>4. runs'[r] = new
    BY <2>3 DEF Crew!TypeOK
  <2>5. pi[r].placed = 0 /\ pi[r].work = "idle" /\ pi[r].subs = {} /\ pi[r].out = None
    BY <1>1, <1>2, <1>4, PiEmpty DEF At, RowAt, Typed, Crew!Agent, Crew!SubagentsAssumption
  <2>6. Crew!TypeOK' /\ (\A q \in Crew!Rows \ {r} : Unmoved(q))
    BY <1>2, <1>4, <2>3 DEF Crew!TypeOK, Unmoved
  <2>7. PiAt(r)'
    BY <1>1, <1>2, <1>4, <2>2, <2>3, <2>4, <2>5 DEF SameInput, At, PiAt
  <2>8. RowAt(r)'
    BY <1>1, <1>2, <1>4, <2>2, <2>3, <2>4, <2>5 DEF SameInput, At, RowAt, Crew!SubagentsAssumption
  <2>9. WatchAt(r)'
    BY <1>1, <1>2, <1>4, <2>2, <2>3, <2>4, <2>5 DEF SameInput, At, WatchAt, Steering,
       Crew!SubagentsAssumption
  <2>10. LaneAt(r)'
    BY <1>1, <1>2, <1>4, <2>2, <2>3, <2>4, <2>5 DEF At, LaneAt, Ended
  <2>11. OwnedAt(r)' /\ Emptied(r)'
    BY <1>1, <1>2, <1>4, <2>2, <2>3, <2>4, <2>5 DEF At, OwnedAt, Emptied, Crew!SubagentsAssumption
  <2>12. Modest(r)
    BY <1>1, <1>2, <1>4, <2>2, <2>3, <2>4, <2>5 DEF At, Modest, Holding, Crew!Busy,
       Crew!SubagentsAssumption
  <2> QED BY <2>6, <2>7, <2>8, <2>9, <2>10, <2>11, <2>12 DEF At, Sound
<1> QED BY <1>1, <1>3, <1>4 DEF Crew!StopBegins

LEMMA StopReturnsHolds ==
  ASSUME Crew!SubagentsAssumption, Crew!TypeOK, NEW r \in Crew!Rows, At(r), Crew!StopReturns(r)
  PROVE  Sound(r)
<1>1. /\ lane[r] # None /\ lane[r].op = "stop" /\ lane[r].at = "abort" /\ Typed(r)
      /\ lane' = [lane EXCEPT ![r] = None] /\ lane'[r] = None
      /\ UNCHANGED <<watch, ready, mode, boot, pending, inflight, Crew!history>>
  BY RowTyped DEF Crew!StopReturns, Crew!Holds, Crew!Leave, Crew!TypeOK
<1>2. PICK run \in Crew!Run : runs[r] = run /\ run.halt /\ ~(run.status \in {"done", "failed", "stopped"})
  BY <1>1 DEF Typed, At, LaneAt
<1>3. ASSUME Crew!Cancel(r), Crew!Stopped(r)
      PROVE  Sound(r)
  <2>1. PICK mine : mine = [run EXCEPT !.status = "stopped", !.park = None]
    OBVIOUS
  <2>2. mine \in Crew!Run /\ mine.status = "stopped" /\ mine.park = None /\ mine.halt /\ SameInput(mine, run)
    BY <1>2, <2>1 DEF Crew!Run, SameInput
  <2>3. PICK new \in Crew!Run :
          /\ runs' = [runs EXCEPT ![r] = new] /\ new.status = mine.status /\ new.halt = mine.halt
          /\ new.park = mine.park /\ SameInput(new, mine) /\ (new.owed \/ news'[r] = new.status)
          /\ news' \in [Crew!Rows -> Crew!Statuses \cup {None}] /\ (\A q \in Crew!Rows \ {r} : news'[q] = news[q])
          /\ troubles' \in Nat
    BY <1>2, <1>3, <2>1, <2>2, ToldRow DEF Crew!Stopped
  <2>4. runs'[r] = new
    BY <2>3 DEF Crew!TypeOK
  <2>5. PICK p \in Crew!Agent : /\ pi' = [pi EXCEPT ![r] = p] /\ pi'[r] = p /\ p.work = "idle" /\ p.subs = {}
                           /\ p.placed = pi[r].placed /\ p.bound = pi[r].bound /\ p.out = pi[r].out
    BY <1>3, QuietRow DEF Crew!Cancel
  <2>6. given' = given \ {r}
    BY <1>3 DEF Crew!Cancel
  <2>7. Crew!TypeOK' /\ (\A q \in Crew!Rows \ {r} : Unmoved(q))
    BY <1>1, <2>3, <2>5, <2>6 DEF Crew!TypeOK, Unmoved
  <2>8. PiAt(r)'
    BY <1>1, <1>2, <2>2, <2>3, <2>4, <2>5, <2>6 DEF At, PiAt, Crew!SubagentsAssumption
  <2>9. RowAt(r)'
    BY <1>1, <1>2, <2>2, <2>3, <2>4, <2>5, <2>6 DEF SameInput, At, RowAt, LaneAt
  <2>10. WatchAt(r)'
    BY <1>1, <1>2, <2>2, <2>3, <2>4, <2>5, <2>6 DEF SameInput, At, WatchAt, Steering,
       Crew!SubagentsAssumption
  <2>11. LaneAt(r)'
    BY <1>1, <1>2, <2>2, <2>3, <2>4, <2>5, <2>6 DEF At, LaneAt, Ended
  <2>12. OwnedAt(r)' /\ Emptied(r)'
    BY <1>1, <1>2, <2>2, <2>3, <2>4, <2>5, <2>6 DEF At, OwnedAt, Emptied, Crew!SubagentsAssumption
  <2>13. Modest(r)
    BY <1>1, <1>2, <2>2, <2>3, <2>4, <2>5, <2>6 DEF At, Modest, Holding, Crew!Busy,
       Crew!SubagentsAssumption
  <2> QED BY <2>7, <2>8, <2>9, <2>10, <2>11, <2>12, <2>13 DEF At, Sound
<1>4. ASSUME Crew!Fault, Crew!Same, UNCHANGED <<pi, given>>
      PROVE  Sound(r)
  <2>1. troubles' \in Nat
    BY <1>4 DEF Crew!Fault, Crew!TypeOK
  <2>2. Crew!TypeOK' /\ (\A q \in Crew!Rows \ {r} : Unmoved(q))
    BY <1>1, <1>4, <2>1 DEF Crew!TypeOK, Unmoved
  <2>3. PiAt(r)'
    BY <1>1, <1>2, <1>4 DEF Typed, At, PiAt
  <2>4. RowAt(r)'
    BY <1>1, <1>2, <1>4 DEF Typed, At, RowAt
  <2>5. WatchAt(r)'
    BY <1>1, <1>2, <1>4 DEF At, WatchAt, Steering
  <2>6. LaneAt(r)'
    BY <1>1, <1>2, <1>4 DEF At, LaneAt, Ended
  <2>7. OwnedAt(r)' /\ Emptied(r)'
    BY <1>1, <1>2, <1>4 DEF At, OwnedAt, Emptied
  <2>8. Modest(r)
    BY <1>1, <1>2, <1>4 DEF At, Modest, Holding, Crew!Busy
  <2> QED BY <2>2, <2>3, <2>4, <2>5, <2>6, <2>7, <2>8 DEF At, Sound
<1> QED BY <1>3, <1>4 DEF Crew!StopReturns

LEMMA NotifyHolds ==
  ASSUME Crew!SubagentsAssumption, Crew!TypeOK, NEW r \in Crew!Rows, At(r), Crew!Notify(r)
  PROVE  Sound(r)
<1>1. PICK run \in Crew!Run : runs[r] = run
  BY RowTyped DEF Crew!Notify, Typed
<1>2. Crew!Tell(r, run) /\ Typed(r) /\ UNCHANGED <<pi, Crew!process, Crew!history>>
  BY <1>1, RowTyped DEF Crew!Notify
<1>3. PICK new \in Crew!Run :
        /\ runs' = [runs EXCEPT ![r] = new] /\ new.status = run.status /\ new.halt = run.halt
        /\ new.park = run.park /\ SameInput(new, run) /\ (new.owed \/ news'[r] = new.status)
        /\ news' \in [Crew!Rows -> Crew!Statuses \cup {None}] /\ (\A q \in Crew!Rows \ {r} : news'[q] = news[q])
        /\ troubles' \in Nat
  BY <1>2, ToldRow
<1>4. runs'[r] = new
  BY <1>3 DEF Crew!TypeOK
<1>5. Crew!TypeOK' /\ (\A q \in Crew!Rows \ {r} : Unmoved(q))
  BY <1>2, <1>3 DEF Crew!TypeOK, Unmoved
<1>6. PiAt(r)'
  BY <1>1, <1>2, <1>3, <1>4 DEF At, PiAt, Crew!SubagentsAssumption
<1>7. RowAt(r)'
  BY <1>1, <1>2, <1>3, <1>4 DEF SameInput, At, RowAt, Crew!SubagentsAssumption
<1>8. WatchAt(r)'
  BY <1>1, <1>2, <1>3, <1>4 DEF SameInput, At, WatchAt, Steering, Ended, Crew!SubagentsAssumption
<1>9. LaneAt(r)'
  BY <1>1, <1>2, <1>3, <1>4 DEF SameInput, At, LaneAt, Steering, Ended, Crew!SubagentsAssumption
<1>10. OwnedAt(r)' /\ Emptied(r)'
  BY <1>1, <1>2, <1>3, <1>4 DEF SameInput, At, OwnedAt, Emptied, Steering, Crew!SubagentsAssumption
<1>11. Modest(r)
  BY <1>1, <1>2, <1>3, <1>4 DEF SameInput, At, Modest, Holding, Crew!Busy, Crew!SubagentsAssumption
<1> QED BY <1>5, <1>6, <1>7, <1>8, <1>9, <1>10, <1>11 DEF At, Sound

LEMMA SeenHolds ==
  ASSUME Crew!SubagentsAssumption, Crew!TypeOK, NEW r \in Crew!Rows, At(r), NEW rev \in 1 .. MaxRev,
         Crew!Seen(r, rev)
  PROVE  Sound(r)
<1>1. /\ rev \in watch[r] /\ Typed(r) /\ runs[r] # None
      /\ UNCHANGED <<runs, pi, lane, mode, boot, inflight, given, Crew!history, news>>
  BY RowTyped DEF Crew!Seen, At, WatchAt
<1>2. PICK run \in Crew!Run : runs[r] = run
  BY <1>1 DEF Typed
<1>3. PICK seen \in SUBSET (1 .. MaxRev) : seen = watch[r] \ {rev}
  BY <1>1 DEF Typed
<1>4. watch' = [watch EXCEPT ![r] = seen] /\ watch'[r] = seen
  BY <1>3 DEF Crew!Seen, Crew!TypeOK
<1>5. ASSUME pi[r].work = "idle", pi[r].subs = {}, ready' = [ready EXCEPT ![r] = @ \cup {rev}],
             UNCHANGED <<pending, troubles>>
      PROVE  Sound(r)
  <2>1. PICK next \in SUBSET (1 .. MaxRev) : next = ready[r] \cup {rev}
    BY <1>1 DEF Typed
  <2>2. ready' = [ready EXCEPT ![r] = next] /\ ready'[r] = next
    BY <1>5, <2>1 DEF Crew!TypeOK
  <2>3. Crew!TypeOK' /\ (\A q \in Crew!Rows \ {r} : Unmoved(q))
    BY <1>1, <1>4, <1>5, <2>2 DEF Crew!TypeOK, Unmoved
  <2>4. PiAt(r)'
    BY <1>1, <1>2, <1>3, <1>4, <1>5, <2>1, <2>2 DEF Typed, At, PiAt
  <2>5. RowAt(r)'
    BY <1>1, <1>2, <1>3, <1>4, <1>5, <2>1, <2>2 DEF Typed, At, RowAt
  <2>6. WatchAt(r)'
    BY <1>1, <1>2, <1>3, <1>4, <1>5, <2>1, <2>2 DEF At, RowAt, WatchAt, Steering, Ended
  <2>7. LaneAt(r)'
    BY <1>1, <1>2, <1>3, <1>4, <1>5, <2>1, <2>2 DEF At, LaneAt, Steering, Ended
  <2>8. OwnedAt(r)' /\ Emptied(r)'
    BY <1>1, <1>2, <1>3, <1>4, <1>5, <2>1, <2>2 DEF At, OwnedAt, Emptied, Steering
  <2>9. Modest(r)
    BY <1>1, <1>2, <1>3, <1>4, <1>5, <2>1, <2>2 DEF At, Modest, Holding, Crew!Busy
  <2> QED BY <2>3, <2>4, <2>5, <2>6, <2>7, <2>8, <2>9 DEF At, Sound
<1>6. ASSUME Crew!Fault, Crew!Owe(r), UNCHANGED ready
      PROVE  Sound(r)
  <2>1. troubles' \in Nat /\ pending' = pending \cup {r}
    BY <1>6 DEF Crew!Fault, Crew!Owe, Crew!TypeOK
  <2>2. Crew!TypeOK' /\ (\A q \in Crew!Rows \ {r} : Unmoved(q))
    BY <1>1, <1>4, <1>6, <2>1 DEF Crew!TypeOK, Unmoved
  <2>3. PiAt(r)'
    BY <1>1, <1>2, <1>3, <1>4, <1>6, <2>1 DEF Typed, At, PiAt
  <2>4. RowAt(r)'
    BY <1>1, <1>2, <1>3, <1>4, <1>6, <2>1 DEF Typed, At, RowAt
  <2>5. WatchAt(r)'
    BY <1>1, <1>2, <1>3, <1>4, <1>6, <2>1 DEF At, WatchAt, Steering, Ended
  <2>6. LaneAt(r)'
    BY <1>1, <1>2, <1>3, <1>4, <1>6, <2>1 DEF At, LaneAt, Steering, Ended
  <2>7. OwnedAt(r)' /\ Emptied(r)'
    BY <1>1, <1>2, <1>3, <1>4, <1>6, <2>1 DEF At, OwnedAt, Emptied
  <2>8. Modest(r)
    BY <1>1, <1>2, <1>3, <1>4, <1>6, <2>1 DEF At, Modest, Holding, Crew!Busy
  <2> QED BY <2>2, <2>3, <2>4, <2>5, <2>6, <2>7, <2>8 DEF At, Sound
<1> QED BY <1>5, <1>6 DEF Crew!Seen

LEMMA FinalizeHolds ==
  ASSUME Crew!SubagentsAssumption, Crew!TypeOK, NEW r \in Crew!Rows, At(r), NEW rev \in 1 .. MaxRev,
         Crew!Finalize(r, rev)
  PROVE  Sound(r)
<1>1. /\ rev \in ready[r] /\ Typed(r) /\ runs[r] # None /\ lane[r] = None
      /\ UNCHANGED <<runs, pi, watch, mode, boot, pending, inflight, given, Crew!history, troubles, news>>
  BY RowTyped DEF Crew!Finalize, At, WatchAt
<1>2. PICK run \in Crew!Run : runs[r] = run
  BY <1>1 DEF Typed
<1>3. PICK left \in SUBSET (1 .. MaxRev) : left = ready[r] \ {rev}
  BY <1>1 DEF Typed
<1>4. ready' = [ready EXCEPT ![r] = left] /\ ready'[r] = left
  BY <1>3 DEF Crew!Finalize, Crew!TypeOK
<1>5. ASSUME Crew!Over(r) \/ run.halt \/ run.rev > rev \/ run.intent, UNCHANGED lane
      PROVE  Sound(r)
  <2>1. run.rev > rev => run.rev # rev
    BY <1>2 DEF Crew!Run, Crew!SubagentsAssumption
  <2>2. Crew!TypeOK' /\ (\A q \in Crew!Rows \ {r} : Unmoved(q))
    BY <1>1, <1>4, <1>5 DEF Crew!TypeOK, Unmoved
  <2>3. PiAt(r)'
    BY <1>1, <1>2, <1>3, <1>4, <1>5, <2>1 DEF Typed, At, PiAt
  <2>4. RowAt(r)'
    BY <1>1, <1>2, <1>3, <1>4, <1>5, <2>1 DEF Typed, At, RowAt
  <2>5. WatchAt(r)'
    BY <1>1, <1>2, <1>3, <1>4, <1>5, <2>1 DEF At, WatchAt, Steering, Ended
  <2>6. LaneAt(r)'
    BY <1>1, <1>2, <1>3, <1>4, <1>5, <2>1 DEF At, LaneAt, Ended
  <2>7. OwnedAt(r)' /\ Emptied(r)'
    BY <1>1, <1>2, <1>3, <1>4, <1>5, <2>1 DEF At, OwnedAt, Emptied, Steering
  <2>8. Modest(r)
    BY <1>1, <1>2, <1>3, <1>4, <1>5, <2>1 DEF At, Modest, Holding, Crew!Busy
  <2> QED BY <2>2, <2>3, <2>4, <2>5, <2>6, <2>7, <2>8 DEF At, Sound
<1>6. ASSUME ~Crew!Over(r), ~run.halt, ~(run.rev > rev), ~run.intent,
             Crew!Enter(r, "finalize", "read", rev)
      PROVE  Sound(r)
  <2>1. PICK held : InLane(r, held, "finalize", "read") /\ held.rev = rev /\ held.kept = None
    BY <1>6, EnterLane DEF Crew!Holder, Crew!SubagentsAssumption
  <2>2. lane' = [lane EXCEPT ![r] = held] /\ held \in Crew!Holder
    BY <2>1 DEF InLane
  <2>3. run.rev = rev /\ pi[r].placed <= rev
    BY <1>1, <1>2, <1>6 DEF At, WatchAt, RowAt, Crew!Run
  <2>4. Crew!TypeOK' /\ (\A q \in Crew!Rows \ {r} : Unmoved(q))
    BY <1>1, <1>4, <2>2 DEF Crew!TypeOK, Unmoved
  <2>5. PiAt(r)'
    BY <1>1, <1>2, <1>3, <1>4, <1>6, <2>1, <2>3 DEF InLane, At, PiAt
  <2>6. RowAt(r)'
    BY <1>1, <1>2, <1>3, <1>4, <1>6, <2>1, <2>3 DEF InLane, At, RowAt
  <2>7. WatchAt(r)'
    BY <1>1, <1>2, <1>3, <1>4, <1>6, <2>1, <2>3 DEF InLane, At, WatchAt, Steering, Ended
  <2>8. LaneAt(r)'
    BY <1>1, <1>2, <1>3, <1>4, <1>6, <2>1, <2>3 DEF InLane, At, WatchAt, LaneAt, Steering, Ended,
       Crew!SubagentsAssumption
  <2>9. OwnedAt(r)' /\ Emptied(r)'
    BY <1>1, <1>2, <1>3, <1>4, <1>6, <2>1, <2>3 DEF InLane, At, OwnedAt, Emptied, Steering
  <2>10. Modest(r)
    BY <1>1, <1>2, <1>3, <1>4, <1>6, <2>1, <2>3 DEF At, Modest, Holding, Crew!Busy
  <2> QED BY <2>4, <2>5, <2>6, <2>7, <2>8, <2>9, <2>10 DEF At, Sound
<1> QED BY <1>2, <1>5, <1>6 DEF Crew!Finalize

\* A settlement is of a row that is not over, whose Pi was not parked; its work ends with it.
LEMMA SettledRow ==
  ASSUME Crew!SubagentsAssumption, Crew!TypeOK, NEW r \in Crew!Rows, At(r), lane[r] # None,
         lane[r].op = "finalize", ~runs[r].halt
  PROVE  /\ runs[r] \in Crew!Run /\ ~Crew!Over(r) /\ runs[r].rev = lane[r].rev /\ ~runs[r].intent /\ runs[r].park = None
         /\ ~Strange(r) => pi[r].work # "tool" /\ pi[r].subs = {}
         /\ pi[r].out # None => runs[r].conv /\ Crew!Along(r)
<1>1. PICK run \in Crew!Run : runs[r] = run
  BY RowTyped DEF Typed, At, LaneAt
<1>2. /\ Typed(r) /\ ~(run.status \in {"done", "failed", "stopped"}) /\ run.rev = lane[r].rev /\ ~run.intent
      /\ pi[r].work \notin {"gate", "replay"} /\ (~Strange(r) => Ended(r, run.rev))
  BY <1>1, RowTyped DEF At, LaneAt, Crew!SubagentsAssumption
<1>3. run.park = None
  BY <1>1, <1>2 DEF At, RowAt, Crew!SubagentsAssumption
<1>4. pi[r].out # None => pi[r].placed > 0
  BY <1>2 DEF Typed, At, PiAt, Crew!Agent
<1>5. ASSUME pi[r].out # None, pi[r].out.rev = run.rev
      PROVE  pi[r].work # "tool" /\ pi[r].subs = {}
  <2>1. pi[r].bound = run.rev /\ pi[r].placed <= run.rev /\ pi[r].work # "tool"
    BY <1>1, <1>5 DEF At, PiAt, RowAt, Crew!SubagentsAssumption
  <2>2. \A n \in pi[r].subs : pi[r].bound < n /\ n <= pi[r].placed
    BY DEF At, PiAt
  <2>3. pi[r].subs \subseteq Nat /\ pi[r].placed \in Nat /\ run.rev \in Nat
    BY <1>2 DEF Typed, Crew!Agent, Crew!Run
  <2> QED BY <2>1, <2>2, <2>3
<1>6. pi[r].out # None => run.conv /\ Crew!Along(r)
  BY <1>1, <1>2, <1>4 DEF At, RowAt, Crew!SubagentsAssumption
<1> QED BY <1>1, <1>2, <1>3, <1>5, <1>6 DEF Ended, Crew!SubagentsAssumption

LEMMA ReadHolds ==
  ASSUME Crew!SubagentsAssumption, Crew!TypeOK, NEW r \in Crew!Rows, At(r), Crew!Read(r)
  PROVE  Sound(r)
<1>1. /\ lane[r] # None /\ lane[r].op = "finalize" /\ lane[r].at = "read" /\ Typed(r)
      /\ UNCHANGED <<pi, watch, ready, mode, boot, inflight, given, Crew!history>>
  BY RowTyped DEF Crew!Read, Crew!Holds
<1>2. PICK run \in Crew!Run : runs[r] = run
  BY <1>1 DEF Typed, At, LaneAt
<1>3. ASSUME run.halt, Crew!Leave(r), Crew!Same, UNCHANGED <<troubles, pending>>
      PROVE  Sound(r)
  <2>1. lane' = [lane EXCEPT ![r] = None] /\ lane'[r] = None
    BY <1>3 DEF Crew!Leave, Crew!TypeOK
  <2>2. Crew!TypeOK' /\ (\A q \in Crew!Rows \ {r} : Unmoved(q))
    BY <1>1, <1>3, <2>1 DEF Crew!TypeOK, Unmoved
  <2>3. PiAt(r)'
    BY <1>1, <1>2, <1>3, <2>1 DEF Typed, At, PiAt
  <2>4. RowAt(r)'
    BY <1>1, <1>2, <1>3, <2>1 DEF Typed, At, RowAt
  <2>5. WatchAt(r)'
    BY <1>1, <1>2, <1>3, <2>1 DEF At, WatchAt, Steering
  <2>6. LaneAt(r)'
    BY <1>1, <1>2, <1>3, <2>1 DEF At, LaneAt, Ended
  <2>7. OwnedAt(r)' /\ Emptied(r)'
    BY <1>1, <1>2, <1>3, <2>1 DEF At, OwnedAt, Emptied
  <2>8. Modest(r)
    BY <1>1, <1>2, <1>3, <2>1 DEF At, Modest, Holding, Crew!Busy
  <2> QED BY <2>2, <2>3, <2>4, <2>5, <2>6, <2>7, <2>8 DEF At, Sound
<1>4. ASSUME ~run.halt, Crew!Outcome(r) \in {"done", "none"}, Crew!Same, UNCHANGED <<troubles,
             pending>>,
             lane' = [lane EXCEPT ![r].at = "close", ![r].kept = Crew!Outcome(r)]
      PROVE  Sound(r)
  <2>1. PICK was \in Crew!Holder : lane[r] = was
    BY <1>1 DEF Typed
  <2>2. PICK held : held = [was EXCEPT !.at = "close", !.kept = Crew!Outcome(r)]
    OBVIOUS
  <2>3. /\ held \in Crew!Holder /\ held # None /\ held.op = "finalize" /\ held.at = "close" /\ held.rev = was.rev
        /\ held.kept = Crew!Outcome(r)
    BY <1>1, <1>4, <2>1, <2>2 DEF Crew!Holder, Crew!SubagentsAssumption
  <2>4. lane' = [lane EXCEPT ![r] = held] /\ lane'[r] = held
    BY <1>4, <2>1, <2>2 DEF Crew!TypeOK
  <2>5. Crew!Outcome(r) = "done" => pi[r].out # None /\ pi[r].out.rev = was.rev /\ pi[r].out.kind = "done"
    BY <2>1 DEF Crew!Outcome
  <2>6. Crew!TypeOK' /\ (\A q \in Crew!Rows \ {r} : Unmoved(q))
    BY <1>1, <1>4, <2>3, <2>4 DEF Crew!TypeOK, Unmoved
  <2>7. PiAt(r)'
    BY <1>1, <1>2, <1>4, <2>1, <2>3, <2>4, <2>5 DEF Typed, At, PiAt
  <2>8. RowAt(r)'
    BY <1>1, <1>2, <1>4, <2>1, <2>3, <2>4, <2>5 DEF Typed, At, RowAt
  <2>9. WatchAt(r)'
    BY <1>1, <1>2, <1>4, <2>1, <2>3, <2>4, <2>5 DEF At, WatchAt, Steering, Ended
  <2>10. LaneAt(r)'
    BY <1>1, <1>2, <1>4, <2>1, <2>3, <2>4, <2>5 DEF At, LaneAt, Steering, Ended
  <2>11. OwnedAt(r)' /\ Emptied(r)'
    BY <1>1, <1>2, <1>4, <2>1, <2>3, <2>4, <2>5 DEF At, OwnedAt, Emptied, Steering
  <2>12. Modest(r)
    BY <1>1, <1>2, <1>4, <2>1, <2>3, <2>4, <2>5 DEF At, Modest, Holding, Crew!Busy
  <2> QED BY <2>6, <2>7, <2>8, <2>9, <2>10, <2>11, <2>12 DEF At, Sound
<1>5. ASSUME ~run.halt, Crew!Outcome(r) \in {"ask", "aborted"}, Crew!Leave(r), UNCHANGED pending,
             Crew!Tell(r, [runs[r] EXCEPT !.status = IF Crew!Outcome(r) = "ask" THEN "needs_input" ELSE "failed"])
      PROVE  Sound(r)
  <2>1. lane' = [lane EXCEPT ![r] = None] /\ lane'[r] = None
    BY <1>5 DEF Crew!Leave, Crew!TypeOK
  <2>2. PICK status \in {"needs_input", "failed"} : status = IF Crew!Outcome(r) = "ask" THEN "needs_input" ELSE "failed"
    OBVIOUS
  <2>3. PICK mine : mine = [run EXCEPT !.status = status]
    OBVIOUS
  <2>4. mine \in Crew!Run /\ mine.status = status /\ mine.park = run.park /\ mine.halt = run.halt /\ SameInput(mine, run)
    BY <1>2, <2>2, <2>3 DEF Crew!Run, SameInput
  <2>5. PICK new \in Crew!Run :
          /\ runs' = [runs EXCEPT ![r] = new] /\ new.status = mine.status /\ new.halt = mine.halt
          /\ new.park = mine.park /\ SameInput(new, mine) /\ (new.owed \/ news'[r] = new.status)
          /\ news' \in [Crew!Rows -> Crew!Statuses \cup {None}] /\ (\A q \in Crew!Rows \ {r} : news'[q] = news[q])
          /\ troubles' \in Nat
    BY <1>2, <1>5, <2>2, <2>3, <2>4, ToldRow
  <2>6. runs'[r] = new
    BY <2>5 DEF Crew!TypeOK
  <2>7. pi[r].out # None
    BY <1>5 DEF Crew!Outcome
  <2>8. /\ ~(run.status \in {"done", "failed", "stopped"}) /\ run.park = None /\ run.conv /\ Crew!Along(r)
        /\ ~Strange(r) => pi[r].work # "tool" /\ pi[r].subs = {}
    BY <1>1, <1>2, <1>5, <2>7, SettledRow DEF Crew!SubagentsAssumption
  <2>9. Crew!TypeOK' /\ (\A q \in Crew!Rows \ {r} : Unmoved(q))
    BY <1>1, <1>5, <2>1, <2>5 DEF Crew!TypeOK, Unmoved
  <2>10. PiAt(r)'
    BY <1>1, <1>2, <1>5, <2>1, <2>2, <2>4, <2>5, <2>6, <2>7, <2>8 DEF At, PiAt,
       Crew!SubagentsAssumption
  <2>11. RowAt(r)'
    BY <1>1, <1>2, <1>5, <2>1, <2>2, <2>4, <2>5, <2>6, <2>7, <2>8 DEF SameInput, At, RowAt,
       Crew!SubagentsAssumption
  <2>12. WatchAt(r)'
    BY <1>1, <1>2, <1>5, <2>1, <2>2, <2>4, <2>5, <2>6, <2>7, <2>8 DEF SameInput, At, WatchAt,
       Steering, Ended, Crew!SubagentsAssumption
  <2>13. LaneAt(r)'
    BY <1>1, <1>2, <1>5, <2>1, <2>2, <2>4, <2>5, <2>6, <2>7, <2>8 DEF At, LaneAt, Ended
  <2>14. OwnedAt(r)' /\ Emptied(r)'
    BY <1>1, <1>2, <1>5, <2>1, <2>2, <2>4, <2>5, <2>6, <2>7, <2>8 DEF At, OwnedAt, Emptied,
       Crew!SubagentsAssumption
  <2>15. Modest(r)
    BY <1>1, <1>2, <1>5, <2>1, <2>2, <2>4, <2>5, <2>6, <2>7, <2>8 DEF At, Modest, Holding,
       Crew!Busy, Crew!SubagentsAssumption
  <2> QED BY <2>9, <2>10, <2>11, <2>12, <2>13, <2>14, <2>15 DEF At, Sound
<1>6. ASSUME Crew!Fault, Crew!Leave(r), Crew!Owe(r), Crew!Same
      PROVE  Sound(r)
  <2>1. troubles' \in Nat /\ pending' = pending \cup {r} /\ lane' = [lane EXCEPT ![r] = None] /\ lane'[r] = None
    BY <1>6 DEF Crew!Fault, Crew!Owe, Crew!Leave, Crew!TypeOK
  <2>2. Crew!TypeOK' /\ (\A q \in Crew!Rows \ {r} : Unmoved(q))
    BY <1>1, <1>6, <2>1 DEF Crew!TypeOK, Unmoved
  <2>3. PiAt(r)'
    BY <1>1, <1>2, <1>6, <2>1 DEF Typed, At, PiAt
  <2>4. RowAt(r)'
    BY <1>1, <1>2, <1>6, <2>1 DEF Typed, At, RowAt
  <2>5. WatchAt(r)'
    BY <1>1, <1>2, <1>6, <2>1 DEF At, WatchAt, Steering, Ended
  <2>6. LaneAt(r)'
    BY <1>1, <1>2, <1>6, <2>1 DEF At, LaneAt, Ended
  <2>7. OwnedAt(r)' /\ Emptied(r)'
    BY <1>1, <1>2, <1>6, <2>1 DEF At, OwnedAt, Emptied
  <2>8. Modest(r)
    BY <1>1, <1>2, <1>6, <2>1 DEF At, Modest, Holding, Crew!Busy
  <2> QED BY <2>2, <2>3, <2>4, <2>5, <2>6, <2>7, <2>8 DEF At, Sound
<1> QED BY <1>2, <1>3, <1>4, <1>5, <1>6 DEF Crew!Read, Crew!Preempted

LEMMA CloseHolds ==
  ASSUME Crew!SubagentsAssumption, Crew!TypeOK, NEW r \in Crew!Rows, At(r), Crew!Close(r)
  PROVE  Sound(r)
<1>1. /\ lane[r] # None /\ lane[r].op = "finalize" /\ lane[r].at = "close" /\ Typed(r)
      /\ lane' = [lane EXCEPT ![r] = None] /\ lane'[r] = None
      /\ UNCHANGED <<pi, watch, ready, mode, boot, inflight, given, Crew!history>>
  BY RowTyped DEF Crew!Close, Crew!Holds, Crew!Leave, Crew!TypeOK
<1>2. PICK run \in Crew!Run : runs[r] = run
  BY <1>1 DEF Typed, At, LaneAt
<1>3. ASSUME run.halt, Crew!Same, UNCHANGED <<troubles, pending>>
      PROVE  Sound(r)
  <2>1. Crew!TypeOK' /\ (\A q \in Crew!Rows \ {r} : Unmoved(q))
    BY <1>1, <1>3 DEF Crew!TypeOK, Unmoved
  <2>2. PiAt(r)'
    BY <1>1, <1>2, <1>3 DEF Typed, At, PiAt
  <2>3. RowAt(r)'
    BY <1>1, <1>2, <1>3 DEF Typed, At, RowAt
  <2>4. WatchAt(r)'
    BY <1>1, <1>2, <1>3 DEF At, WatchAt, Steering
  <2>5. LaneAt(r)'
    BY <1>1, <1>2, <1>3 DEF At, LaneAt, Ended
  <2>6. OwnedAt(r)' /\ Emptied(r)'
    BY <1>1, <1>2, <1>3 DEF At, OwnedAt, Emptied
  <2>7. Modest(r)
    BY <1>1, <1>2, <1>3 DEF At, Modest, Holding, Crew!Busy
  <2> QED BY <2>1, <2>2, <2>3, <2>4, <2>5, <2>6, <2>7 DEF At, Sound
<1>4. ASSUME ~run.halt, UNCHANGED pending,
             Crew!Tell(r, [runs[r] EXCEPT !.status = IF lane[r].kept = "done" THEN "done" ELSE "failed"])
      PROVE  Sound(r)
  <2>1. PICK status \in {"done", "failed"} : status = IF lane[r].kept = "done" THEN "done" ELSE "failed"
    OBVIOUS
  <2>2. PICK mine : mine = [run EXCEPT !.status = status]
    OBVIOUS
  <2>3. mine \in Crew!Run /\ mine.status = status /\ mine.park = run.park /\ mine.halt = run.halt /\ SameInput(mine, run)
    BY <1>2, <2>1, <2>2 DEF Crew!Run, SameInput
  <2>4. PICK new \in Crew!Run :
          /\ runs' = [runs EXCEPT ![r] = new] /\ new.status = mine.status /\ new.halt = mine.halt
          /\ new.park = mine.park /\ SameInput(new, mine) /\ (new.owed \/ news'[r] = new.status)
          /\ news' \in [Crew!Rows -> Crew!Statuses \cup {None}] /\ (\A q \in Crew!Rows \ {r} : news'[q] = news[q])
          /\ troubles' \in Nat
    BY <1>2, <1>4, <2>1, <2>2, <2>3, ToldRow
  <2>5. runs'[r] = new
    BY <2>4 DEF Crew!TypeOK
  <2>6. /\ ~(run.status \in {"done", "failed", "stopped"}) /\ run.park = None /\ run.rev = lane[r].rev
        /\ ~Strange(r) => pi[r].work # "tool" /\ pi[r].subs = {}
    BY <1>1, <1>2, <1>4, SettledRow DEF Crew!SubagentsAssumption
  <2>7. Crew!TypeOK' /\ (\A q \in Crew!Rows \ {r} : Unmoved(q))
    BY <1>1, <1>4, <2>4 DEF Crew!TypeOK, Unmoved
  <2>8. PiAt(r)'
    BY <1>1, <1>2, <1>4, <2>1, <2>3, <2>4, <2>5, <2>6 DEF At, PiAt, Crew!SubagentsAssumption
  <2>9. RowAt(r)'
    BY <1>1, <1>2, <1>4, <2>1, <2>3, <2>4, <2>5, <2>6 DEF SameInput, At, RowAt, LaneAt
  <2>10. WatchAt(r)'
    BY <1>1, <1>2, <1>4, <2>1, <2>3, <2>4, <2>5, <2>6 DEF SameInput, At, WatchAt, Steering,
       Crew!SubagentsAssumption
  <2>11. LaneAt(r)'
    BY <1>1, <1>2, <1>4, <2>1, <2>3, <2>4, <2>5, <2>6 DEF At, LaneAt, Ended
  <2>12. OwnedAt(r)' /\ Emptied(r)'
    BY <1>1, <1>2, <1>4, <2>1, <2>3, <2>4, <2>5, <2>6 DEF At, OwnedAt, Emptied,
       Crew!SubagentsAssumption
  <2>13. Modest(r)
    BY <1>1, <1>2, <1>4, <2>1, <2>3, <2>4, <2>5, <2>6 DEF At, Modest, Holding, Crew!Busy,
       Crew!SubagentsAssumption
  <2> QED BY <2>7, <2>8, <2>9, <2>10, <2>11, <2>12, <2>13 DEF At, Sound
<1>5. ASSUME Crew!Fault, Crew!Owe(r), Crew!Same
      PROVE  Sound(r)
  <2>1. troubles' \in Nat /\ pending' = pending \cup {r}
    BY <1>5 DEF Crew!Fault, Crew!Owe, Crew!TypeOK
  <2>2. Crew!TypeOK' /\ (\A q \in Crew!Rows \ {r} : Unmoved(q))
    BY <1>1, <1>5, <2>1 DEF Crew!TypeOK, Unmoved
  <2>3. PiAt(r)'
    BY <1>1, <1>2, <1>5, <2>1 DEF Typed, At, PiAt
  <2>4. RowAt(r)'
    BY <1>1, <1>2, <1>5, <2>1 DEF Typed, At, RowAt
  <2>5. WatchAt(r)'
    BY <1>1, <1>2, <1>5, <2>1 DEF At, WatchAt, Steering, Ended
  <2>6. LaneAt(r)'
    BY <1>1, <1>2, <1>5, <2>1 DEF At, LaneAt, Ended
  <2>7. OwnedAt(r)' /\ Emptied(r)'
    BY <1>1, <1>2, <1>5, <2>1 DEF At, OwnedAt, Emptied
  <2>8. Modest(r)
    BY <1>1, <1>2, <1>5, <2>1 DEF At, Modest, Holding, Crew!Busy
  <2> QED BY <2>2, <2>3, <2>4, <2>5, <2>6, <2>7, <2>8 DEF At, Sound
<1> QED BY <1>2, <1>3, <1>4, <1>5 DEF Crew!Close, Crew!Preempted

LEMMA RecoverHolds ==
  ASSUME Crew!SubagentsAssumption, Crew!TypeOK, NEW r \in Crew!Rows, At(r), Crew!Recover(r)
  PROVE  Sound(r)
<1>1. /\ lane[r] = None /\ Typed(r) /\ pending' = pending \ {r} /\ boot' = boot \ {r}
      /\ UNCHANGED <<runs, pi, watch, ready, mode, inflight, given, Crew!history, troubles, news>>
  BY RowTyped DEF Crew!Recover
<1>2. \/ Crew!Live(r) /\ Crew!Enter(r, "recover", "lookup", 0)
      \/ ~Crew!Live(r) /\ Crew!Parked(r) /\ ~runs[r].halt /\ Crew!Enter(r, "reattach", "lookup", 0)
      \/ ~Crew!Live(r) /\ ~(Crew!Parked(r) /\ ~runs[r].halt) /\ UNCHANGED lane
  BY DEF Crew!Recover
<1>3. CASE Crew!Live(r) /\ Crew!Enter(r, "recover", "lookup", 0)
  <2>1. PICK held : InLane(r, held, "recover", "lookup")
    BY <1>3, EnterLane DEF Crew!Holder, Crew!SubagentsAssumption
  <2>2. lane' = [lane EXCEPT ![r] = held] /\ held \in Crew!Holder
    BY <2>1 DEF InLane
  <2>3. Crew!TypeOK' /\ (\A q \in Crew!Rows \ {r} : Unmoved(q))
    BY <1>1, <2>2 DEF Crew!TypeOK, Unmoved
  <2>4. PiAt(r)'
    BY <1>1, <1>3, <2>1 DEF InLane, At, PiAt
  <2>5. RowAt(r)'
    BY <1>1, <1>3, <2>1 DEF InLane, At, RowAt
  <2>6. WatchAt(r)'
    BY <1>1, <1>3, <2>1 DEF InLane, At, WatchAt, Steering, Ended
  <2>7. LaneAt(r)'
    BY <1>1, <1>3, <2>1 DEF InLane, At, LaneAt, Steering
  <2>8. OwnedAt(r)' /\ Emptied(r)'
    BY <1>1, <1>3, <2>1 DEF InLane, At, OwnedAt, Emptied, Steering
  <2>9. Modest(r)
    BY <1>1, <1>3, <2>1 DEF At, Modest, Holding, Crew!Busy
  <2> QED BY <2>3, <2>4, <2>5, <2>6, <2>7, <2>8, <2>9 DEF At, Sound
<1>4. CASE ~Crew!Live(r) /\ Crew!Parked(r) /\ ~runs[r].halt /\ Crew!Enter(r, "reattach", "lookup", 0)
  <2>1. PICK held : InLane(r, held, "reattach", "lookup")
    BY <1>4, EnterLane DEF Crew!Holder, Crew!SubagentsAssumption
  <2>2. lane' = [lane EXCEPT ![r] = held] /\ held \in Crew!Holder
    BY <2>1 DEF InLane
  <2>3. Crew!TypeOK' /\ (\A q \in Crew!Rows \ {r} : Unmoved(q))
    BY <1>1, <2>2 DEF Crew!TypeOK, Unmoved
  <2>4. PiAt(r)'
    BY <1>1, <1>4, <2>1 DEF InLane, At, PiAt
  <2>5. RowAt(r)'
    BY <1>1, <1>4, <2>1 DEF InLane, At, RowAt
  <2>6. WatchAt(r)'
    BY <1>1, <1>4, <2>1 DEF InLane, At, WatchAt, Steering, Ended
  <2>7. LaneAt(r)'
    BY <1>1, <1>4, <2>1 DEF InLane, At, LaneAt, Steering
  <2>8. OwnedAt(r)' /\ Emptied(r)'
    BY <1>1, <1>4, <2>1 DEF At, OwnedAt, Emptied
  <2>9. Modest(r)
    BY <1>1, <1>4, <2>1 DEF At, Modest, Holding, Crew!Busy
  <2> QED BY <2>3, <2>4, <2>5, <2>6, <2>7, <2>8, <2>9 DEF At, Sound
<1>5. CASE ~Crew!Live(r) /\ ~(Crew!Parked(r) /\ ~runs[r].halt) /\ UNCHANGED lane
  <2>1. Crew!TypeOK' /\ (\A q \in Crew!Rows \ {r} : Unmoved(q))
    BY <1>1, <1>5 DEF Crew!TypeOK, Unmoved
  <2>2. PiAt(r)'
    BY <1>1, <1>5 DEF Typed, At, PiAt
  <2>3. RowAt(r)'
    BY <1>1, <1>5 DEF Typed, At, RowAt
  <2>4. WatchAt(r)'
    BY <1>1, <1>5 DEF At, WatchAt, Steering, Ended
  <2>5. LaneAt(r)'
    BY <1>1, <1>5 DEF At, LaneAt, Ended
  <2>6. OwnedAt(r)' /\ Emptied(r)'
    BY <1>1, <1>5 DEF At, OwnedAt, Emptied
  <2>7. Modest(r)
    BY <1>1, <1>5 DEF At, Modest, Holding, Crew!Busy
  <2> QED BY <2>1, <2>2, <2>3, <2>4, <2>5, <2>6, <2>7 DEF At, Sound
<1> QED BY <1>2, <1>3, <1>4, <1>5

LEMMA LookedUpHolds ==
  ASSUME Crew!SubagentsAssumption, Crew!TypeOK, NEW r \in Crew!Rows, At(r), Crew!LookedUp(r)
  PROVE  Sound(r)
<1>1. /\ lane[r] # None /\ lane[r].op = "recover" /\ lane[r].at = "lookup" /\ Typed(r)
      /\ UNCHANGED <<runs, pi, mode, boot, inflight, given, Crew!history, news>>
  BY RowTyped DEF Crew!LookedUp, Crew!Holds
<1>2. PICK run \in Crew!Run : runs[r] = run
  BY <1>1 DEF Typed, At, LaneAt
<1>3. \/ ~Crew!Live(r) /\ Crew!Leave(r) /\ UNCHANGED <<watch, ready, pending, troubles>>
      \/ /\ Crew!Live(r) /\ ~run.intent /\ pi[r].out # None /\ pi[r].out.rev = run.rev
         /\ Crew!Leave(r) /\ ready' = [ready EXCEPT ![r] = @ \cup {run.rev}] /\ UNCHANGED <<watch, pending, troubles>>
      \/ /\ Crew!Live(r) /\ ~run.intent /\ run.sub # 0
         /\ Crew!Leave(r) /\ Crew!Watch(r, run.rev) /\ UNCHANGED <<ready, pending, troubles>>
      \/ /\ Crew!Live(r) /\ Crew!To(r, "claim") /\ UNCHANGED <<watch, ready, pending, troubles>>
      \/ Crew!Fault /\ Crew!Leave(r) /\ Crew!Owe(r) /\ UNCHANGED <<watch, ready>>
  <2>1. CASE Crew!Fault /\ Crew!Leave(r) /\ Crew!Owe(r) /\ UNCHANGED <<watch, ready>>
    BY <2>1
  <2>2. CASE ~Crew!Live(r) /\ UNCHANGED <<pending, troubles>>
    BY <2>2 DEF Crew!LookedUp
  <2>3. CASE /\ Crew!Live(r) /\ ~run.intent /\ pi[r].out # None /\ pi[r].out.rev = run.rev /\ UNCHANGED <<pending, troubles>>
    BY <1>2, <2>3 DEF Crew!LookedUp
  <2>4. CASE /\ Crew!Live(r) /\ ~run.intent /\ run.sub # 0 /\ ~(pi[r].out # None /\ pi[r].out.rev = run.rev)
             /\ UNCHANGED <<pending, troubles>>
    BY <1>2, <2>4 DEF Crew!LookedUp
  <2>5. CASE /\ Crew!Live(r) /\ ~(~run.intent /\ pi[r].out # None /\ pi[r].out.rev = run.rev)
             /\ ~(~run.intent /\ run.sub # 0 /\ ~(pi[r].out # None /\ pi[r].out.rev = run.rev))
             /\ UNCHANGED <<pending, troubles>>
    BY <1>2, <2>5 DEF Crew!LookedUp
  <2> QED BY <2>1, <2>2, <2>3, <2>4, <2>5 DEF Crew!LookedUp
<1>4. Crew!Leave(r) => lane' = [lane EXCEPT ![r] = None] /\ lane'[r] = None
  BY DEF Crew!Leave, Crew!TypeOK
<1>5. pi[r].placed > 0 => run.rev \in 1 .. MaxRev
  BY <1>1, <1>2 DEF At, RowAt, Typed, Crew!Run, Crew!Agent, Crew!SubagentsAssumption
<1>6. CASE ~Crew!Live(r) /\ Crew!Leave(r) /\ UNCHANGED <<watch, ready, pending, troubles>>
  <2>1. Crew!TypeOK' /\ (\A q \in Crew!Rows \ {r} : Unmoved(q))
    BY <1>1, <1>4, <1>6 DEF Crew!TypeOK, Unmoved
  <2>2. PiAt(r)'
    BY <1>1, <1>2, <1>4, <1>6 DEF Typed, At, PiAt
  <2>3. RowAt(r)'
    BY <1>1, <1>2, <1>4, <1>6 DEF Typed, At, RowAt
  <2>4. WatchAt(r)'
    BY <1>1, <1>2, <1>4, <1>6 DEF At, WatchAt, Steering, Ended
  <2>5. LaneAt(r)'
    BY <1>1, <1>2, <1>4, <1>6 DEF At, LaneAt, Ended
  <2>6. OwnedAt(r)' /\ Emptied(r)'
    BY <1>1, <1>2, <1>4, <1>6 DEF At, OwnedAt, Emptied
  <2>7. Modest(r)
    BY <1>1, <1>2, <1>4, <1>6 DEF At, Modest, Holding, Crew!Busy
  <2> QED BY <2>1, <2>2, <2>3, <2>4, <2>5, <2>6, <2>7 DEF At, Sound
<1>7. CASE /\ Crew!Live(r) /\ ~run.intent /\ pi[r].out # None /\ pi[r].out.rev = run.rev
           /\ Crew!Leave(r) /\ ready' = [ready EXCEPT ![r] = @ \cup {run.rev}] /\ UNCHANGED <<watch, pending, troubles>>
  <2>1. run.rev \in 1 .. MaxRev /\ run.rev <= run.rev /\ pi[r].work \in {"idle", "gen"}
    BY <1>1, <1>2, <1>5, <1>7 DEF At, PiAt, Typed, Crew!Agent
  <2>2. PICK next \in SUBSET (1 .. MaxRev) : next = ready[r] \cup {run.rev}
    BY <1>1, <2>1 DEF Typed
  <2>3. ready' = [ready EXCEPT ![r] = next] /\ ready'[r] = next
    BY <1>7, <2>2 DEF Crew!TypeOK
  <2>4. Crew!TypeOK' /\ (\A q \in Crew!Rows \ {r} : Unmoved(q))
    BY <1>1, <1>4, <1>7, <2>3 DEF Crew!TypeOK, Unmoved
  <2>5. PiAt(r)'
    BY <1>1, <1>2, <1>4, <1>7, <2>1, <2>2, <2>3 DEF Typed, At, PiAt
  <2>6. RowAt(r)'
    BY <1>1, <1>2, <1>4, <1>7, <2>1, <2>2, <2>3 DEF Typed, At, RowAt
  <2>7. WatchAt(r)'
    BY <1>1, <1>2, <1>4, <1>7, <2>1, <2>2, <2>3 DEF At, WatchAt, Steering, Ended
  <2>8. LaneAt(r)'
    BY <1>1, <1>2, <1>4, <1>7, <2>1, <2>2, <2>3 DEF At, LaneAt, Ended
  <2>9. OwnedAt(r)' /\ Emptied(r)'
    BY <1>1, <1>2, <1>4, <1>7, <2>1, <2>2, <2>3 DEF At, OwnedAt, Emptied, Steering
  <2>10. Modest(r)
    BY <1>1, <1>2, <1>4, <1>7, <2>1, <2>2, <2>3 DEF At, Modest, Holding, Crew!Busy
  <2> QED BY <2>4, <2>5, <2>6, <2>7, <2>8, <2>9, <2>10 DEF At, Sound
<1>8. CASE /\ Crew!Live(r) /\ ~run.intent /\ run.sub # 0
           /\ Crew!Leave(r) /\ Crew!Watch(r, run.rev) /\ UNCHANGED <<ready, pending, troubles>>
  <2>1. run.rev \in 1 .. MaxRev /\ run.rev <= run.rev
    BY <1>1, <1>2, <1>5, <1>8 DEF At, RowAt, Typed, Crew!Run, Crew!Agent
  <2>2. PICK seen \in SUBSET (1 .. MaxRev) : seen = watch[r] \cup {run.rev}
    BY <1>1, <2>1 DEF Typed
  <2>3. watch' = [watch EXCEPT ![r] = seen] /\ watch'[r] = seen
    BY <1>8, <2>2 DEF Crew!TypeOK, Crew!Watch
  <2>4. Crew!TypeOK' /\ (\A q \in Crew!Rows \ {r} : Unmoved(q))
    BY <1>1, <1>4, <1>8, <2>3 DEF Crew!TypeOK, Unmoved
  <2>5. PiAt(r)'
    BY <1>1, <1>2, <1>4, <1>8, <2>1, <2>2, <2>3 DEF Typed, At, PiAt
  <2>6. RowAt(r)'
    BY <1>1, <1>2, <1>4, <1>8, <2>1, <2>2, <2>3 DEF Typed, At, RowAt
  <2>7. WatchAt(r)'
    BY <1>1, <1>2, <1>4, <1>8, <2>1, <2>2, <2>3 DEF At, WatchAt, Steering, Ended
  <2>8. LaneAt(r)'
    BY <1>1, <1>2, <1>4, <1>8, <2>1, <2>2, <2>3 DEF At, LaneAt, Ended
  <2>9. OwnedAt(r)' /\ Emptied(r)'
    BY <1>1, <1>2, <1>4, <1>8, <2>1, <2>2, <2>3 DEF At, OwnedAt, Emptied, Steering
  <2>10. Modest(r)
    BY <1>1, <1>2, <1>4, <1>8, <2>1, <2>2, <2>3 DEF At, Modest, Holding, Crew!Busy
  <2> QED BY <2>4, <2>5, <2>6, <2>7, <2>8, <2>9, <2>10 DEF At, Sound
<1>9. CASE Crew!Live(r) /\ Crew!To(r, "claim") /\ UNCHANGED <<watch, ready, pending, troubles>>
  <2>1. PICK held : InLane(r, held, "recover", "claim")
    BY <1>1, <1>9, ToLane
  <2>2. lane' = [lane EXCEPT ![r] = held] /\ held \in Crew!Holder
    BY <2>1 DEF InLane
  <2>3. Crew!TypeOK' /\ (\A q \in Crew!Rows \ {r} : Unmoved(q))
    BY <1>1, <1>9, <2>2 DEF Crew!TypeOK, Unmoved
  <2>4. PiAt(r)'
    BY <1>1, <1>2, <1>9, <2>1 DEF InLane, At, PiAt
  <2>5. RowAt(r)'
    BY <1>1, <1>2, <1>9, <2>1 DEF InLane, At, RowAt
  <2>6. WatchAt(r)'
    BY <1>1, <1>2, <1>9, <2>1 DEF InLane, At, WatchAt, Steering, Ended
  <2>7. LaneAt(r)'
    BY <1>1, <1>2, <1>9, <2>1 DEF InLane, At, LaneAt, Steering
  <2>8. OwnedAt(r)' /\ Emptied(r)'
    BY <1>1, <1>2, <1>9, <2>1 DEF InLane, At, OwnedAt, Emptied, Steering
  <2>9. Modest(r)
    BY <1>1, <1>2, <1>9, <2>1 DEF At, Modest, Holding, Crew!Busy
  <2> QED BY <2>3, <2>4, <2>5, <2>6, <2>7, <2>8, <2>9 DEF At, Sound
<1>10. CASE Crew!Fault /\ Crew!Leave(r) /\ Crew!Owe(r) /\ UNCHANGED <<watch, ready>>
  <2>1. troubles' \in Nat /\ pending' = pending \cup {r}
    BY <1>10 DEF Crew!Fault, Crew!Owe, Crew!TypeOK
  <2>2. Crew!TypeOK' /\ (\A q \in Crew!Rows \ {r} : Unmoved(q))
    BY <1>1, <1>4, <1>10, <2>1 DEF Crew!TypeOK, Unmoved
  <2>3. PiAt(r)'
    BY <1>1, <1>2, <1>4, <1>10, <2>1 DEF Typed, At, PiAt
  <2>4. RowAt(r)'
    BY <1>1, <1>2, <1>4, <1>10, <2>1 DEF Typed, At, RowAt
  <2>5. WatchAt(r)'
    BY <1>1, <1>2, <1>4, <1>10, <2>1 DEF At, WatchAt, Steering, Ended
  <2>6. LaneAt(r)'
    BY <1>1, <1>2, <1>4, <1>10, <2>1 DEF At, LaneAt, Ended
  <2>7. OwnedAt(r)' /\ Emptied(r)'
    BY <1>1, <1>2, <1>4, <1>10, <2>1 DEF At, OwnedAt, Emptied
  <2>8. Modest(r)
    BY <1>1, <1>2, <1>4, <1>10, <2>1 DEF At, Modest, Holding, Crew!Busy
  <2> QED BY <2>2, <2>3, <2>4, <2>5, <2>6, <2>7, <2>8 DEF At, Sound
<1> QED BY <1>3, <1>6, <1>7, <1>8, <1>9, <1>10

LEMMA ReattachedHolds ==
  ASSUME Crew!SubagentsAssumption, Crew!TypeOK, NEW r \in Crew!Rows, At(r), Crew!Reattached(r)
  PROVE  Sound(r)
<1>1. /\ lane[r] # None /\ lane[r].op = "reattach" /\ lane[r].at = "lookup" /\ Typed(r)
      /\ lane' = [lane EXCEPT ![r] = None] /\ lane'[r] = None
      /\ UNCHANGED <<runs, pi, ready, mode, boot, inflight, given, Crew!history, news>>
  BY RowTyped DEF Crew!Reattached, Crew!Holds, Crew!Leave, Crew!TypeOK
<1>2. PICK run \in Crew!Run : runs[r] = run
  BY <1>1 DEF Typed, At, LaneAt
<1>3. CASE run.sub # 0 /\ Crew!Watch(r, run.rev) /\ UNCHANGED <<pending, troubles>>
  <2>1. run.rev \in 1 .. MaxRev /\ run.rev <= run.rev
    BY <1>1, <1>2, <1>3 DEF At, RowAt, Typed, Crew!Run, Crew!Agent, Crew!SubagentsAssumption
  <2>2. PICK seen \in SUBSET (1 .. MaxRev) : seen = watch[r] \cup {run.rev}
    BY <1>1, <2>1 DEF Typed
  <2>3. watch' = [watch EXCEPT ![r] = seen] /\ watch'[r] = seen
    BY <1>3, <2>2 DEF Crew!TypeOK, Crew!Watch
  <2>4. Crew!TypeOK' /\ (\A q \in Crew!Rows \ {r} : Unmoved(q))
    BY <1>1, <1>3, <2>3 DEF Crew!TypeOK, Unmoved
  <2>5. PiAt(r)'
    BY <1>1, <1>2, <1>3, <2>1, <2>2, <2>3 DEF Typed, At, PiAt
  <2>6. RowAt(r)'
    BY <1>1, <1>2, <1>3, <2>1, <2>2, <2>3 DEF Typed, At, RowAt
  <2>7. WatchAt(r)'
    BY <1>1, <1>2, <1>3, <2>1, <2>2, <2>3 DEF At, WatchAt, LaneAt, Steering, Ended
  <2>8. LaneAt(r)'
    BY <1>1, <1>2, <1>3, <2>1, <2>2, <2>3 DEF At, LaneAt, Ended
  <2>9. OwnedAt(r)' /\ Emptied(r)'
    BY <1>1, <1>2, <1>3, <2>1, <2>2, <2>3 DEF At, LaneAt, OwnedAt, Emptied
  <2>10. Modest(r)
    BY <1>1, <1>2, <1>3, <2>1, <2>2, <2>3 DEF At, Modest, Holding, Crew!Busy
  <2> QED BY <2>4, <2>5, <2>6, <2>7, <2>8, <2>9, <2>10 DEF At, Sound
<1>4. CASE troubles' \in Nat /\ Crew!Owe(r) /\ UNCHANGED watch
  <2>1. pending' = pending \cup {r}
    BY <1>4 DEF Crew!Owe
  <2>2. Crew!TypeOK' /\ (\A q \in Crew!Rows \ {r} : Unmoved(q))
    BY <1>1, <1>4, <2>1 DEF Crew!TypeOK, Unmoved
  <2>3. PiAt(r)'
    BY <1>1, <1>2, <1>4, <2>1 DEF Typed, At, PiAt
  <2>4. RowAt(r)'
    BY <1>1, <1>2, <1>4, <2>1 DEF Typed, At, RowAt
  <2>5. WatchAt(r)'
    BY <1>1, <1>2, <1>4, <2>1 DEF At, WatchAt, Steering, Ended
  <2>6. LaneAt(r)'
    BY <1>1, <1>2, <1>4, <2>1 DEF At, LaneAt, Ended
  <2>7. OwnedAt(r)' /\ Emptied(r)'
    BY <1>1, <1>2, <1>4, <2>1 DEF At, OwnedAt, Emptied
  <2>8. Modest(r)
    BY <1>1, <1>2, <1>4, <2>1 DEF At, Modest, Holding, Crew!Busy
  <2> QED BY <2>2, <2>3, <2>4, <2>5, <2>6, <2>7, <2>8 DEF At, Sound
<1>5. Crew!Owe(r) /\ UNCHANGED watch /\ (Crew!Fault \/ UNCHANGED troubles) => troubles' \in Nat
  BY DEF Crew!Fault, Crew!TypeOK
<1> QED BY <1>2, <1>3, <1>4, <1>5 DEF Crew!Reattached

LEMMA ExhaustHolds ==
  ASSUME Crew!SubagentsAssumption, Crew!TypeOK, NEW r \in Crew!Rows, At(r), Crew!Exhaust(r)
  PROVE  Sound(r)
<1>1. /\ lane[r] = None /\ Typed(r) /\ pending' = pending \ {r} /\ troubles' \in Nat /\ runs[r] # None
      /\ UNCHANGED <<runs, pi, watch, ready, mode, boot, inflight, given, Crew!history, news>>
  BY RowTyped DEF Crew!Exhaust, Crew!Enter, Crew!Fault, Crew!TypeOK
<1>2. PICK held : InLane(r, held, "exhaust", "abort")
  BY EnterLane DEF Crew!Exhaust, Crew!Holder, Crew!SubagentsAssumption
<1>3. lane' = [lane EXCEPT ![r] = held] /\ held \in Crew!Holder
  BY <1>2 DEF InLane
<1>4. Crew!TypeOK' /\ (\A q \in Crew!Rows \ {r} : Unmoved(q))
  BY <1>1, <1>3 DEF Crew!TypeOK, Unmoved
<1>5. PiAt(r)'
  BY <1>1, <1>2 DEF InLane, At, PiAt
<1>6. RowAt(r)'
  BY <1>1, <1>2 DEF InLane, At, RowAt
<1>7. WatchAt(r)'
  BY <1>1, <1>2 DEF InLane, At, WatchAt, Steering, Ended
<1>8. LaneAt(r)'
  BY <1>1, <1>2 DEF InLane, At, LaneAt, Steering
<1>9. OwnedAt(r)' /\ Emptied(r)'
  BY <1>1, <1>2 DEF InLane, At, OwnedAt, Emptied, Steering
<1>10. Modest(r)
  BY <1>1, <1>2 DEF At, Modest, Holding, Crew!Busy
<1> QED BY <1>4, <1>5, <1>6, <1>7, <1>8, <1>9, <1>10 DEF At, Sound

LEMMA ExhaustedHolds ==
  ASSUME Crew!SubagentsAssumption, Crew!TypeOK, NEW r \in Crew!Rows, At(r), Crew!Exhausted(r)
  PROVE  Sound(r)
<1>1. /\ lane[r] # None /\ lane[r].op = "exhaust" /\ lane[r].at = "abort" /\ Typed(r)
      /\ lane' = [lane EXCEPT ![r] = None] /\ lane'[r] = None
      /\ UNCHANGED <<watch, ready, mode, boot, inflight, Crew!history>>
  BY RowTyped DEF Crew!Exhausted, Crew!Holds, Crew!Leave, Crew!TypeOK
<1>2. PICK run \in Crew!Run : runs[r] = run
  BY <1>1 DEF Typed, At, LaneAt
<1>3. ASSUME Crew!Cancel(r)
      PROVE  /\ given' = given \ {r}
             /\ \E p \in Crew!Agent : /\ pi' = [pi EXCEPT ![r] = p] /\ pi'[r] = p /\ p.work = "idle" /\ p.subs = {}
                                 /\ p.placed = pi[r].placed /\ p.bound = pi[r].bound /\ p.out = pi[r].out
  BY <1>3, QuietRow DEF Crew!Cancel
<1>4. ASSUME Crew!Cancel(r), UNCHANGED pending, ~run.halt,
             run.status \in {"running", "needs_input", "queued"},
             Crew!Tell(r, [runs[r] EXCEPT !.status = "failed", !.park = None])
      PROVE  Sound(r)
  <2>1. PICK mine : mine = [run EXCEPT !.status = "failed", !.park = None]
    OBVIOUS
  <2>2. mine \in Crew!Run /\ mine.status = "failed" /\ mine.park = None /\ mine.halt = run.halt /\ SameInput(mine, run)
    BY <1>2, <2>1 DEF Crew!Run, SameInput
  <2>3. PICK new \in Crew!Run :
          /\ runs' = [runs EXCEPT ![r] = new] /\ new.status = mine.status /\ new.halt = mine.halt
          /\ new.park = mine.park /\ SameInput(new, mine) /\ (new.owed \/ news'[r] = new.status)
          /\ news' \in [Crew!Rows -> Crew!Statuses \cup {None}] /\ (\A q \in Crew!Rows \ {r} : news'[q] = news[q])
          /\ troubles' \in Nat
    BY <1>2, <1>4, <2>1, <2>2, ToldRow
  <2>4. runs'[r] = new
    BY <2>3 DEF Crew!TypeOK
  <2>5. PICK p \in Crew!Agent : /\ pi' = [pi EXCEPT ![r] = p] /\ pi'[r] = p /\ p.work = "idle" /\ p.subs = {}
                           /\ p.placed = pi[r].placed /\ p.bound = pi[r].bound /\ p.out = pi[r].out
    BY <1>3, <1>4
  <2>6. Crew!TypeOK' /\ (\A q \in Crew!Rows \ {r} : Unmoved(q))
    BY <1>1, <1>3, <1>4, <2>3, <2>5 DEF Crew!TypeOK, Unmoved
  <2>7. PiAt(r)'
    BY <1>1, <1>2, <1>3, <1>4, <2>2, <2>3, <2>4, <2>5 DEF At, PiAt, Crew!SubagentsAssumption
  <2>8. RowAt(r)'
    BY <1>1, <1>2, <1>3, <1>4, <2>2, <2>3, <2>4, <2>5 DEF SameInput, At, RowAt, LaneAt
  <2>9. WatchAt(r)'
    BY <1>1, <1>2, <1>3, <1>4, <2>2, <2>3, <2>4, <2>5 DEF SameInput, At, WatchAt, Steering,
       Crew!SubagentsAssumption
  <2>10. LaneAt(r)'
    BY <1>1, <1>2, <1>3, <1>4, <2>2, <2>3, <2>4, <2>5 DEF At, LaneAt, Ended
  <2>11. OwnedAt(r)' /\ Emptied(r)'
    BY <1>1, <1>2, <1>3, <1>4, <2>2, <2>3, <2>4, <2>5 DEF At, OwnedAt, Emptied,
       Crew!SubagentsAssumption
  <2>12. Modest(r)
    BY <1>1, <1>2, <1>3, <1>4, <2>2, <2>3, <2>4, <2>5 DEF At, Modest, Holding, Crew!Busy,
       Crew!SubagentsAssumption
  <2> QED BY <2>6, <2>7, <2>8, <2>9, <2>10, <2>11, <2>12 DEF At, Sound
<1>5. ASSUME Crew!Cancel(r), UNCHANGED pending,
             ~(Crew!Live(r) \/ (Crew!Parked(r) /\ ~runs[r].halt)), Crew!Same, UNCHANGED troubles
      PROVE  Sound(r)
  <2>1. PICK p \in Crew!Agent : /\ pi' = [pi EXCEPT ![r] = p] /\ pi'[r] = p /\ p.work = "idle" /\ p.subs = {}
                           /\ p.placed = pi[r].placed /\ p.bound = pi[r].bound /\ p.out = pi[r].out
    BY <1>3, <1>5
  <2>2. run.park # None => run.halt
    BY <1>1, <1>2, <1>5 DEF At, RowAt, Crew!Run, Crew!SubagentsAssumption
  <2>3. Crew!TypeOK' /\ (\A q \in Crew!Rows \ {r} : Unmoved(q))
    BY <1>1, <1>3, <1>5, <2>1 DEF Crew!TypeOK, Unmoved
  <2>4. PiAt(r)'
    BY <1>1, <1>2, <1>3, <1>5, <2>1, <2>2 DEF Typed, At, PiAt
  <2>5. RowAt(r)'
    BY <1>1, <1>2, <1>3, <1>5, <2>1, <2>2 DEF Typed, At, RowAt
  <2>6. WatchAt(r)'
    BY <1>1, <1>2, <1>3, <1>5, <2>1, <2>2 DEF At, WatchAt, Steering, Ended
  <2>7. LaneAt(r)'
    BY <1>1, <1>2, <1>3, <1>5, <2>1, <2>2 DEF At, LaneAt, Ended
  <2>8. OwnedAt(r)' /\ Emptied(r)'
    BY <1>1, <1>2, <1>3, <1>5, <2>1, <2>2 DEF At, OwnedAt, Emptied
  <2>9. Modest(r)
    BY <1>1, <1>2, <1>3, <1>5, <2>1, <2>2 DEF At, Modest, Holding, Crew!Busy
  <2> QED BY <2>3, <2>4, <2>5, <2>6, <2>7, <2>8, <2>9 DEF At, Sound
<1>6. ASSUME Crew!Fault, Crew!Owe(r), Crew!Same, UNCHANGED <<pi, given>>
      PROVE  Sound(r)
  <2>1. troubles' \in Nat /\ pending' = pending \cup {r}
    BY <1>6 DEF Crew!Fault, Crew!Owe, Crew!TypeOK
  <2>2. Crew!TypeOK' /\ (\A q \in Crew!Rows \ {r} : Unmoved(q))
    BY <1>1, <1>6, <2>1 DEF Crew!TypeOK, Unmoved
  <2>3. PiAt(r)'
    BY <1>1, <1>2, <1>6, <2>1 DEF Typed, At, PiAt
  <2>4. RowAt(r)'
    BY <1>1, <1>2, <1>6, <2>1 DEF Typed, At, RowAt
  <2>5. WatchAt(r)'
    BY <1>1, <1>2, <1>6, <2>1 DEF At, WatchAt, Steering, Ended
  <2>6. LaneAt(r)'
    BY <1>1, <1>2, <1>6, <2>1 DEF At, LaneAt, Ended
  <2>7. OwnedAt(r)' /\ Emptied(r)'
    BY <1>1, <1>2, <1>6, <2>1 DEF At, OwnedAt, Emptied
  <2>8. Modest(r)
    BY <1>1, <1>2, <1>6, <2>1 DEF At, Modest, Holding, Crew!Busy
  <2> QED BY <2>2, <2>3, <2>4, <2>5, <2>6, <2>7, <2>8 DEF At, Sound
<1> QED BY <1>2, <1>4, <1>5, <1>6 DEF Crew!Exhausted, Crew!SubagentsAssumption

LEMMA WorkRow ==
  ASSUME Crew!TypeOK, NEW r \in Crew!Rows, NEW work \in {"idle", "gen", "tool", "gate", "replay"},
         Crew!Work(r, work)
  PROVE  \E p : Changed(r, p, work, pi[r].subs, pi[r].bound, pi[r].out)
<1>1. PICK was \in Crew!Agent : pi[r] = was
  BY DEF Crew!TypeOK
<1>2. PICK p : p = [was EXCEPT !.work = work]
  OBVIOUS
<1>3. /\ p \in Crew!Agent /\ p.work = work /\ p.subs = was.subs /\ p.placed = was.placed /\ p.bound = was.bound
      /\ p.out = was.out
  BY <1>2 DEF Crew!Agent
<1>4. pi' = [pi EXCEPT ![r] = p] /\ pi'[r] = p
  BY <1>1, <1>2 DEF Crew!Work, Crew!TypeOK
<1> QED BY <1>1, <1>3, <1>4 DEF Changed

\* Pi has taken in all that was placed, or nothing new.
LEMMA ConsumedIs ==
  ASSUME Crew!TypeOK, NEW r \in Crew!Rows, PiAt(r)
  PROVE  Crew!Consumed(r) = IF pi[r].subs = {} THEN pi[r].bound ELSE pi[r].placed
<1> DEFINE whole == pi[r].subs \cup {pi[r].bound}
<1>1. pi[r].bound \in Nat /\ pi[r].placed \in Nat /\ pi[r].subs \subseteq Nat
  BY DEF Crew!TypeOK, Crew!Agent
<1>2. PICK c \in Nat : c = IF pi[r].subs = {} THEN pi[r].bound ELSE pi[r].placed
  BY <1>1
<1>3. c \in whole /\ \A n \in whole : n <= c
  BY <1>1, <1>2 DEF PiAt
<1>4. ASSUME NEW m \in whole, \A n \in whole : n <= m
      PROVE  m = c
  BY <1>1, <1>3, <1>4
<1>5. Crew!Consumed(r) = CHOOSE m \in whole : \A n \in whole : n <= m
  BY DEF Crew!Consumed
<1> HIDE DEF whole
<1>6. (CHOOSE m \in whole : \A n \in whole : n <= m) = c
  BY <1>3, <1>4
<1> QED BY <1>2, <1>5, <1>6

LEMMA RequestHolds ==
  ASSUME Crew!SubagentsAssumption, Crew!TypeOK, NEW r \in Crew!Rows, At(r), Crew!Request(r)
  PROVE  Sound(r)
<1>1. /\ Typed(r) /\ runs[r] # None /\ (pi[r].work = "gen" \/ (pi[r].work = "idle" /\ pi[r].subs # {}))
      /\ UNCHANGED <<runs, Crew!process, Crew!history, troubles, news>>
  BY RowTyped DEF Crew!Request, Crew!Runs
<1>2. PICK was \in Crew!Agent : pi[r] = was
  BY <1>1 DEF Typed
<1>3. PICK bound \in Nat : bound = IF was.subs = {} THEN was.bound ELSE was.placed
  BY <1>2 DEF Crew!Agent
<1>4. Crew!Consumed(r) = bound
  BY <1>2, <1>3, ConsumedIs DEF At
<1>5. PICK outcome : /\ outcome = Crew!Rest(r) /\ (outcome = None \/ outcome = was.out)
                     /\ outcome # None => was.out # None /\ was.out.rev = bound
                     /\ was.out # None /\ was.out.rev = bound => outcome = was.out
  BY <1>2, <1>4 DEF Crew!Rest
<1>6. PICK work \in {"idle", "gen"} :
         pi' = [pi EXCEPT ![r].work = work, ![r].subs = {}, ![r].bound = Crew!Consumed(r), ![r].out = Crew!Rest(r)]
  BY DEF Crew!Request
<1>7. PICK p : p = [was EXCEPT !.work = work, !.subs = {}, !.bound = bound, !.out = outcome]
  OBVIOUS
<1>8. /\ p \in Crew!Agent /\ p.work = work /\ p.subs = {} /\ p.placed = was.placed /\ p.bound = bound /\ p.out = outcome
  BY <1>5, <1>7 DEF Crew!Agent
<1>9. pi' = [pi EXCEPT ![r] = p] /\ pi'[r] = p
  BY <1>2, <1>4, <1>5, <1>6, <1>7 DEF Crew!TypeOK
<1>10. was.placed > 0 /\ bound <= was.placed
  BY <1>1, <1>2, <1>3, PiEmpty DEF At, PiAt, Crew!Agent
<1>11. was.out # None => answers[r] = was.bound /\ was.out.rev = was.bound
  BY <1>2 DEF At, PiAt
<1>12. ASSUME was.out # None, was.placed <= was.out.rev
       PROVE  outcome = was.out
  <2>1. was.subs = {}
    <3>1. \A n \in was.subs : was.bound < n /\ n <= was.placed
      BY <1>2 DEF At, PiAt
    <3>2. was.subs \subseteq Nat /\ was.placed \in Nat /\ was.bound \in Nat
      BY DEF Crew!Agent
    <3> QED BY <1>11, <1>12, <3>1, <3>2
  <2> QED BY <1>3, <1>5, <1>11, <1>12, <2>1
<1>13. Crew!TypeOK' /\ (\A q \in Crew!Rows \ {r} : Unmoved(q))
  BY <1>1, <1>8, <1>9 DEF Crew!TypeOK, Unmoved
<1>14. PiAt(r)'
  BY <1>1, <1>2, <1>5, <1>8, <1>9, <1>10, <1>11, <1>12 DEF Typed, At, PiAt
<1>15. RowAt(r)'
  BY <1>1, <1>2, <1>5, <1>8, <1>9, <1>10, <1>11, <1>12 DEF Typed, At, RowAt
<1>16. WatchAt(r)'
  BY <1>1, <1>2, <1>5, <1>8, <1>9, <1>10, <1>11, <1>12 DEF At, WatchAt, Steering, Ended
<1>17. LaneAt(r)'
  BY <1>1, <1>2, <1>5, <1>8, <1>9, <1>10, <1>11, <1>12 DEF At, RowAt, LaneAt, Steering, Ended
<1>18. OwnedAt(r)' /\ Emptied(r)'
  BY <1>1, <1>2, <1>5, <1>8, <1>9, <1>10, <1>11, <1>12 DEF At, OwnedAt, Emptied, Steering
<1>19. Modest(r)
  BY <1>1, <1>2, <1>5, <1>8, <1>9, <1>10, <1>11, <1>12 DEF At, Modest, Holding, Crew!Busy
<1> QED BY <1>13, <1>14, <1>15, <1>16, <1>17, <1>18, <1>19 DEF At, Sound

LEMMA NudgeHolds ==
  ASSUME Crew!SubagentsAssumption, Crew!TypeOK, NEW r \in Crew!Rows, At(r), Crew!Nudge(r)
  PROVE  Sound(r)
<1>1. PICK run \in Crew!Run : runs[r] = run
  BY RowTyped DEF Crew!Nudge, Typed
<1>2. /\ pi[r].work = "gen" /\ lane[r] = None /\ run.status = "running" /\ ~run.halt /\ pending' = pending \cup {r}
      /\ troubles' \in Nat /\ Typed(r) /\ UNCHANGED <<watch, ready, lane, mode, boot, inflight, given, Crew!history, news>>
  BY <1>1, RowTyped DEF Crew!Nudge, Crew!Fault, Crew!Owe, Crew!TypeOK
<1>3. PICK p : Changed(r, p, "idle", pi[r].subs, pi[r].bound, pi[r].out)
  BY WorkRow DEF Crew!Nudge, Crew!Work
<1>4. pi' = [pi EXCEPT ![r] = p] /\ p \in Crew!Agent
  BY <1>3 DEF Changed
<1>5. pi[r].placed > 0 /\ run.park = None
  BY <1>1, <1>2, PiEmpty DEF At, RowAt, Typed, Crew!Agent, Crew!SubagentsAssumption
<1>6. CASE ~run.intent /\ run.rev < MaxRev /\ runs' = [runs EXCEPT ![r].rev = @ + 1, ![r].intent = TRUE]
  <2>1. PICK rev \in 0 .. MaxRev : rev = run.rev + 1
    BY <1>1, <1>6 DEF Crew!Run, Crew!SubagentsAssumption
  <2>2. PICK new : new = [run EXCEPT !.rev = rev, !.intent = TRUE]
    OBVIOUS
  <2>3. /\ new \in Crew!Run /\ new.rev = rev /\ new.intent /\ new.status = run.status /\ new.halt = run.halt
        /\ new.conv = run.conv /\ new.sub = run.sub /\ new.park = run.park /\ new.owed = run.owed
    BY <1>1, <2>1, <2>2 DEF Crew!Run, Crew!SubagentsAssumption
  <2>4. runs' = [runs EXCEPT ![r] = new] /\ runs'[r] = new
    BY <1>1, <1>6, <2>1, <2>2 DEF Crew!TypeOK
  <2>5. pi[r].placed <= rev /\ rev > 0 /\ \A v \in watch[r] \cup ready[r] : v <= rev /\ v # rev
    <3>1. pi[r].placed <= run.rev /\ \A v \in watch[r] \cup ready[r] : v <= run.rev
      BY <1>1 DEF At, RowAt, WatchAt, Crew!SubagentsAssumption
    <3>2. watch[r] \cup ready[r] \subseteq Nat /\ pi[r].placed \in Nat /\ run.rev \in Nat
      BY <1>2 DEF Typed, Crew!Run, Crew!Agent
    <3> QED BY <2>1, <3>1, <3>2
  <2>6. Crew!TypeOK' /\ (\A q \in Crew!Rows \ {r} : Unmoved(q))
    BY <1>2, <1>4, <2>3, <2>4 DEF Crew!TypeOK, Unmoved, Changed
  <2>7. PiAt(r)'
    BY <1>1, <1>2, <1>3, <1>5, <2>3, <2>4, <2>5 DEF Changed, At, PiAt, Crew!SubagentsAssumption
  <2>8. RowAt(r)'
    BY <1>1, <1>2, <1>3, <1>5, <2>3, <2>4, <2>5 DEF Changed, At, PiAt, RowAt
  <2>9. WatchAt(r)'
    BY <1>1, <1>2, <1>3, <1>5, <2>3, <2>4, <2>5 DEF Changed, At, WatchAt, Steering, Ended,
       Crew!SubagentsAssumption
  <2>10. LaneAt(r)'
    BY <1>1, <1>2, <1>3, <1>5, <2>3, <2>4, <2>5 DEF At, LaneAt, Ended
  <2>11. OwnedAt(r)' /\ Emptied(r)'
    BY <1>1, <1>2, <1>3, <1>5, <2>3, <2>4, <2>5 DEF At, OwnedAt, Emptied
  <2>12. Modest(r)
    BY <1>1, <1>2, <1>3, <1>5, <2>3, <2>4, <2>5 DEF At, Modest, Holding, Crew!Busy,
       Crew!SubagentsAssumption
  <2> QED BY <2>6, <2>7, <2>8, <2>9, <2>10, <2>11, <2>12 DEF At, Sound
<1>7. CASE UNCHANGED runs
  <2>1. Crew!TypeOK' /\ (\A q \in Crew!Rows \ {r} : Unmoved(q))
    BY <1>2, <1>4, <1>7 DEF Crew!TypeOK, Unmoved, Changed
  <2>2. PiAt(r)'
    BY <1>1, <1>2, <1>3, <1>5, <1>7 DEF Changed, At, PiAt
  <2>3. RowAt(r)'
    BY <1>1, <1>2, <1>3, <1>5, <1>7 DEF Changed, At, RowAt
  <2>4. WatchAt(r)'
    BY <1>1, <1>2, <1>3, <1>5, <1>7 DEF Changed, At, WatchAt, Steering, Ended
  <2>5. LaneAt(r)'
    BY <1>1, <1>2, <1>3, <1>5, <1>7 DEF At, LaneAt, Ended
  <2>6. OwnedAt(r)' /\ Emptied(r)'
    BY <1>1, <1>2, <1>3, <1>5, <1>7 DEF At, OwnedAt, Emptied
  <2>7. Modest(r)
    BY <1>1, <1>2, <1>3, <1>5, <1>7 DEF At, Modest, Holding, Crew!Busy
  <2> QED BY <2>1, <2>2, <2>3, <2>4, <2>5, <2>6, <2>7 DEF At, Sound
<1> QED BY <1>1, <1>6, <1>7 DEF Crew!Nudge

LEMMA FinishHolds ==
  ASSUME Crew!SubagentsAssumption, Crew!TypeOK, NEW r \in Crew!Rows, At(r), Crew!Finish(r)
  PROVE  Sound(r)
<1>1. PICK run \in Crew!Run : runs[r] = run
  BY RowTyped DEF Crew!Finish, Typed
<1>2. /\ pi[r].work = "gen" /\ run.status = "running" /\ ~run.halt /\ pi[r].out = None /\ Typed(r)
      /\ answers' = [answers EXCEPT ![r] = pi[r].bound]
      /\ UNCHANGED <<runs, Crew!process, shared, crossed, revived, troubles, news>>
  BY <1>1, RowTyped DEF Crew!Finish, Crew!Record
<1>3. PICK kind \in {"done", "ask"}, work \in {"idle", "gen"} :
         pi' = [pi EXCEPT ![r].work = work, ![r].out = [rev |-> pi[r].bound, kind |-> kind]]
  BY DEF Crew!Finish
<1>4. PICK was \in Crew!Agent : pi[r] = was
  BY <1>2 DEF Typed
<1>5. PICK outcome : outcome = [rev |-> was.bound, kind |-> kind]
  OBVIOUS
<1>6. outcome \in Crew!Outcomes /\ outcome.rev = was.bound /\ outcome # None
  BY <1>5 DEF Crew!Agent, Crew!Outcomes, Crew!SubagentsAssumption
<1>7. PICK p : p = [was EXCEPT !.work = work, !.out = outcome]
  OBVIOUS
<1>8. Changed(r, p, work, was.subs, was.bound, outcome)
  <2>1. /\ p \in Crew!Agent /\ p.work = work /\ p.subs = was.subs /\ p.placed = was.placed /\ p.bound = was.bound
        /\ p.out = outcome
    BY <1>6, <1>7 DEF Crew!Agent
  <2>2. pi' = [pi EXCEPT ![r] = p] /\ pi'[r] = p
    BY <1>3, <1>4, <1>5, <1>7 DEF Crew!TypeOK
  <2> QED BY <1>4, <2>1, <2>2 DEF Changed
<1>9. pi[r].placed > 0 /\ run.park = None /\ was.bound \in Nat /\ answers'[r] = was.bound
  BY <1>1, <1>2, <1>4, PiEmpty DEF At, RowAt, Crew!Agent, Crew!TypeOK, Crew!SubagentsAssumption
<1>10. pi' = [pi EXCEPT ![r] = p] /\ p \in Crew!Agent /\ answers' = [answers EXCEPT ![r] = was.bound]
  BY <1>2, <1>4, <1>8 DEF Changed
<1>11. Crew!TypeOK' /\ (\A q \in Crew!Rows \ {r} : Unmoved(q))
  BY <1>2, <1>9, <1>10 DEF Crew!TypeOK, Unmoved
<1>12. PiAt(r)'
  BY <1>1, <1>2, <1>4, <1>6, <1>8, <1>9 DEF Changed, At, PiAt
<1>13. RowAt(r)'
  BY <1>1, <1>2, <1>4, <1>6, <1>8, <1>9 DEF Changed, At, RowAt
<1>14. WatchAt(r)'
  BY <1>1, <1>2, <1>4, <1>6, <1>8, <1>9 DEF Changed, At, WatchAt, Steering, Ended
<1>15. LaneAt(r)'
  BY <1>1, <1>2, <1>4, <1>6, <1>8, <1>9 DEF Changed, At, LaneAt, Steering, Ended
<1>16. OwnedAt(r)' /\ Emptied(r)'
  BY <1>1, <1>2, <1>4, <1>6, <1>8, <1>9 DEF At, OwnedAt, Emptied, Steering
<1>17. Modest(r)
  BY <1>1, <1>2, <1>4, <1>6, <1>8, <1>9 DEF At, Modest, Holding, Crew!Busy
<1> QED BY <1>11, <1>12, <1>13, <1>14, <1>15, <1>16, <1>17 DEF At, Sound

LEMMA GenerateHolds ==
  ASSUME Crew!SubagentsAssumption, Crew!TypeOK, NEW r \in Crew!Rows, At(r), Crew!Generate(r)
  PROVE  Sound(r)
<1>1. PICK run \in Crew!Run : runs[r] = run
  BY RowTyped DEF Crew!Generate, Crew!Runs, Typed
<1>2. Typed(r) /\ UNCHANGED <<runs, Crew!process, Crew!history, troubles, news>>
  BY RowTyped DEF Crew!Generate
<1>3. PICK work \in {"gen", "tool", "idle"} :
         /\ Crew!Work(r, work)
         /\ \/ work = "tool" /\ pi[r].work = "gen" /\ run.status = "running" /\ ~run.halt /\ pi[r].out = None
            \/ work = "gen" /\ pi[r].work = "tool"
            \/ work = "idle" /\ pi[r].work = "gen"
  BY <1>1 DEF Crew!Generate
<1>4. PICK p : Changed(r, p, work, pi[r].subs, pi[r].bound, pi[r].out)
  BY <1>3, WorkRow
<1>5. pi' = [pi EXCEPT ![r] = p] /\ p \in Crew!Agent
  BY <1>4 DEF Changed
<1>6. pi[r].placed > 0 /\ (run.park # None => run.halt)
  BY <1>1, <1>2, <1>3, PiEmpty DEF At, RowAt, Typed, Crew!Agent, Crew!SubagentsAssumption
<1>7. Crew!TypeOK' /\ (\A q \in Crew!Rows \ {r} : Unmoved(q))
  BY <1>2, <1>5 DEF Crew!TypeOK, Unmoved
<1>8. PiAt(r)'
  BY <1>1, <1>2, <1>3, <1>4, <1>6 DEF Changed, At, PiAt
<1>9. RowAt(r)'
  BY <1>1, <1>2, <1>3, <1>4, <1>6 DEF Changed, At, RowAt
<1>10. WatchAt(r)'
  BY <1>1, <1>2, <1>3, <1>4, <1>6 DEF Changed, At, WatchAt, Steering, Ended
<1>11. LaneAt(r)'
  BY <1>1, <1>2, <1>3, <1>4, <1>6 DEF Changed, At, LaneAt, Steering, Ended
<1>12. OwnedAt(r)' /\ Emptied(r)'
  BY <1>1, <1>2, <1>3, <1>4, <1>6 DEF At, OwnedAt, Emptied, Steering
<1>13. Modest(r)
  BY <1>1, <1>2, <1>3, <1>4, <1>6 DEF At, Modest, Holding, Crew!Busy
<1> QED BY <1>7, <1>8, <1>9, <1>10, <1>11, <1>12, <1>13 DEF At, Sound

LEMMA GateHolds ==
  ASSUME Crew!SubagentsAssumption, Crew!TypeOK, NEW r \in Crew!Rows, At(r), Crew!Gate(r)
  PROVE  Sound(r)
<1>1. PICK run \in Crew!Run : runs[r] = run
  BY RowTyped DEF Crew!Gate, Crew!Runs, Typed
<1>2. /\ pi[r].work \in {"replay", "gate"} /\ Typed(r)
      /\ UNCHANGED <<watch, ready, lane, mode, boot, pending, inflight, shared, crossed, revived>>
  BY RowTyped DEF Crew!Gate
<1>3. pi[r].placed > 0 /\ pi[r].out = None /\ ready[r] = {} /\ run.conv /\ (Crew!Over(r) \/ Crew!Along(r))
  BY <1>1, <1>2, PiEmpty DEF At, PiAt, RowAt, WatchAt, Typed, Crew!Agent
<1>4. lane[r] # None => lane[r].op # "finalize"
  BY <1>2 DEF At, LaneAt
<1>5. r \in given => run.park = None
  BY <1>1 DEF At, RowAt, Crew!SubagentsAssumption
<1>6. ASSUME NEW work \in {"tool", "gen", "gate"}, Crew!Work(r, work),
             work = "tool" => Crew!Live(r),
             work # "gate" => run.halt \/ run.park = None,
             given' \subseteq given, \A q \in Crew!Rows \ {r} : q \in given' <=> q \in given, UNCHANGED <<runs, news, troubles, answers>>
      PROVE  Sound(r)
  <2>1. PICK p : Changed(r, p, work, pi[r].subs, pi[r].bound, pi[r].out)
    BY <1>6, WorkRow
  <2>2. pi' = [pi EXCEPT ![r] = p] /\ p \in Crew!Agent
    BY <2>1 DEF Changed
  <2>3. Crew!TypeOK' /\ (\A q \in Crew!Rows \ {r} : Unmoved(q))
    BY <1>2, <1>6, <2>2 DEF Crew!TypeOK, Unmoved
  <2>4. PiAt(r)'
    BY <1>1, <1>2, <1>3, <1>4, <1>6, <2>1 DEF Changed, At, PiAt
  <2>5. RowAt(r)'
    BY <1>1, <1>2, <1>3, <1>4, <1>6, <2>1 DEF Changed, At, RowAt
  <2>6. WatchAt(r)'
    BY <1>1, <1>2, <1>3, <1>4, <1>6, <2>1 DEF At, WatchAt, Steering
  <2>7. LaneAt(r)'
    BY <1>1, <1>2, <1>3, <1>4, <1>6, <2>1 DEF Changed, At, LaneAt, Steering
  <2>8. OwnedAt(r)' /\ Emptied(r)'
    BY <1>1, <1>2, <1>3, <1>4, <1>6, <2>1 DEF At, OwnedAt, Emptied, Steering
  <2>9. Modest(r)
    BY <1>1, <1>2, <1>3, <1>4, <1>6, <2>1 DEF At, Modest, Holding, Crew!Busy
  <2> QED BY <2>3, <2>4, <2>5, <2>6, <2>7, <2>8, <2>9 DEF At, Sound
<1>7. ASSUME r \in given, given' = given \ {r}, UNCHANGED <<runs, news, troubles>>,
             Crew!Record(r, "aborted"),
             pi' = [pi EXCEPT ![r].work = "idle", ![r].out = [rev |-> pi[r].bound, kind |-> "aborted"]]
      PROVE  Sound(r)
  <2>1. PICK was \in Crew!Agent : pi[r] = was
    BY <1>2 DEF Typed
  <2>2. PICK outcome : outcome = [rev |-> was.bound, kind |-> "aborted"]
    OBVIOUS
  <2>3. outcome \in Crew!Outcomes /\ outcome.rev = was.bound /\ outcome # None
    BY <2>2 DEF Crew!Agent, Crew!Outcomes, Crew!SubagentsAssumption
  <2>4. PICK p : p = [was EXCEPT !.work = "idle", !.out = outcome]
    OBVIOUS
  <2>5. Changed(r, p, "idle", was.subs, was.bound, outcome)
    <3>1. /\ p \in Crew!Agent /\ p.work = "idle" /\ p.subs = was.subs /\ p.placed = was.placed /\ p.bound = was.bound
          /\ p.out = outcome
      BY <2>3, <2>4 DEF Crew!Agent
    <3>2. pi' = [pi EXCEPT ![r] = p] /\ pi'[r] = p
      BY <1>7, <2>1, <2>2, <2>4 DEF Crew!TypeOK
    <3> QED BY <2>1, <3>1, <3>2 DEF Changed
  <2>6. /\ was.bound \in Nat /\ answers' = [answers EXCEPT ![r] = was.bound] /\ answers'[r] = was.bound
        /\ pi' = [pi EXCEPT ![r] = p] /\ p \in Crew!Agent /\ given' = given \ {r} /\ UNCHANGED <<runs, news, troubles>>
    BY <1>7, <2>1, <2>5 DEF Crew!Record, Crew!TypeOK, Crew!Agent, Changed
  <2>7. Crew!TypeOK' /\ (\A q \in Crew!Rows \ {r} : Unmoved(q))
    BY <1>2, <2>6 DEF Crew!TypeOK, Unmoved
  <2>8. PiAt(r)'
    BY <1>1, <1>2, <1>3, <1>4, <1>5, <1>7, <2>1, <2>3, <2>5, <2>6 DEF Changed, At, PiAt,
       Crew!SubagentsAssumption
  <2>9. RowAt(r)'
    BY <1>1, <1>2, <1>3, <1>4, <1>5, <1>7, <2>1, <2>3, <2>5, <2>6 DEF Changed, At, RowAt,
       Crew!SubagentsAssumption
  <2>10. WatchAt(r)'
    BY <1>1, <1>2, <1>3, <1>4, <1>5, <1>7, <2>1, <2>3, <2>5, <2>6 DEF At, WatchAt, Steering
  <2>11. LaneAt(r)'
    BY <1>1, <1>2, <1>3, <1>4, <1>5, <1>7, <2>1, <2>3, <2>5, <2>6 DEF Changed, At, LaneAt, Steering
  <2>12. OwnedAt(r)' /\ Emptied(r)'
    BY <1>1, <1>2, <1>3, <1>4, <1>5, <1>7, <2>1, <2>3, <2>5, <2>6 DEF At, OwnedAt, Emptied, Steering
  <2>13. Modest(r)
    BY <1>1, <1>2, <1>3, <1>4, <1>5, <1>7, <2>1, <2>3, <2>5, <2>6 DEF At, Modest, Holding, Crew!Busy
  <2> QED BY <2>7, <2>8, <2>9, <2>10, <2>11, <2>12, <2>13 DEF At, Sound
<1>8. ASSUME ~run.halt, ~Crew!Over(r), run.park # "decided", r \notin given, Crew!Work(r, "gate"),
             Crew!Tell(r, [runs[r] EXCEPT !.status = "needs_input", !.park = "open"]), UNCHANGED <<given, answers>>
      PROVE  Sound(r)
  <2>1. PICK p : Changed(r, p, "gate", pi[r].subs, pi[r].bound, pi[r].out)
    BY <1>8, WorkRow
  <2>2. pi' = [pi EXCEPT ![r] = p] /\ p \in Crew!Agent
    BY <2>1 DEF Changed
  <2>3. PICK mine : mine = [run EXCEPT !.status = "needs_input", !.park = "open"]
    OBVIOUS
  <2>4. mine \in Crew!Run /\ mine.status = "needs_input" /\ mine.park = "open" /\ ~mine.halt /\ SameInput(mine, run)
    BY <1>8, <2>3 DEF Crew!Run, SameInput
  <2>5. PICK new \in Crew!Run :
          /\ runs' = [runs EXCEPT ![r] = new] /\ new.status = mine.status /\ new.halt = mine.halt
          /\ new.park = mine.park /\ SameInput(new, mine) /\ (new.owed \/ news'[r] = new.status)
          /\ news' \in [Crew!Rows -> Crew!Statuses \cup {None}] /\ (\A q \in Crew!Rows \ {r} : news'[q] = news[q])
          /\ troubles' \in Nat
    BY <1>1, <1>8, <2>3, <2>4, ToldRow
  <2>6. runs'[r] = new
    BY <2>5 DEF Crew!TypeOK
  <2>7. Crew!TypeOK' /\ (\A q \in Crew!Rows \ {r} : Unmoved(q))
    BY <1>2, <1>8, <2>2, <2>5 DEF Crew!TypeOK, Unmoved
  <2>8. PiAt(r)'
    BY <1>1, <1>2, <1>3, <1>4, <1>8, <2>1, <2>4, <2>5, <2>6 DEF SameInput, Changed, At, PiAt,
       Crew!SubagentsAssumption
  <2>9. RowAt(r)'
    BY <1>1, <1>2, <1>3, <1>4, <1>8, <2>1, <2>4, <2>5, <2>6 DEF SameInput, Changed, At, RowAt,
       Crew!SubagentsAssumption
  <2>10. WatchAt(r)'
    BY <1>1, <1>2, <1>3, <1>4, <1>8, <2>1, <2>4, <2>5, <2>6 DEF SameInput, Changed, At, WatchAt,
       Steering, Crew!SubagentsAssumption
  <2>11. LaneAt(r)'
    BY <1>1, <1>2, <1>3, <1>4, <1>8, <2>1, <2>4, <2>5, <2>6 DEF SameInput, Changed, At, LaneAt,
       Steering, Crew!SubagentsAssumption
  <2>12. OwnedAt(r)' /\ Emptied(r)'
    BY <1>1, <1>2, <1>3, <1>4, <1>8, <2>1, <2>4, <2>5, <2>6 DEF At, OwnedAt, Emptied,
       Crew!SubagentsAssumption
  <2>13. Modest(r)
    BY <1>1, <1>2, <1>3, <1>4, <1>8, <2>1, <2>4, <2>5, <2>6 DEF At, Modest, Holding, Crew!Busy,
       Crew!SubagentsAssumption
  <2> QED BY <2>7, <2>8, <2>9, <2>10, <2>11, <2>12, <2>13 DEF At, Sound
<1>9. ASSUME ~run.halt, ~Crew!Over(r), Crew!Fault, pi' = [pi EXCEPT ![r] = Crew!Quiet(@)],
             runs' = [runs EXCEPT ![r].halt = TRUE],
             UNCHANGED <<news, given, answers>>
      PROVE  Sound(r)
  <2>1. PICK p \in Crew!Agent : /\ pi' = [pi EXCEPT ![r] = p] /\ pi'[r] = p /\ p.work = "idle" /\ p.subs = {}
                           /\ p.placed = pi[r].placed /\ p.bound = pi[r].bound /\ p.out = pi[r].out
    BY <1>9, QuietRow
  <2>2. PICK new : new = [run EXCEPT !.halt = TRUE]
    OBVIOUS
  <2>3. /\ new \in Crew!Run /\ new.halt /\ SameInput(new, run) /\ new.status = run.status /\ new.park = run.park
        /\ new.owed = run.owed
    BY <2>2 DEF Crew!Run, SameInput
  <2>4. runs' = [runs EXCEPT ![r] = new] /\ runs'[r] = new /\ troubles' \in Nat /\ UNCHANGED <<news, given, answers>>
    BY <1>1, <1>9, <2>2 DEF Crew!Fault, Crew!TypeOK
  <2>5. Crew!TypeOK' /\ (\A q \in Crew!Rows \ {r} : Unmoved(q))
    BY <1>2, <2>1, <2>3, <2>4 DEF Crew!TypeOK, Unmoved
  <2>6. PiAt(r)'
    BY <1>1, <1>2, <1>3, <1>4, <1>9, <2>1, <2>3, <2>4 DEF At, PiAt, Crew!SubagentsAssumption
  <2>7. RowAt(r)'
    BY <1>1, <1>2, <1>3, <1>4, <1>9, <2>1, <2>3, <2>4 DEF At, PiAt, RowAt
  <2>8. WatchAt(r)'
    BY <1>1, <1>2, <1>3, <1>4, <1>9, <2>1, <2>3, <2>4 DEF SameInput, At, WatchAt, Crew!Agent,
       Crew!Outcomes, Steering, Crew!SubagentsAssumption
  <2>9. LaneAt(r)'
    BY <1>1, <1>2, <1>3, <1>4, <1>9, <2>1, <2>3, <2>4 DEF SameInput, At, LaneAt, Steering, Ended,
       Crew!SubagentsAssumption
  <2>10. OwnedAt(r)' /\ Emptied(r)'
    BY <1>1, <1>2, <1>3, <1>4, <1>9, <2>1, <2>3, <2>4 DEF At, OwnedAt, Emptied,
       Crew!SubagentsAssumption
  <2>11. Modest(r)
    BY <1>1, <1>2, <1>3, <1>4, <1>9, <2>1, <2>3, <2>4 DEF SameInput, At, Modest, Holding, Crew!Busy,
       Crew!SubagentsAssumption
  <2> QED BY <2>5, <2>6, <2>7, <2>8, <2>9, <2>10, <2>11 DEF At, Sound
<1>10. CASE r \in given /\ Crew!Decision(r) /\ Crew!Same /\ UNCHANGED troubles
  <2>1. CASE Crew!Record(r, "aborted") /\ pi' = [pi EXCEPT ![r].work = "idle", ![r].out = [rev |-> pi[r].bound, kind |-> "aborted"]]
    BY <1>7, <1>10, <2>1 DEF Crew!Decision
  <2>2. CASE \E work \in {"tool", "gen"} : Crew!Work(r, work) /\ (work = "tool" => Crew!Live(r)) /\ UNCHANGED answers
    <3>1. PICK work \in {"tool", "gen"} : Crew!Work(r, work) /\ (work = "tool" => Crew!Live(r)) /\ UNCHANGED answers
      BY <2>2
    <3> QED BY <1>5, <1>6, <1>10, <3>1 DEF Crew!Decision
  <2> QED BY <1>10, <2>1, <2>2 DEF Crew!Decision
<1>11. CASE /\ r \notin given /\ UNCHANGED <<given, answers>>
            /\ \/ (runs[r].halt \/ Crew!Over(r)) /\ Crew!Work(r, "gen") /\ Crew!Same /\ UNCHANGED troubles
               \/ ~runs[r].halt /\ ~Crew!Over(r) /\ runs[r].park = "decided" /\ Crew!Work(r, "gate") /\ Crew!Same /\ UNCHANGED troubles
  <2>1. Crew!Over(r) => run.park = None
    BY <1>1 DEF At, RowAt
  <2> QED BY <1>1, <1>6, <1>11, <2>1
<1> QED BY <1>1, <1>8, <1>9, <1>10, <1>11 DEF Crew!Gate

-----------------------------------------------------------------------------
(* From a row to all of them.                                              *)

\* A step of row r, but for the drain's.
Step(r) ==
    \/ Crew!Admit(r) \/ Crew!Claimed(r) \/ Crew!Prepared(r) \/ Crew!Regained(r) \/ Crew!Looked(r) \/ Crew!Submitted(r)
    \/ Crew!Owner(r) \/ Crew!Settlement(r) \/ Crew!Recovery(r) \/ Crew!PiSteps(r)

LEMMA StepIsSound ==
  ASSUME Crew!SubagentsAssumption, Crew!TypeOK, NEW r \in Crew!Rows, At(r), Step(r)
  PROVE  Sound(r)
<1>1. CASE Crew!Admit(r)
  BY <1>1, AdmitHolds
<1>2. CASE Crew!Claimed(r)
  BY <1>2, ClaimedHolds
<1>3. CASE Crew!Prepared(r)
  BY <1>3, PreparedHolds
<1>4. CASE Crew!Regained(r)
  BY <1>4, RegainedHolds
<1>5. CASE Crew!Looked(r)
  BY <1>5, LookedHolds
<1>6. CASE Crew!Submitted(r)
  BY <1>6, SubmittedHolds
<1>7. CASE Crew!Owner(r)
  BY <1>7, StartHolds, SendHolds, DecideHolds, StopHolds, StopBeginsHolds, StopReturnsHolds,
     NotifyHolds DEF Crew!Owner
<1>8. CASE Crew!Settlement(r)
  BY <1>8, SeenHolds, FinalizeHolds, ReadHolds, CloseHolds DEF Crew!Settlement
<1>9. CASE Crew!Recovery(r)
  BY <1>9, RecoverHolds, LookedUpHolds, ReattachedHolds, ExhaustHolds,
     ExhaustedHolds DEF Crew!Recovery
<1>10. CASE Crew!PiSteps(r)
  BY <1>10, RequestHolds, NudgeHolds, FinishHolds, GenerateHolds, GateHolds DEF Crew!PiSteps
<1> QED BY <1>1, <1>2, <1>3, <1>4, <1>5, <1>6, <1>7, <1>8, <1>9, <1>10 DEF Step

\* It is of a row that was started, or starts it, while the process is up.
LEMMA StepIsOf ==
  ASSUME Crew!TypeOK, Modes, NEW r \in Crew!Rows, At(r), Step(r)
  PROVE  /\ mode # "down" /\ mode' = mode /\ shared' = shared /\ boot' \subseteq boot
         /\ Crew!Known(r) \/ runs'[r] = runs[r] \/ (r > 1 => Crew!Known(r - 1))
<1>1. ASSUME lane[r] # None
      PROVE  mode # "down" /\ Crew!Known(r)
  BY <1>1 DEF Modes, At, LaneAt
<1>2. CASE Crew!Admit(r)
  BY <1>2 DEF Crew!Admit, Modes
<1>3. CASE Crew!Claimed(r) \/ Crew!Prepared(r) \/ Crew!Regained(r) \/ Crew!Looked(r) \/ Crew!Submitted(r)
  BY <1>1, <1>3 DEF Crew!Claimed, Crew!Prepared, Crew!Regained, Crew!Looked, Crew!Submitted,
     Crew!Holds
<1>4. CASE Crew!Owner(r)
  BY <1>1, <1>4 DEF Crew!Owner, Crew!Start, Crew!Send, Crew!Decide, Crew!Stop, Crew!StopBegins,
     Crew!StopReturns, Crew!Notify, Crew!Holds
<1>5. CASE Crew!Read(r) \/ Crew!Close(r)
  BY <1>1, <1>5 DEF Crew!Read, Crew!Close, Crew!Holds
<1>6. ASSUME NEW rev \in 1 .. MaxRev, Crew!Seen(r, rev) \/ Crew!Finalize(r, rev)
      PROVE  mode # "down" /\ mode' = mode /\ shared' = shared /\ boot' \subseteq boot /\ Crew!Known(r)
  BY <1>6 DEF Crew!Seen, Crew!Finalize, Modes, At, WatchAt
<1>7. CASE Crew!Recovery(r)
  BY <1>1, <1>7 DEF Crew!Recovery, Crew!Recover, Crew!LookedUp, Crew!Reattached, Crew!Exhaust,
     Crew!Exhausted, Crew!Holds
<1>8. CASE Crew!PiSteps(r)
  BY <1>8 DEF Crew!PiSteps, Crew!Request, Crew!Nudge, Crew!Finish, Crew!Generate, Crew!Gate,
     Crew!Runs
<1> QED BY <1>2, <1>3, <1>4, <1>5, <1>6, <1>7, <1>8 DEF Step, Crew!Settlement

\* The model's cardinality is the library's.
LEMMA SameCard == \A S : Crew!Cardinality(S) = Cardinality(S)
BY DEF Crew!Cardinality, Cardinality

LEMMA RowsFinite == ASSUME Crew!SubagentsAssumption PROVE IsFiniteSet(Crew!Rows)
BY FS_Interval DEF Crew!Rows, Crew!SubagentsAssumption

LEMMA FewerBusy ==
  ASSUME Crew!SubagentsAssumption, Crew!TypeOK, NEW T, Crew!Slots, T \subseteq Crew!Busy
  PROVE  Cardinality(T) <= MaxRuns
<1>1. Crew!Busy \subseteq Crew!Rows
  BY DEF Crew!TypeOK, Crew!Busy
<1>2. IsFiniteSet(Crew!Busy)
  BY <1>1, RowsFinite, FS_Subset
<1>3. Cardinality(T) <= Cardinality(Crew!Busy) /\ Cardinality(T) \in Nat /\ Cardinality(Crew!Busy) \in Nat
  BY <1>2, FS_Subset, FS_CardinalityType
<1> QED BY <1>3, SameCard DEF Crew!Slots, Crew!SubagentsAssumption

\* What is over stays over, but for what is admitted after it.
Lasting == \A q \in Crew!Rows : Crew!Over(q) => Crew!Over(q)' \/ q \in revived'

\* Steps that take no lease and no slot.
LEMMA ModestKeeps ==
  ASSUME Crew!SubagentsAssumption, Crew!TypeOK, Crew!TypeOK', Leases, Crew!Slots,
         \A q \in Crew!Rows : Modest(q), shared' = shared,
         \A q \in Crew!Rows : Crew!Known(q)' => Crew!Known(q) \/ (q > 1 => Crew!Known(q - 1))
  PROVE  Leases' /\ Crew!Slots' /\ Lasting
<1>1. ASSUME NEW q \in Crew!Rows, Crew!Known(q)', NEW p \in 1 .. q - 1
      PROVE  Crew!Known(p)'
  <2>1. p \in Crew!Rows /\ p \in Int /\ q \in Int
    BY DEF Crew!Rows, Crew!SubagentsAssumption
  <2>2. CASE Crew!Known(q)
    BY <1>1, <2>1, <2>2 DEF Leases, Modest
  <2>3. CASE q > 1 /\ Crew!Known(q - 1)
    <3>1. q - 1 \in Crew!Rows /\ (p = q - 1 \/ p \in 1 .. (q - 1) - 1)
      BY <2>1, <2>3 DEF Crew!Rows, Crew!SubagentsAssumption
    <3> QED BY <2>1, <2>3, <3>1 DEF Leases, Modest
  <2>4. q > 1
    BY <2>1
  <2> QED BY <1>1, <2>2, <2>3, <2>4
<1>2. ASSUME shared, NEW p \in Crew!Rows, NEW q \in Crew!Rows, Holding(p)', Holding(q)'
      PROVE  p = q
  BY <1>2 DEF Leases, Modest
<1>3. ASSUME shared, NEW q \in inflight', Holding(q)', ~Crew!Along(q)', NEW p \in 1 .. q - 1
      PROVE  Crew!Over(p)' \/ p \in revived'
  <2>1. q \in Crew!Rows /\ p \in Crew!Rows
    BY DEF Crew!Rows, Crew!TypeOK, Crew!SubagentsAssumption
  <2>2. q \in inflight /\ Holding(q)
    BY <1>3, <2>1 DEF Modest
  <2>3. ~Crew!Along(q)
    BY <1>3, <2>1, <2>2 DEF Modest, Holding
  <2>4. Crew!Over(p) \/ p \in revived
    BY <1>3, <2>2, <2>3 DEF Leases
  <2> QED BY <2>1, <2>4 DEF Modest
<1>4. Leases'
  BY <1>1, <1>2, <1>3 DEF Leases
<1>5. Crew!Busy' \subseteq Crew!Busy
  BY DEF Crew!Busy, Modest, Crew!TypeOK
<1>6. Crew!Slots'
  BY <1>5, FewerBusy, SameCard DEF Crew!Slots
<1>7. Lasting
  BY DEF Lasting, Modest
<1> QED BY <1>4, <1>6, <1>7

LEMMA StepKeeps ==
  ASSUME Crew!SubagentsAssumption, IInv, NEW r \in Crew!Rows, Step(r)
  PROVE  IInv' /\ Lasting
<1>1. Crew!TypeOK /\ Leases /\ Modes /\ Crew!Slots /\ \A q \in Crew!Rows : At(q)
  BY DEF IInv
<1>2. Crew!TypeOK' /\ At(r)' /\ Modest(r) /\ \A q \in Crew!Rows \ {r} : Unmoved(q)
  BY <1>1, StepIsSound DEF Sound
<1>3. /\ mode # "down" /\ mode' = mode /\ shared' = shared /\ boot' \subseteq boot
      /\ Crew!Known(r) \/ runs'[r] = runs[r] \/ (r > 1 => Crew!Known(r - 1))
  BY <1>1, StepIsOf
<1>4. \A q \in Crew!Rows \ {r} : At(q)' /\ Modest(q)
  BY <1>1, <1>2, UnmovedHolds
<1>5. \A q \in Crew!Rows : At(q)' /\ Modest(q)
  BY <1>2, <1>4
<1>6. \A q \in Crew!Rows : Crew!Known(q)' => Crew!Known(q) \/ (q > 1 => Crew!Known(q - 1))
  BY <1>2, <1>3 DEF Unmoved
<1>7. Leases' /\ Crew!Slots' /\ Lasting
  BY <1>1, <1>2, <1>3, <1>5, <1>6, ModestKeeps
<1>8. Modes'
  BY <1>1, <1>3 DEF Modes
<1> QED BY <1>2, <1>5, <1>7, <1>8 DEF IInv

-----------------------------------------------------------------------------
(* The drain, a crash and a boot.                                          *)

LEMMA DrainKeeps ==
  ASSUME Crew!SubagentsAssumption, IInv, NEW r \in Crew!Rows, Crew!Drain(r)
  PROVE  IInv' /\ Lasting
<1>1. Crew!TypeOK /\ Leases /\ Modes /\ Crew!Slots /\ \A q \in Crew!Rows : At(q)
  BY DEF IInv
<1>2. /\ mode = "up" /\ Crew!Known(r) /\ runs[r].status = "queued" /\ ~runs[r].halt /\ r \notin inflight /\ Crew!Leased(r)
      /\ inflight' = inflight \cup {r}
      /\ UNCHANGED <<runs, pi, watch, ready, lane, mode, boot, pending, given, Crew!history, troubles, news>>
  BY DEF Crew!Drain
<1>3. Crew!TypeOK' /\ \A q \in Crew!Rows \ {r} : Unmoved(q)
  BY <1>1, <1>2 DEF Crew!TypeOK, Unmoved
<1>4. At(r)'
  <2>1. PiAt(r)' /\ RowAt(r)' /\ WatchAt(r)'
    BY <1>1, <1>2 DEF At, PiAt, RowAt, WatchAt, Steering, Ended
  <2>2. LaneAt(r)'
    BY <1>1, <1>2 DEF At, LaneAt, Steering, Ended
  <2>3. OwnedAt(r)' /\ Emptied(r)'
    BY <1>1, <1>2 DEF At, OwnedAt, Emptied
  <2> QED BY <2>1, <2>2, <2>3 DEF At
<1>5. \A q \in Crew!Rows : At(q)'
  BY <1>1, <1>3, <1>4, UnmovedHolds
<1>6. \A q \in Crew!Rows \ {r} : (Holding(q)' <=> Holding(q)) /\ (Crew!Along(q)' <=> Crew!Along(q))
  BY <1>2 DEF Holding
<1>7. ASSUME shared, NEW p \in Crew!Rows \ {r}, Holding(p), r \notin revived
      PROVE  FALSE
  <2>1. Crew!Known(p) /\ ~Crew!Over(p) /\ p \notin revived /\ (Crew!Along(p) \/ p \in inflight)
    BY <1>7 DEF Holding
  <2>2. Crew!Along(r) => Holding(r)
    BY <1>2, <1>7 DEF Holding
  <2>3. ~Crew!Along(r)
    BY <1>1, <1>7, <2>2 DEF Leases
  <2>4. ~Crew!Along(p) /\ r < p
    BY <1>2, <1>7, <2>1, <2>3 DEF Crew!Leased
  <2>5. r \in 1 .. p - 1
    BY <2>4 DEF Crew!Rows, Crew!SubagentsAssumption
  <2>6. Crew!Over(r)
    BY <1>1, <1>7, <2>1, <2>4, <2>5 DEF Leases
  <2> QED BY <1>2, <2>6
<1>8. ASSUME shared, Holding(r)', ~Crew!Along(r), NEW p \in 1 .. r - 1
      PROVE  Crew!Over(p)
  <2>1. p \in Crew!Rows \ {r} /\ p < r /\ ~(r < p)
    BY DEF Crew!Rows, Crew!SubagentsAssumption
  <2>2. Crew!Known(p)
    BY <1>1, <1>2 DEF Leases
  <2>3. SUFFICES ASSUME ~Crew!Over(p) PROVE FALSE
    OBVIOUS
  <2>4. (Crew!Along(r) /\ ~Crew!Along(p)) \/ (Crew!Along(r) = Crew!Along(p) /\ r < p)
    BY <1>2, <1>8, <2>1, <2>2, <2>3 DEF Crew!Leased
  <2> QED BY <1>8, <2>1, <2>4
<1>9. Leases'
  <2>1. ASSUME shared', NEW p \in Crew!Rows, NEW q \in Crew!Rows, Holding(p)', Holding(q)'
        PROVE  p = q
    <3>1. shared /\ revived' = revived
      BY <1>2, <2>1
    <3>2. CASE p = r /\ q # r
      <4>1. r \notin revived
        BY <2>1, <3>1, <3>2 DEF Holding
      <4> QED BY <1>6, <1>7, <2>1, <3>1, <3>2, <4>1
    <3>3. CASE q = r /\ p # r
      <4>1. r \notin revived
        BY <2>1, <3>1, <3>3 DEF Holding
      <4> QED BY <1>6, <1>7, <2>1, <3>1, <3>3, <4>1
    <3>4. CASE p # r /\ q # r
      BY <1>1, <1>6, <2>1, <3>1, <3>4 DEF Leases
    <3> QED BY <3>2, <3>3, <3>4
  <2>2. ASSUME shared', NEW q \in inflight', Holding(q)', ~Crew!Along(q)', NEW p \in 1 .. q - 1
        PROVE  Crew!Over(p)' \/ p \in revived'
    <3>1. CASE q = r
      BY <1>2, <1>8, <2>2, <3>1
    <3>2. CASE q # r
      <4>1. q \in inflight /\ q \in Crew!Rows
        BY <1>1, <1>2, <2>2, <3>2 DEF Crew!TypeOK
      <4>2. Crew!Over(p) \/ p \in revived
        BY <1>1, <1>2, <1>6, <2>2, <3>2, <4>1 DEF Leases
      <4> QED BY <1>2, <4>2
    <3> QED BY <3>1, <3>2
  <2>3. \A q \in Crew!Rows : Crew!Known(q)' => \A p \in 1 .. q - 1 : Crew!Known(p)'
    BY <1>1, <1>2 DEF Leases
  <2> QED BY <2>1, <2>2, <2>3 DEF Leases
<1>10. Modes'
  BY <1>1, <1>2 DEF Modes
<1>11. Crew!Slots'
  <2>1. Crew!Busy' = Crew!Busy \cup {r}
    BY <1>2 DEF Crew!Busy
  <2>2. Crew!Busy \subseteq Crew!Rows
    BY <1>1 DEF Crew!TypeOK, Crew!Busy
  <2>3. IsFiniteSet(Crew!Busy)
    BY <2>2, RowsFinite, FS_Subset
  <2>4. Cardinality(Crew!Busy) \in Nat
    BY <2>3, FS_CardinalityType
  <2>5. Cardinality(Crew!Busy) < MaxRuns
    BY SameCard DEF Crew!Drain
  <2>6. Cardinality(Crew!Busy \cup {r}) \in {Cardinality(Crew!Busy), Cardinality(Crew!Busy) + 1}
    BY <2>3, FS_AddElement
  <2> QED BY <2>1, <2>4, <2>5, <2>6, SameCard DEF Crew!Slots, Crew!SubagentsAssumption
<1>12. Lasting
  BY <1>2 DEF Lasting
<1> QED BY <1>3, <1>5, <1>9, <1>10, <1>11, <1>12 DEF IInv

LEMMA CrashKeeps ==
  ASSUME Crew!SubagentsAssumption, IInv, Crew!Crash
  PROVE  IInv' /\ Lasting
<1>1. Crew!TypeOK /\ Leases /\ Modes /\ Crew!Slots /\ \A q \in Crew!Rows : At(q)
  BY DEF IInv
<1>2. /\ mode' = "down" /\ boot' = {} /\ pending' = {} /\ inflight' = {} /\ given' = {} /\ troubles' \in Nat
      /\ \A q \in Crew!Rows : watch'[q] = {} /\ ready'[q] = {} /\ lane'[q] = None
      /\ UNCHANGED <<runs, Crew!history, news>>
  BY <1>1 DEF Crew!Crash, Crew!Fault, Crew!TypeOK
<1>3. ASSUME NEW q \in Crew!Rows
      PROVE  \E p \in Crew!Agent : /\ pi'[q] = p /\ p.subs = pi[q].subs /\ p.placed = pi[q].placed /\ p.bound = pi[q].bound
                              /\ p.out = pi[q].out
                              /\ p.work = IF pi[q].work \in {"tool", "gate"} THEN "replay" ELSE pi[q].work
  <2>1. PICK was \in Crew!Agent : pi[q] = was
    BY <1>1 DEF Crew!TypeOK
  <2>2. PICK p : p = IF was.work \in {"tool", "gate"} THEN [was EXCEPT !.work = "replay"] ELSE was
    OBVIOUS
  <2>3. /\ p \in Crew!Agent /\ p.subs = was.subs /\ p.placed = was.placed /\ p.bound = was.bound /\ p.out = was.out
        /\ p.work = IF was.work \in {"tool", "gate"} THEN "replay" ELSE was.work
    BY <2>2 DEF Crew!Agent
  <2>4. pi'[q] = p
    BY <2>1, <2>2 DEF Crew!Crash, Crew!CutOff
  <2> QED BY <2>1, <2>3, <2>4
<1>4. Crew!TypeOK'
  <2>1. pi' = [q \in Crew!Rows |-> pi'[q]]
    BY DEF Crew!Crash
  <2>2. pi' \in [Crew!Rows -> Crew!Agent]
    BY <1>3, <2>1
  <2>3. /\ watch' = [q \in Crew!Rows |-> {}] /\ ready' = [q \in Crew!Rows |-> {}] /\ lane' = [q \in Crew!Rows |-> None]
    BY DEF Crew!Crash
  <2> QED BY <1>1, <1>2, <2>2, <2>3 DEF Crew!TypeOK
<1>5. ASSUME NEW q \in Crew!Rows
      PROVE  At(q)' /\ Modest(q)
  <2>1. PICK p \in Crew!Agent : /\ pi'[q] = p /\ p.subs = pi[q].subs /\ p.placed = pi[q].placed /\ p.bound = pi[q].bound
                           /\ p.out = pi[q].out
                           /\ p.work = IF pi[q].work \in {"tool", "gate"} THEN "replay" ELSE pi[q].work
    BY <1>3
  <2>2. PiAt(q)' /\ RowAt(q)'
    BY <1>1, <1>2, <2>1 DEF At, PiAt, RowAt
  <2>3. WatchAt(q)' /\ LaneAt(q)' /\ OwnedAt(q)' /\ Emptied(q)'
    BY <1>2 DEF WatchAt, LaneAt, OwnedAt, Emptied
  <2>4. Modest(q)
    BY <1>2 DEF Modest, Holding, Crew!Busy
  <2> QED BY <2>2, <2>3, <2>4 DEF At
<1>6. Modes'
  BY <1>2 DEF Modes
<1>7. Leases' /\ Crew!Slots' /\ Lasting
  BY <1>1, <1>2, <1>4, <1>5, ModestKeeps
<1> QED BY <1>4, <1>5, <1>6, <1>7 DEF IInv

LEMMA ResumedKeeps ==
  ASSUME Crew!SubagentsAssumption, IInv, Crew!Resumed
  PROVE  IInv' /\ Lasting
<1>1. Crew!TypeOK /\ Leases /\ Modes /\ Crew!Slots /\ \A q \in Crew!Rows : At(q)
  BY DEF IInv
<1>2. /\ mode = "boot" /\ boot = {} /\ mode' = "up"
      /\ UNCHANGED <<runs, pi, watch, ready, lane, boot, pending, inflight, given, Crew!history, troubles, news>>
  BY DEF Crew!Resumed
<1>3. Crew!TypeOK'
  BY <1>1, <1>2 DEF Crew!TypeOK
<1>4. ASSUME NEW q \in Crew!Rows
      PROVE  At(q)' /\ Modest(q)
  <2>1. PiAt(q)' /\ RowAt(q)' /\ WatchAt(q)' /\ LaneAt(q)'
    BY <1>1, <1>2 DEF At, PiAt, RowAt, WatchAt, LaneAt, Steering, Ended
  <2>2. OwnedAt(q)' /\ Emptied(q)'
    BY <1>1, <1>2 DEF At, OwnedAt, Emptied, Steering
  <2>3. Modest(q)
    BY <1>2 DEF Modest, Holding, Crew!Busy
  <2> QED BY <2>1, <2>2, <2>3 DEF At
<1>5. Modes'
  BY <1>1, <1>2 DEF Modes
<1>6. Leases' /\ Crew!Slots' /\ Lasting
  BY <1>1, <1>2, <1>3, <1>4, ModestKeeps
<1> QED BY <1>3, <1>4, <1>5, <1>6 DEF IInv

LEMMA BootKeeps ==
  ASSUME Crew!SubagentsAssumption, IInv, Crew!Boot
  PROVE  IInv' /\ Lasting
<1> DEFINE halted == {q \in Crew!Rows : Crew!Known(q) /\ runs[q].halt /\ runs[q].status # "stopped"}
<1>1. Crew!TypeOK /\ Leases /\ Modes /\ Crew!Slots /\ \A q \in Crew!Rows : At(q)
  BY DEF IInv
<1>2. /\ mode = "down" /\ mode' = "boot" /\ boot' = {q \in Crew!Rows \ halted : Crew!Live(q) \/ (Crew!Parked(q) /\ runs[q].status = "needs_input")}
      /\ inflight = {} /\ pending = {} /\ given = {} /\ \A q \in Crew!Rows : lane[q] = None /\ watch[q] = {} /\ ready[q] = {}
      /\ UNCHANGED <<watch, ready, lane, pending, inflight, given, Crew!history, troubles, news>>
  BY <1>1 DEF Crew!Boot, Modes
<1>3. ASSUME NEW q \in Crew!Rows
      PROVE  \/ q \notin halted /\ runs'[q] = runs[q]
             \/ q \in halted /\ \E new \in Crew!Run :
                   /\ runs'[q] = new /\ new.status = "stopped" /\ new.park = None /\ new.owed /\ new.halt
                   /\ SameInput(new, runs[q])
  <2>1. CASE q \notin halted
    BY <2>1 DEF Crew!Boot
  <2>2. CASE q \in halted
    <3>1. PICK run \in Crew!Run : runs[q] = run /\ run.halt
      BY <1>1, <2>2 DEF Crew!TypeOK
    <3>2. PICK new : new = [run EXCEPT !.status = "stopped", !.park = None, !.owed = TRUE]
      OBVIOUS
    <3>3. /\ new \in Crew!Run /\ new.status = "stopped" /\ new.park = None /\ new.owed /\ new.halt /\ SameInput(new, run)
      BY <3>1, <3>2 DEF Crew!Run, SameInput
    <3>4. runs'[q] = new
      BY <2>2, <3>1, <3>2 DEF Crew!Boot
    <3> QED BY <2>2, <3>1, <3>3, <3>4
  <2> QED BY <2>1, <2>2
<1>4. ASSUME NEW q \in Crew!Rows
      PROVE  \/ ~Crew!Over(q) /\ q \notin halted /\ pi'[q] = pi[q]
             \/ \E p \in Crew!Agent : /\ pi'[q] = p /\ p.work = "idle" /\ p.subs = {} /\ p.placed = pi[q].placed
                                 /\ p.bound = pi[q].bound /\ p.out = pi[q].out
  <2>1. CASE ~Crew!Over(q) /\ q \notin halted
    BY <2>1 DEF Crew!Boot
  <2>2. CASE Crew!Over(q) \/ q \in halted
    <3>1. PICK was \in Crew!Agent : pi[q] = was
      BY <1>1 DEF Crew!TypeOK
    <3>2. PICK p : p = [was EXCEPT !.work = "idle", !.subs = {}]
      OBVIOUS
    <3>3. /\ p \in Crew!Agent /\ p.work = "idle" /\ p.subs = {} /\ p.placed = was.placed /\ p.bound = was.bound
          /\ p.out = was.out
      BY <3>2 DEF Crew!Agent
    <3>4. pi'[q] = p
      BY <2>2, <3>1, <3>2 DEF Crew!Boot, Crew!Quiet
    <3> QED BY <3>1, <3>3, <3>4
  <2> QED BY <2>1, <2>2
<1>5. Crew!TypeOK'
  <2>1. runs' = [q \in Crew!Rows |-> runs'[q]] /\ pi' = [q \in Crew!Rows |-> pi'[q]]
    BY DEF Crew!Boot
  <2>2. \A q \in Crew!Rows : runs'[q] \in Crew!Run \cup {None}
    BY <1>1, <1>3 DEF Crew!TypeOK
  <2>3. \A q \in Crew!Rows : pi'[q] \in Crew!Agent
    BY <1>1, <1>4 DEF Crew!TypeOK
  <2>4. runs' \in [Crew!Rows -> Crew!Run \cup {None}] /\ pi' \in [Crew!Rows -> Crew!Agent]
    BY <2>1, <2>2, <2>3
  <2>5. boot' \subseteq Crew!Rows
    BY <1>2
  <2> QED BY <1>1, <1>2, <2>4, <2>5 DEF Crew!TypeOK
<1>6. ASSUME NEW q \in Crew!Rows
      PROVE  At(q)' /\ Modest(q)
  <2>1. Typed(q) /\ PiAt(q) /\ RowAt(q)
    BY <1>1, RowTyped DEF At
  <2>2. PiAt(q)'
    BY <1>2, <1>3, <1>4, <2>1 DEF PiAt, Crew!SubagentsAssumption
  <2>3. RowAt(q)'
    <3>1. CASE q \in halted
      <4>1. PICK new \in Crew!Run :
              /\ runs'[q] = new /\ new.status = "stopped" /\ new.park = None /\ new.owed
              /\ SameInput(new, runs[q])
        BY <1>3, <3>1
      <4>2. PICK p \in Crew!Agent :
              /\ pi'[q] = p /\ p.work = "idle" /\ p.subs = {} /\ p.placed = pi[q].placed
        BY <1>4, <3>1
      <4>3. new.sub <= p.placed /\ p.placed <= new.rev /\ (new.intent => new.rev > 0) /\ (p.placed > 0 => new.conv)
        BY <2>1, <3>1, <4>1, <4>2 DEF RowAt, SameInput
      <4>4. /\ runs'[q] # None /\ runs'[q].status = "stopped" /\ runs'[q].park = None /\ runs'[q].owed
            /\ pi'[q].work = "idle" /\ pi'[q].subs = {}
            /\ runs'[q].sub <= pi'[q].placed /\ pi'[q].placed <= runs'[q].rev
            /\ (runs'[q].intent => runs'[q].rev > 0) /\ (pi'[q].placed > 0 => runs'[q].conv)
        BY <4>1, <4>2, <4>3 DEF Crew!SubagentsAssumption
      <4> HIDE DEF halted
      <4> QED BY <4>4 DEF RowAt
    <3>2. CASE q \notin halted
      <4>1. runs'[q] = runs[q] /\ crossed' = crossed /\ revived' = revived /\ given' = given /\ news' = news
        BY <1>2, <1>3, <3>2
      <4>2. CASE pi'[q] = pi[q]
        BY <2>1, <4>1, <4>2 DEF RowAt
      <4>3. CASE Crew!Over(q) /\ \E p \in Crew!Agent : /\ pi'[q] = p /\ p.work = "idle" /\ p.subs = {}
                                            /\ p.placed = pi[q].placed /\ p.out = pi[q].out
        BY <2>1, <4>1, <4>3 DEF RowAt, Crew!SubagentsAssumption
      <4>4. Crew!Over(q) \/ pi'[q] = pi[q]
        BY <3>2 DEF Crew!Boot
      <4>5. pi'[q] = pi[q] \/ \E p \in Crew!Agent : /\ pi'[q] = p /\ p.work = "idle" /\ p.subs = {}
                                              /\ p.placed = pi[q].placed /\ p.out = pi[q].out
        BY <1>4
      <4> QED BY <4>2, <4>3, <4>4, <4>5
    <3> QED BY <3>1, <3>2
  <2>4. WatchAt(q)' /\ LaneAt(q)' /\ Emptied(q)'
    BY <1>2 DEF WatchAt, LaneAt, Emptied
  <2>5. OwnedAt(q)'
    BY <1>2, <1>3 DEF OwnedAt, Steering
  <2>6. Modest(q)
    BY <1>2, <1>3 DEF Modest, Holding, Crew!Busy, Crew!SubagentsAssumption
  <2> QED BY <2>2, <2>3, <2>4, <2>5, <2>6 DEF At
<1>7. Modes'
  BY <1>2 DEF Modes
<1>8. Leases' /\ Crew!Slots' /\ Lasting
  <2>1. shared' = shared /\ \A q \in Crew!Rows : Crew!Known(q)' => Crew!Known(q)
    BY <1>2, <1>3 DEF Crew!SubagentsAssumption
  <2> QED BY <1>1, <1>5, <1>6, <2>1, ModestKeeps
<1> QED BY <1>5, <1>6, <1>7, <1>8 DEF IInv

-----------------------------------------------------------------------------
(* The invariant, and what it says.                                        *)

LEMMA InitHolds ==
  ASSUME Crew!SubagentsAssumption, Crew!Init
  PROVE  IInv
<1>1. PICK p : p = [work |-> "idle", subs |-> {}, placed |-> 0, bound |-> 0, out |-> None]
  OBVIOUS
<1>2. p \in Crew!Agent /\ p.work = "idle" /\ p.subs = {} /\ p.placed = 0 /\ p.bound = 0 /\ p.out = None
  BY <1>1 DEF Crew!Agent
<1>3. \A q \in Crew!Rows : /\ runs[q] = None /\ pi[q] = p /\ watch[q] = {} /\ ready[q] = {} /\ lane[q] = None
  BY <1>1 DEF Crew!Init
<1>4. /\ mode = "up" /\ boot = {} /\ pending = {} /\ inflight = {} /\ given = {}
  BY DEF Crew!Init
<1>5. Crew!TypeOK
  <2>1. runs = [q \in Crew!Rows |-> None] /\ pi = [q \in Crew!Rows |-> p]
    BY <1>1 DEF Crew!Init
  <2>2. /\ watch = [q \in Crew!Rows |-> {}] /\ ready = [q \in Crew!Rows |-> {}] /\ lane = [q \in Crew!Rows |-> None]
        /\ news = [q \in Crew!Rows |-> None] /\ answers = [q \in Crew!Rows |-> 0] /\ crossed = {} /\ revived = {}
        /\ shared \in BOOLEAN /\ troubles = 0
    BY DEF Crew!Init
  <2> QED BY <1>2, <1>4, <2>1, <2>2 DEF Crew!TypeOK
<1>6. ASSUME NEW q \in Crew!Rows
      PROVE  At(q)
  <2>1. PiAt(q)
    BY <1>2, <1>3 DEF PiAt
  <2>2. RowAt(q) /\ WatchAt(q) /\ LaneAt(q) /\ OwnedAt(q) /\ Emptied(q)
    BY <1>3, <1>4 DEF RowAt, WatchAt, LaneAt, OwnedAt, Emptied
  <2> QED BY <2>1, <2>2 DEF At
<1>7. Leases /\ Modes
  BY <1>3, <1>4 DEF Leases, Modes, Holding
<1>8. Crew!Slots
  <2>1. Crew!Busy = {}
    BY <1>3, <1>4 DEF Crew!Busy
  <2> QED BY <2>1, FS_EmptySet, SameCard DEF Crew!Slots, Crew!SubagentsAssumption
<1> QED BY <1>5, <1>6, <1>7, <1>8 DEF IInv

LEMMA NextKeeps ==
  ASSUME Crew!SubagentsAssumption, IInv, [Crew!Next]_(Crew!vars)
  PROVE  IInv' /\ Lasting
<1>1. ASSUME NEW r \in Crew!Rows, Crew!Drain(r)
      PROVE  IInv' /\ Lasting
  BY <1>1, DrainKeeps
<1>2. ASSUME NEW r \in Crew!Rows,
             Crew!Admit(r) \/ Crew!Admission(r) \/ Crew!Owner(r) \/ Crew!Settlement(r) \/ Crew!Recovery(r) \/ Crew!PiSteps(r)
      PROVE  IInv' /\ Lasting
  <2>1. Step(r)
    BY <1>2 DEF Step, Crew!Admission
  <2> QED BY <2>1, StepKeeps
<1>3. CASE Crew!Crash
  BY <1>3, CrashKeeps
<1>4. CASE Crew!Boot
  BY <1>4, BootKeeps
<1>5. CASE Crew!Resumed
  BY <1>5, ResumedKeeps
<1>6. CASE UNCHANGED Crew!vars
  <2>1. Crew!TypeOK /\ Leases /\ Modes /\ Crew!Slots /\ \A q \in Crew!Rows : At(q)
    BY DEF IInv
  <2>2. \A q \in Crew!Rows : Unmoved(q)
    BY <1>6 DEF Crew!vars, Unmoved
  <2>3. \A q \in Crew!Rows : At(q)' /\ Modest(q)
    BY <2>1, <2>2, UnmovedHolds
  <2>4. Crew!TypeOK' /\ Modes'
    BY <1>6, <2>1 DEF Crew!vars, Crew!TypeOK, Modes
  <2>5. shared' = shared /\ \A q \in Crew!Rows : Crew!Known(q)' => Crew!Known(q)
    BY <1>6 DEF Crew!vars
  <2>6. Leases' /\ Crew!Slots' /\ Lasting
    BY <2>1, <2>3, <2>4, <2>5, ModestKeeps
  <2> QED BY <2>3, <2>4, <2>6 DEF IInv
<1> QED BY <1>1, <1>2, <1>3, <1>4, <1>5, <1>6 DEF Crew!Next

\* Rows, Pi, lanes and monitors stay together as the inductive invariant says, through every
\* call, admission, settlement, recovery, crash and boot (subagents/index.ts).
THEOREM InductiveInvariant == Crew!SubagentsAssumption => (Crew!Spec => []IInv)
<1> SUFFICES ASSUME Crew!SubagentsAssumption PROVE Crew!Spec => []IInv
  OBVIOUS
<1>1. Crew!Init => IInv
  BY InitHolds
<1>2. IInv /\ [Crew!Next]_(Crew!vars) => IInv'
  BY NextKeeps
<1> QED BY <1>1, <1>2, PTL DEF Crew!Spec

LEMMA OneHolds ==
  ASSUME IInv
  PROVE  Crew!OneInTheBox
<1> DEFINE T == {r \in Crew!Rows \ revived : Crew!InBox(r)}
<1>1. SUFFICES ASSUME shared PROVE Cardinality(T) <= 1
  BY SameCard DEF Crew!OneInTheBox
<1>2. Leases
  BY DEF IInv
<1>3. \A r \in T : Holding(r)
  BY DEF Crew!InBox, Holding
<1>4. \A p, q \in T : p = q
  BY <1>1, <1>2, <1>3 DEF Leases
<1>5. CASE T = {}
  <2>1. Cardinality(T) = 0
    BY <1>5, FS_EmptySet
  <2> QED BY <2>1
<1>6. CASE T # {}
  <2>1. PICK r : r \in T
    BY <1>6
  <2>2. T = {r}
    BY <1>4, <2>1
  <2>3. Cardinality(T) = 1
    BY <2>2, FS_Singleton
  <2> QED BY <2>3
<1> QED BY <1>5, <1>6

LEMMA IInvSays ==
  ASSUME IInv
  PROVE  Crew!SubagentInv
<1>1. Crew!TypeOK /\ Leases /\ Modes /\ Crew!Slots /\ \A q \in Crew!Rows : At(q)
  BY DEF IInv
<1>2. Crew!OneInTheBox
  BY OneHolds
<1>3. ASSUME NEW r \in Crew!Rows
      PROVE  /\ Crew!Known(r) /\ runs[r].halt => runs[r].status \notin {"done", "failed"}
             /\ Crew!Over(r) /\ r \notin crossed \cup revived => pi[r].work # "tool" /\ pi[r].subs = {}
             /\ Crew!Over(r) => runs[r].owed \/ news[r] = runs[r].status
  BY <1>1 DEF At, RowAt
<1>4. ASSUME NEW r \in Crew!Rows, Crew!Known(r), runs[r].status = "done"
      PROVE  answers[r] = runs[r].rev
  BY <1>1, <1>4 DEF At, RowAt, PiAt
<1>5. ASSUME NEW r \in Crew!Rows, mode = "up", Crew!Live(r), lane[r] = None, r \notin crossed
      PROVE  r \in pending \/ (~runs[r].intent /\ runs[r].rev \in watch[r] \cup ready[r])
  BY <1>1, <1>5 DEF At, OwnedAt, Modes
<1>6. Crew!StopWins /\ Crew!QuietWhenOver /\ Crew!Told
  BY <1>3 DEF Crew!StopWins, Crew!QuietWhenOver, Crew!Told
<1>7. Crew!AnswersTheLast
  BY <1>4 DEF Crew!AnswersTheLast
<1>8. Crew!Owned
  BY <1>5 DEF Crew!Owned
<1> QED BY <1>1, <1>2, <1>6, <1>7, <1>8 DEF Crew!SubagentInv

\* Beside memory and a delegation the runs take their own steps or none: the three share no
\* variable.
LEMMA OwnSteps == BackgroundSpec => Crew!Init /\ [][Crew!Next]_(Crew!vars)
<1>1. BackgroundInit => Crew!Init
  BY DEF BackgroundInit
<1>2. [BackgroundNext]_all => [Crew!Next]_(Crew!vars)
  BY DEF BackgroundNext, all, subagents, Crew!vars, Crew!process, Crew!history
<1> QED BY <1>1, <1>2, PTL DEF BackgroundSpec

\* Slots, leases, stops, outcomes, notices and owners of runs hold in every state, whatever
\* was awaited, lost or restarted meanwhile (subagents/drain.ts, settle.ts, recovery.ts).
THEOREM SubagentInvariant ==
  /\ Crew!SubagentsAssumption => (Crew!Spec => []Crew!SubagentInv)
  /\ BackgroundSpec => []SubagentInv
<1>1. Crew!SubagentsAssumption => (Crew!Spec => []Crew!SubagentInv)
  <2> SUFFICES ASSUME Crew!SubagentsAssumption PROVE Crew!Spec => []Crew!SubagentInv
    OBVIOUS
  <2>1. IInv => Crew!SubagentInv
    BY IInvSays
  <2> QED BY <2>1, InductiveInvariant, PTL
<1>2. BackgroundSpec => []SubagentInv
  <2>1. Crew!Init => IInv
    BY InitHolds, CrewAssumption
  <2>2. IInv /\ [Crew!Next]_(Crew!vars) => IInv'
    BY NextKeeps, CrewAssumption
  <2>3. IInv => SubagentInv
    BY IInvSays DEF SubagentInv
  <2> QED BY <2>1, <2>2, <2>3, OwnSteps, PTL
<1> QED BY <1>1, <1>2

\* No step takes a run that is over back to life, but the drain's admission of one that
\* failed while it was in flight (subagents/settle.ts, finalize; admission.ts, throwIfHalted).
THEOREM OverLasts ==
  /\ Crew!SubagentsAssumption => (Crew!Spec => Crew!OverIsFinal)
  /\ BackgroundSpec => Crew!OverIsFinal
<1> DEFINE Final == \A r \in Crew!Rows : Crew!Over(r) /\ r \notin revived' => Crew!Over(r)'
<1>1. Crew!SubagentsAssumption /\ IInv /\ [Crew!Next]_(Crew!vars) => [Final]_runs
  BY NextKeeps DEF Lasting
<1>2. Crew!SubagentsAssumption => (Crew!Spec => Crew!OverIsFinal)
  <2> SUFFICES ASSUME Crew!SubagentsAssumption PROVE Crew!Spec => Crew!OverIsFinal
    OBVIOUS
  <2> QED BY <1>1, InductiveInvariant, PTL DEF Crew!Spec, Crew!OverIsFinal
<1>3. BackgroundSpec => Crew!OverIsFinal
  <2>1. Crew!Init => IInv
    BY InitHolds, CrewAssumption
  <2>2. IInv /\ [Crew!Next]_(Crew!vars) => IInv' /\ [Final]_runs
    BY <1>1, NextKeeps, CrewAssumption
  <2> QED BY <2>1, <2>2, OwnSteps, PTL DEF Crew!OverIsFinal
<1> QED BY <1>2, <1>3

=============================================================================
