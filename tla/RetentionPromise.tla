--------------------------- MODULE RetentionPromise ---------------------------
(***************************************************************************)
(* What long-term memory promises of an exchange, whatever the queue does. *)
(* An exchange becomes owed when it is said in a topic that is on, and is  *)
(* refused in one that is off.  Turning the topic off or deleting it drops *)
(* what is owed, but for the one exchange whose request may be on its way; *)
(* from then on only the operator's retry of what is parked owes the       *)
(* memory anything.  What was accepted is followed until it is kept or     *)
(* parked in sight of the operator, what is being deleted is only ever     *)
(* deleted, and what is forgotten never owes anything again.               *)
(***************************************************************************)
CONSTANT Docs
VARIABLES topic, fate, bank

Fates == {"unsaid", "refused", "owed", "sent", "kept", "parked", "dismissed", "dropped",
          "leaving", "forgotten"}

Of(S) == {d \in Docs : fate[d] \in S}
Become(D, f) == fate' = [d \in Docs |-> IF d \in D THEN f ELSE fate[d]]

Move(d) ==
    \/ d \in Of({"unsaid"}) /\ topic = "on" /\ Become({d}, "owed")
    \/ d \in Of({"unsaid"}) /\ topic = "off" /\ Become({d}, "refused")
    \/ d \in Of({"owed"}) /\ Become({d}, "sent")
    \/ d \in Of({"sent"}) /\ d \in bank /\ Become({d}, "kept")
    \/ d \in Of({"owed", "sent"}) /\ Become({d}, "parked")
    \/ d \in Of({"owed", "sent", "kept", "parked", "dismissed"}) /\ Become({d}, "leaving")

Retry == Become(Of({"parked"}), "owed")

Operator ==
    \/ \E D \in SUBSET Of({"owed"}) : Become(D, "dropped")
    \/ Retry
    \/ Become(Of({"parked"}), "dismissed")

Shut ==
    /\ topic # "deleted" /\ topic' \in {"off", "deleted"} \ {topic}
    /\ \E D \in SUBSET Of({"owed"}) :
        Become(D, "dropped") /\ \A d, e \in Of({"owed"}) \ D : d = e

Reopen == topic = "off" /\ topic' = "on" /\ UNCHANGED fate

Forget(d) ==
    /\ d \in Of({"refused", "dropped", "leaving", "forgotten"}) /\ Become({d}, "forgotten")
    /\ bank' = bank \ {d}

Arrive(d) ==
    /\ d \notin Of({"unsaid", "refused"}) /\ bank' = bank \cup {d}
    /\ UNCHANGED fate

Init == topic = "on" /\ fate = [d \in Docs |-> "unsaid"] /\ bank = {}

Next ==
    \/ UNCHANGED bank /\ (Shut \/ Reopen)
    \/ UNCHANGED <<topic, bank>> /\ (Operator \/ \E d \in Docs : Move(d))
    \/ /\ UNCHANGED topic
       /\ \E d \in Docs : Forget(d) \/ Arrive(d) \/ (bank' = bank \ {d} /\ UNCHANGED fate)

Spec == Init /\ [][Next]_<<topic, fate, bank>>
=============================================================================
