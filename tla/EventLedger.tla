---------------------------- MODULE EventLedger ----------------------------
(***************************************************************************)
(* What the durable event platform promises to a producer and to a         *)
(* subscriber, without rows, leases, tasks or workers.  A delivery is owed *)
(* from the commit of its event; the subscriber hears it any number of     *)
(* times; it is delivered only when heard, or dropped; and it is settled   *)
(* for good unless its claim was once revoked.                             *)
(***************************************************************************)
CONSTANT Delivery

VARIABLES state,    \* "none", "owed", "delivered" or "dropped"
          heard,    \* the subscriber has returned normally
          revoked   \* a claim was taken away from its worker

ledger == <<state, heard, revoked>>

Init ==
    /\ state = [d \in Delivery |-> "none"]
    /\ heard = [d \in Delivery |-> FALSE]
    /\ revoked = [d \in Delivery |-> FALSE]

Owe(ds) ==
    /\ \A d \in ds : state[d] = "none"
    /\ state' = [d \in Delivery |-> IF d \in ds THEN "owed" ELSE state[d]]
    /\ UNCHANGED <<heard, revoked>>

Hear(d) ==
    /\ state[d] # "none"
    /\ heard' = [heard EXCEPT ![d] = TRUE]
    /\ UNCHANGED <<state, revoked>>

Revoke(d) ==
    /\ state[d] = "owed"
    /\ revoked' = [revoked EXCEPT ![d] = TRUE]
    /\ UNCHANGED <<state, heard>>

\* The outcome of an attempt: "delivered" only to a subscriber that heard it.
Conclude(d, outcome) ==
    /\ state[d] # "none"
    /\ state[d] = "owed" \/ revoked[d]
    /\ outcome = "delivered" => heard[d]
    /\ state' = [state EXCEPT ![d] = outcome]
    /\ UNCHANGED <<heard, revoked>>

Next ==
    \/ \E ds \in SUBSET Delivery : Owe(ds)
    \/ \E d \in Delivery : Hear(d) \/ Revoke(d)
    \/ \E d \in Delivery, outcome \in {"owed", "delivered", "dropped"} : Conclude(d, outcome)

Spec == Init /\ [][Next]_ledger
=============================================================================
