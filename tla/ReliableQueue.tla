--------------------------- MODULE ReliableQueue ---------------------------
(***************************************************************************)
(* What contract.Queue (port/contract/queue.go) promises, without queues,  *)
(* channels or deliveries: a job that was accepted stays retained until it *)
(* is finished, and a parked job stays for inspection.  A job may be       *)
(* retained again after it was forgotten (at-least-once).                  *)
(***************************************************************************)
CONSTANTS Jobs, Initial

VARIABLES accepted, retained, finished, parked

vars == <<accepted, retained, finished, parked>>

Init ==
    /\ accepted = Initial
    /\ retained = Initial
    /\ finished = {}
    /\ parked = {}

Accept(j) ==
    /\ accepted' = accepted \cup {j}
    /\ retained' = retained \cup {j}
    /\ UNCHANGED <<finished, parked>>

Retain(j) ==
    /\ j \in accepted
    /\ retained' = retained \cup {j}
    /\ UNCHANGED <<accepted, finished, parked>>

Complete(j) ==
    /\ j \in accepted
    /\ finished' = finished \cup {j}
    /\ UNCHANGED <<accepted, retained, parked>>

Park(j) ==
    /\ j \in accepted
    /\ retained' = retained \cup {j}
    /\ parked' = parked \cup {j}
    /\ UNCHANGED <<accepted, finished>>

Forget(j) ==
    /\ j \in finished \ parked
    /\ retained' = retained \ {j}
    /\ UNCHANGED <<accepted, finished, parked>>

Next ==
    \E j \in Jobs : Accept(j) \/ Retain(j) \/ Complete(j) \/ Park(j) \/ Forget(j)

Spec == Init /\ [][Next]_vars
=============================================================================
