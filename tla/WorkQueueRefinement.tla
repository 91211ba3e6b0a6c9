------------------------ MODULE WorkQueueRefinement ------------------------
(* WorkQueue implements ReliableQueue: the copies in the broker retain a   *)
(* job, a nil-returning handler call finishes it, a dead copy parks it.    *)
EXTENDS WorkQueue

retained == {slot[s].job : s \in {t \in Slots : slot[t] # Free}}
parked == {slot[s].job : s \in {t \in Slots : slot[t].queue = "dead"}}

Abstract == INSTANCE ReliableQueue WITH
    Initial <- Legacy, accepted <- stored, finished <- done

(* Every step of the queue implementation is a step of the promised queue  *)
(* or invisible to it; in particular only an Ack of a finished job may     *)
(* forget the last copy of it.                                             *)
Refines == Abstract!Spec
=============================================================================
