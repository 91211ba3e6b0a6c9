------------------------------- MODULE Sweeps -------------------------------
(***************************************************************************)
(* The two sweeps at work on one characters table: the daemons, operators, *)
(* scanners and manual runs take their steps in any order, and a consumer  *)
(* stores a character only if a job of either sweep covers its ID.         *)
(***************************************************************************)
EXTENDS IDSweep, FillGaps

sweepVars == <<nextId, first, batchVars, published>>
scanVars == <<cursor, runVars, covered>>
allVars == <<chars, failures, sweepVars, scanVars>>

AllInit == Init /\ GapInit

Consume == \E i \in published \cup covered : StoreCharacter(i)

AllNext ==
    \/ ForwardStep /\ UNCHANGED scanVars
    \/ GapStep /\ UNCHANGED sweepVars
    \/ Consume /\ UNCHANGED <<failures, sweepVars, scanVars>>

AllSpec == AllInit /\ [][AllNext]_allVars

(* Together the sweeps leave no hole: an ID that the gap cursor has passed *)
(* or the forward cursor, since its row was created, is queued or stored,  *)
(* although each sweep moves the maximum the other one reads.              *)
NoHole ==
    \A i \in IDs :
        (i <= cursor \/ (first # 0 /\ first <= i /\ i < nextId)) => i \in chars \cup covered \cup published
=============================================================================
