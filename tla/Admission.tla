------------------------------ MODULE Admission ------------------------------
(***************************************************************************)
(* How one scan worker shares its capacity among the three scan queues     *)
(* (domain/proxy/worker/admission.go): the reservations of a worker with   *)
(* at least three slots, and the smooth weighted round robin of a smaller  *)
(* one.  Queues are numbered as in contract.ScanQueue: 0 verification,     *)
(* 1 recovery, 2 background.                                               *)
(***************************************************************************)
EXTENDS Integers

scanQueueCount == 3
Queues == 0 .. 2
ScanVerification == 0
ScanRecovery == 1
ScanBackground == 2

Total(f) == f[0] + f[1] + f[2]

-----------------------------------------------------------------------------
(* reservationTargets *)

(* remaining * weight, in hundredths of a slot.                            *)
Entitlement(concurrency, rest) ==
    [i \in Queues |-> (concurrency - scanQueueCount) * rest[i]]

(* The first queue with the largest fractional remainder.                  *)
Best(concurrency, rest) ==
    LET r == [i \in Queues |-> Entitlement(concurrency, rest)[i] % 100]
    IN  CHOOSE i \in Queues :
            \A j \in Queues : r[j] <= r[i] /\ (r[j] = r[i] => i <= j)

(* One round of the leftover loop; a queue's remainder wins one slot.      *)
Grant(concurrency, g) ==
    LET best == Best(concurrency, g.rest)
    IN  [targets |-> [g.targets EXCEPT ![best] = @ + 1],
         rest |-> [g.rest EXCEPT ![best] = 0]]

(* One slot per queue, and the whole part of its proportional share.       *)
Reserved(concurrency, weights) ==
    [i \in Queues |-> 1 + Entitlement(concurrency, weights)[i] \div 100]

(* At most two slots are left over, one per round of the loop.             *)
reservationTargets(concurrency, weights) ==
    LET base == [targets |-> Reserved(concurrency, weights), rest |-> weights]
        once == Grant(concurrency, base)
        twice == Grant(concurrency, once)
        leftover == concurrency - Total(base.targets)
    IN  CASE concurrency < scanQueueCount -> [i \in Queues |-> 0]
          [] concurrency >= scanQueueCount /\ leftover <= 0 -> base.targets
          [] concurrency >= scanQueueCount /\ leftover = 1 -> once.targets
          [] OTHER -> twice.targets

(* What the reservations promise for legal weights: the whole concurrency  *)
(* is handed out, one slot to each queue and of the rest its proportional  *)
(* share to within one slot.                                               *)
Proportional(concurrency, weights) ==
    LET t == reservationTargets(concurrency, weights)
        share == Entitlement(concurrency, weights)
    IN  /\ Total(t) = concurrency
        /\ \A i \in Queues : /\ 100 * (t[i] - 1) > share[i] - 100
                             /\ 100 * (t[i] - 1) < share[i] + 100

-----------------------------------------------------------------------------
(* chooseSmall *)

(* Every available queue earns its weight; an unavailable one loses what   *)
(* it had.                                                                 *)
Earned(credits, available, weights) ==
    [i \in Queues |-> IF i \in available THEN credits[i] + weights[i] ELSE 0]

(* The available queue with the most credit, the first among equals.       *)
ChosenSmall(credits, available, weights) ==
    LET e == Earned(credits, available, weights)
    IN  CHOOSE i \in available :
            \A j \in available : e[j] <= e[i] /\ (e[j] = e[i] => i <= j)

(* The winner pays the total weight of the available queues.               *)
Paid(credits, available, weights) ==
    [Earned(credits, available, weights)
        EXCEPT ![ChosenSmall(credits, available, weights)] =
            @ - Total([i \in Queues |-> IF i \in available THEN weights[i] ELSE 0])]

(* The credits after chooseSmall, which pays even when it finds no queue.  *)
chooseSmall(credits, available, weights) ==
    IF available = {}
      THEN Earned(credits, available, weights)
      ELSE Paid(credits, available, weights)
=============================================================================
