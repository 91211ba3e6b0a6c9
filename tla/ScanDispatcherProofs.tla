------------------------ MODULE ScanDispatcherProofs ------------------------
(***************************************************************************)
(* Proofs about ScanDispatcher for every table, concurrency, weights and   *)
(* number of faults: type correctness, OutageNeverBlamed,                  *)
(* OwnedIsOutstanding, ShutdownReleases, Capacity and TargetsProportional. *)
(* They rest on lemmas about Admission: the types of its operators, and    *)
(* that reservationTargets keeps its promise.                              *)
(***************************************************************************)
EXTENDS ScanDispatcher, FiniteSetTheorems, TLAPS

-----------------------------------------------------------------------------
(* The admission of work.                                                  *)

(* Ties are broken by the order of the queues, so there is a first best.   *)
LEMMA FirstBest ==
    ASSUME NEW e \in [Queues -> Int], NEW S \in SUBSET Queues, S # {}
    PROVE  \E i \in S : \A j \in S : e[j] <= e[i] /\ (e[j] = e[i] => i <= j)
<1> DEFINE Loses(i) == \E j \in S : e[j] > e[i] \/ (e[j] = e[i] /\ j < i)
<1>1. Queues = {0, 1, 2} /\ e[0] \in Int /\ e[1] \in Int /\ e[2] \in Int
  BY DEF Queues
<1>2. \E i \in S : ~Loses(i)
  <2>1. 0 \in S /\ Loses(0) => (1 \in S /\ e[1] > e[0]) \/ (2 \in S /\ e[2] > e[0])
    BY <1>1
  <2>2. 1 \in S /\ Loses(1) => (0 \in S /\ e[0] >= e[1]) \/ (2 \in S /\ e[2] > e[1])
    BY <1>1
  <2>3. 2 \in S /\ Loses(2) => (0 \in S /\ e[0] >= e[2]) \/ (1 \in S /\ e[1] >= e[2])
    BY <1>1
  <2>4. 0 \in S \/ 1 \in S \/ 2 \in S
    BY <1>1, Zenon
  <2> HIDE DEF Loses
  <2>5. QED
    BY <1>1, <2>1, <2>2, <2>3, <2>4
<1>3. QED
  BY <1>1, <1>2

(* A hundredth of a natural number, and what remains, are natural.         *)
LEMMA DivType ==
    ASSUME NEW n \in Nat
    PROVE  n \div 100 \in Nat /\ n % 100 \in Nat
OBVIOUS

(* So is a product of two.                                                 *)
LEMMA ProductType ==
    ASSUME NEW m \in Nat, NEW n \in Nat
    PROVE  m * n \in Nat
OBVIOUS

(* Best is a queue, and no queue has a larger remainder.                   *)
LEMMA BestOf ==
    ASSUME NEW c \in Nat, c >= 3, NEW rest \in [Queues -> Nat]
    PROVE  /\ Best(c, rest) \in Queues
           /\ \A j \in Queues : Entitlement(c, rest)[j] % 100
                                    <= Entitlement(c, rest)[Best(c, rest)] % 100
<1> DEFINE r == [i \in Queues |-> Entitlement(c, rest)[i] % 100]
<1>1. r \in [Queues -> Nat]
  <2> SUFFICES ASSUME NEW i \in Queues PROVE Entitlement(c, rest)[i] % 100 \in Nat
    BY Zenon
  <2>1. (c - 3) * rest[i] \in Nat
    BY ProductType
  <2>2. QED
    BY <2>1, DivType, Zenon DEF Entitlement, scanQueueCount
<1>2. \A i \in Queues : r[i] = Entitlement(c, rest)[i] % 100
  BY Zenon
<1> HIDE DEF r
<1>3. \E i \in Queues : \A j \in Queues : r[j] <= r[i] /\ (r[j] = r[i] => i <= j)
  BY <1>1, FirstBest DEF Queues
<1>4. /\ Best(c, rest) \in Queues
      /\ \A j \in Queues : r[j] <= r[Best(c, rest)]
  BY <1>3, Zenon DEF Best, r
<1>5. QED
  BY <1>2, <1>4, Zenon

(* One round of the leftover loop leaves targets and weights natural.      *)
LEMMA GrantType ==
    ASSUME NEW c \in Nat, c >= 3, NEW g,
           g.targets \in [Queues -> Nat], g.rest \in [Queues -> Nat]
    PROVE  /\ Grant(c, g).targets \in [Queues -> Nat]
           /\ Grant(c, g).rest \in [Queues -> Nat]
BY BestOf DEF Grant

(* reservationTargets reserves a natural number of slots for each queue.   *)
LEMMA TargetsType ==
    ASSUME NEW c \in Nat, NEW weights \in [Queues -> Nat]
    PROVE  reservationTargets(c, weights) \in [Queues -> Nat]
<1> DEFINE base == [targets |-> Reserved(c, weights), rest |-> weights]
           once == Grant(c, base)
           twice == Grant(c, once)
<1>1. CASE c < 3
  BY <1>1 DEF reservationTargets, scanQueueCount
<1>2. CASE c >= 3
  <2>1. Reserved(c, weights) \in [Queues -> Nat] /\ weights \in [Queues -> Nat]
    <3>1. ASSUME NEW i \in Queues PROVE 1 + Entitlement(c, weights)[i] \div 100 \in Nat
      <4>1. (c - 3) * weights[i] \in Nat
        BY <1>2, ProductType
      <4>2. QED
        BY <4>1, DivType DEF Entitlement, scanQueueCount
    <3>2. QED
      BY <3>1, Zenon DEF Reserved
  <2>2. base.targets \in [Queues -> Nat] /\ base.rest \in [Queues -> Nat]
    BY <2>1, Zenon
  <2> HIDE DEF base
  <2>3. once.targets \in [Queues -> Nat] /\ once.rest \in [Queues -> Nat]
    BY <1>2, <2>2, GrantType, Zenon
  <2> HIDE DEF once
  <2>4. twice.targets \in [Queues -> Nat]
    BY <1>2, <2>3, GrantType, Zenon
  <2> HIDE DEF twice
  <2>5. reservationTargets(c, weights) \in {base.targets, once.targets, twice.targets}
    BY <1>2 DEF reservationTargets, scanQueueCount, base, once, twice
  <2>6. QED
    BY <2>2, <2>3, <2>4, <2>5, Zenon
<1>3. QED
  BY <1>1, <1>2

(* chooseSmall chooses one of the queues it is offered.                    *)
LEMMA ChosenType ==
    ASSUME NEW c \in [Queues -> Int], NEW weights \in [Queues -> Nat],
           NEW S \in SUBSET Queues, S # {}
    PROVE  ChosenSmall(c, S, weights) \in S
<1> DEFINE e == Earned(c, S, weights)
<1>1. e \in [Queues -> Int]
  BY DEF Earned
<1> HIDE DEF e
<1>2. \E i \in S : \A j \in S : e[j] <= e[i] /\ (e[j] = e[i] => i <= j)
  BY <1>1, FirstBest, Zenon
<1>3. QED
  BY <1>2, Zenon DEF ChosenSmall, e

(* chooseSmall leaves integer credits, whether or not it finds a queue.    *)
LEMMA CreditsType ==
    ASSUME NEW c \in [Queues -> Int], NEW weights \in [Queues -> Nat],
           NEW S \in SUBSET Queues
    PROVE  chooseSmall(c, S, weights) \in [Queues -> Int]
<1>1. Earned(c, S, weights) \in [Queues -> Int]
  BY DEF Earned
<1>2. Total([i \in Queues |-> IF i \in S THEN weights[i] ELSE 0]) \in Int
  BY DEF Total, Queues
<1>3. S # {} => ChosenSmall(c, S, weights) \in Queues
  BY ChosenType, Zenon
<1>4. QED
  BY <1>1, <1>2, <1>3 DEF chooseSmall, Paid

(* Division by a hundred with its remainder.                               *)
LEMMA DivMod ==
    ASSUME NEW n \in Nat
    PROVE  /\ n \div 100 \in Nat /\ n % 100 \in 0 .. 99
           /\ n = 100 * (n \div 100) + (n % 100)
<1>1. n \div 100 \in Nat /\ n % 100 \in 0 .. 99
  OBVIOUS
<1>2. n = 100 * (n \div 100) + (n % 100)
  OBVIOUS
<1>3. QED
  BY <1>1, <1>2, Zenon

(* reservationTargets hands out the whole concurrency, in proportion.      *)
LEMMA TargetsProportionalFor ==
    ASSUME NEW c \in Nat, c >= 3, NEW w \in [Queues -> Nat], Total(w) = 100
    PROVE  Proportional(c, w)
<1> DEFINE e == Entitlement(c, w)
           d == [i \in Queues |-> e[i] \div 100]
           m == [i \in Queues |-> e[i] % 100]
           base == [targets |-> Reserved(c, w), rest |-> w]
           once == Grant(c, base)
           twice == Grant(c, once)
           b == Best(c, w)
           rest == [w EXCEPT ![b] = 0]
           b2 == Best(c, rest)
           leftover == c - Total(base.targets)
<1>0. Queues = {0, 1, 2} /\ scanQueueCount = 3
  BY DEF Queues, scanQueueCount
<1>1. /\ e \in [Queues -> Nat]
      /\ e[0] + e[1] + e[2] = 100 * (c - 3)
  <2>1. \A i \in Queues : e[i] = (c - 3) * w[i] /\ (c - 3) * w[i] \in Nat
    BY <1>0, ProductType DEF Entitlement
  <2>2. (c - 3) * w[0] + (c - 3) * w[1] + (c - 3) * w[2] = 100 * (c - 3)
    <3>1. /\ c - 3 \in Nat /\ w[0] \in Nat /\ w[1] \in Nat /\ w[2] \in Nat
          /\ w[0] + w[1] + w[2] = 100
      BY <1>0 DEF Total
    <3>2. PICK n \in Nat : n = c - 3
      BY <3>1, Zenon
    <3>3. PICK u \in Nat, v \in Nat, x \in Nat : u = w[0] /\ v = w[1] /\ x = w[2]
      BY <3>1
    <3>4. n * u + n * v + n * x = n * (u + v + x)
      OBVIOUS
    <3>5. u + v + x = 100
      BY <3>1, <3>3, Zenon
    <3>6. n * u + n * v + n * x = 100 * n
      BY <3>4, <3>5
    <3>7. QED
      BY <3>2, <3>3, <3>6, Zenon
  <2>3. QED
    BY <1>0, <2>1, <2>2, Zenon DEF Entitlement
<1>2. \A i \in Queues : d[i] \in Nat /\ m[i] \in 0 .. 99 /\ e[i] = 100 * d[i] + m[i]
  BY <1>1, DivMod, SMTT(30)
<1> DEFINE Split(i) == d[i] \in Nat /\ m[i] \in 0 .. 99 /\ e[i] = 100 * d[i] + m[i]
<1>2a. Split(0) /\ Split(1) /\ Split(2)
  BY <1>0, <1>2, Zenon
<1>2b. ASSUME NEW t, NEW x0 \in Nat, NEW x1 \in Nat, NEW x2 \in Nat,
              t[0] = 1 + d[0] + x0, t[1] = 1 + d[1] + x1, t[2] = 1 + d[2] + x2,
              c - (3 + d[0] + d[1] + d[2]) = x0 + x1 + x2
       PROVE  Total(t) = c
  <2> HIDE DEF d, m, e
  <2>1. PICK d0 \in Nat, d1 \in Nat, d2 \in Nat : d0 = d[0] /\ d1 = d[1] /\ d2 = d[2]
    BY <1>2a
  <2>2. c - (3 + d0 + d1 + d2) = x0 + x1 + x2
    BY <1>2b, <2>1, Zenon
  <2>3. (1 + d0 + x0) + (1 + d1 + x1) + (1 + d2 + x2) = c
    BY <2>2
  <2>4. t[0] = 1 + d0 + x0 /\ t[1] = 1 + d1 + x1 /\ t[2] = 1 + d2 + x2
    BY <1>2b, <2>1, Zenon
  <2>5. QED
    BY <2>3, <2>4, Zenon DEF Total
<1>3. Reserved(c, w) = [i \in Queues |-> 1 + d[i]]
  BY Zenon DEF Reserved
<1>4. b \in Queues /\ \A j \in Queues : m[j] <= m[b]
  BY <1>0, BestOf
<1>5. rest \in [Queues -> Nat]
  BY <1>0, Zenon
<1>6. /\ b2 \in Queues
      /\ \A j \in Queues : Entitlement(c, rest)[j] % 100 <= Entitlement(c, rest)[b2] % 100
  <2> HIDE DEF rest
  <2>1. QED
    BY <1>5, BestOf
<1>7. \A j \in Queues : Entitlement(c, rest)[j] % 100 = IF j = b THEN 0 ELSE m[j]
  <2> SUFFICES ASSUME NEW j \in Queues
               PROVE  Entitlement(c, rest)[j] % 100 = IF j = b THEN 0 ELSE m[j]
    BY Zenon
  <2>1. CASE j = b
    <3>1. Entitlement(c, rest)[j] = (c - 3) * 0
      BY <1>0, <1>4, <2>1 DEF Entitlement
    <3>2. (c - 3) * 0 = 0 /\ 0 % 100 = 0
      OBVIOUS
    <3>3. QED
      BY <2>1, <3>1, <3>2, Zenon
  <2>2. CASE j # b
    BY <2>2, Zenon DEF Entitlement
  <2>3. QED
    BY <2>1, <2>2, Zenon
<1>8. /\ base.targets = [i \in Queues |-> 1 + d[i]]
      /\ once.targets = [[i \in Queues |-> 1 + d[i]] EXCEPT ![b] = @ + 1]
      /\ once.rest = rest
      /\ twice.targets = [once.targets EXCEPT ![b2] = @ + 1]
  BY <1>3, Zenon DEF Grant
<1>9. /\ leftover = c - (3 + d[0] + d[1] + d[2])
      /\ 100 * leftover = m[0] + m[1] + m[2]
      /\ leftover \in 0 .. 2
  <2>1. leftover = c - (3 + d[0] + d[1] + d[2])
    BY <1>0, <1>2, <1>8 DEF Total
  <2> HIDE DEF leftover, d, m, e
  <2>2. (100 * d[0] + m[0]) + (100 * d[1] + m[1]) + (100 * d[2] + m[2]) = 100 * (c - 3)
    BY <1>1, <1>2a, Zenon
  <2>3. PICK d0 \in Nat, d1 \in Nat, d2 \in Nat : d0 = d[0] /\ d1 = d[1] /\ d2 = d[2]
    <3>1. d[0] \in Nat /\ d[1] \in Nat /\ d[2] \in Nat
      BY <1>2a, Zenon
    <3> QED
      BY <3>1
  <2>4. m[0] \in 0 .. 99 /\ m[1] \in 0 .. 99 /\ m[2] \in 0 .. 99
    BY <1>2a, Zenon
  <2>4a. PICK m0 \in 0 .. 99 : m0 = m[0]
    BY <2>4, Zenon
  <2>4b. PICK m1 \in 0 .. 99 : m1 = m[1]
    BY <2>4
  <2>4c. PICK m2 \in 0 .. 99 : m2 = m[2]
    BY <2>4
  <2>5. (100 * d0 + m0) + (100 * d1 + m1) + (100 * d2 + m2) = 100 * (c - 3)
    BY <2>2, <2>3, <2>4a, <2>4b, <2>4c, Zenon
  <2>6. /\ 100 * (c - (3 + d0 + d1 + d2)) = m0 + m1 + m2
        /\ c - (3 + d0 + d1 + d2) \in 0 .. 2
    BY <2>5
  <2>7. QED
    BY <2>1, <2>3, <2>4a, <2>4b, <2>4c, <2>6, ZenonT(30)
<1>10. reservationTargets(c, w) = IF leftover = 0 THEN base.targets
                                  ELSE IF leftover = 1 THEN once.targets
                                  ELSE twice.targets
  <2> HIDE DEF base, once, twice
  <2>1. QED
    BY <1>0, <1>9 DEF reservationTargets, base, once, twice
<1> DEFINE t == reservationTargets(c, w)
<1> HIDE DEF e, d, m, base, once, twice, b, rest, b2, leftover, t
<1>11. CASE leftover = 0
  <2>1. t = [i \in Queues |-> 1 + d[i]]
    BY <1>8, <1>10, <1>11, Zenon DEF t
  <2>2. Total(t) = c
    <3>1. t[0] = 1 + d[0] + 0 /\ t[1] = 1 + d[1] + 0 /\ t[2] = 1 + d[2] + 0
      BY <1>0, <1>2a, <2>1
    <3>2. c - (3 + d[0] + d[1] + d[2]) = 0 + 0 + 0
      BY <1>9, <1>11
    <3>3. QED
      BY <1>2b, <3>1, <3>2
  <2>3. \A i \in Queues : 100 * (t[i] - 1) > e[i] - 100 /\ 100 * (t[i] - 1) < e[i] + 100
    BY <1>2, <2>1
  <2>4. QED
    BY <2>2, <2>3, Zenon DEF Proportional, t, e
<1>12. CASE leftover = 1
  <2>1. \A i \in Queues : t[i] = 1 + d[i] + (IF i = b THEN 1 ELSE 0)
    BY <1>2, <1>4, <1>8, <1>10, <1>12 DEF t
  <2>2. Total(t) = c
    <3>1. /\ t[0] = 1 + d[0] + (IF 0 = b THEN 1 ELSE 0)
          /\ t[1] = 1 + d[1] + (IF 1 = b THEN 1 ELSE 0)
          /\ t[2] = 1 + d[2] + (IF 2 = b THEN 1 ELSE 0)
          /\ b \in {0, 1, 2}
      BY <1>0, <1>4, <2>1, Zenon
    <3>2. c - (3 + d[0] + d[1] + d[2])
              = (IF 0 = b THEN 1 ELSE 0) + (IF 1 = b THEN 1 ELSE 0) + (IF 2 = b THEN 1 ELSE 0)
      BY <1>9, <1>12, <3>1
    <3>3. QED
      BY <1>2b, <3>1, <3>2
  <2>3. m[b] > 0
    BY <1>0, <1>2, <1>4, <1>9, <1>12
  <2>4. \A i \in Queues : 100 * (t[i] - 1) > e[i] - 100 /\ 100 * (t[i] - 1) < e[i] + 100
    BY <1>2, <1>4, <2>1, <2>3, SMTT(30)
  <2>5. QED
    BY <2>2, <2>4 DEF Proportional, t, e
<1>13. CASE leftover = 2
  <2>1. m[b2] > 0 /\ b2 # b
    <3>1. \A j \in Queues : j # b => (b2 # b /\ m[j] <= m[b2]) \/ m[j] = 0
      BY <1>2, <1>4, <1>6, <1>7
    <3>2. \E j \in Queues : j # b /\ m[j] > 0
      BY <1>0, <1>2, <1>4, <1>9, <1>13
    <3>3. QED
      BY <1>2, <1>6, <3>1, <3>2
  <2>2. m[b] > 0
    BY <1>2, <1>4, <1>6, <2>1
  <2>3. \A i \in Queues :
            t[i] = 1 + d[i] + (IF i = b THEN 1 ELSE 0) + (IF i = b2 THEN 1 ELSE 0)
    BY <1>2, <1>4, <1>6, <1>8, <1>10, <1>13 DEF t
  <2>4. Total(t) = c
    <3> DEFINE X(i) == IF i \in {b, b2} THEN 1 ELSE 0
    <3>1. /\ t[0] = 1 + d[0] + X(0) /\ t[1] = 1 + d[1] + X(1) /\ t[2] = 1 + d[2] + X(2)
          /\ b \in {0, 1, 2} /\ b2 \in {0, 1, 2}
      BY <1>0, <1>2a, <1>4, <1>6, <2>1, <2>3
    <3>2. c - (3 + d[0] + d[1] + d[2]) = X(0) + X(1) + X(2)
      BY <1>9, <1>13, <2>1, <3>1
    <3>3. X(0) \in Nat /\ X(1) \in Nat /\ X(2) \in Nat
      BY Zenon
    <3> HIDE DEF X
    <3>4. QED
      BY <1>2b, <3>1, <3>2, <3>3
  <2>5. \A i \in Queues : 100 * (t[i] - 1) > e[i] - 100 /\ 100 * (t[i] - 1) < e[i] + 100
    <3> SUFFICES ASSUME NEW i \in Queues
                 PROVE  100 * (t[i] - 1) > e[i] - 100 /\ 100 * (t[i] - 1) < e[i] + 100
      BY Zenon
    <3>1. Split(i) /\ (i \in {b, b2} => m[i] > 0)
      BY <1>2, <2>1, <2>2
    <3>2. t[i] = 1 + d[i] + (IF i \in {b, b2} THEN 1 ELSE 0)
      BY <2>1, <2>3, <3>1
    <3>3. QED
      BY <3>1, <3>2
  <2>6. QED
    BY <2>4, <2>5 DEF Proportional, t, e
<1>14. QED
  BY <1>9, <1>11, <1>12, <1>13

-----------------------------------------------------------------------------
(* The dispatcher.                                                         *)

(* The generation an attempt starts under is never ahead of the guard, and *)
(* is behind it once an outage was seen.                                   *)
GenerationsOrdered ==
    /\ guard.Generation <= faults
    /\ \A a \in attempts :
          /\ a.start.Generation <= guard.Generation
          /\ a.outage => a.start.Generation < guard.Generation
          /\ a.phase = "queued" => ~a.outage /\ a.kind = "other"

(* newScanToken: two attempts on one row have different tokens.            *)
TokensDiffer ==
    \A a, b \in attempts : a.row = b.row /\ a.token = b.token => a = b

(* Of several attempts on one row only the last can still hold its lease,  *)
(* and it was leased while another was outstanding.                        *)
LastHoldsLease ==
    \A a, b \in attempts :
        a.row = b.row /\ a # b /\ lease[a.row] = a.token => a.overlap

LeaseIsOwned ==
    \A a \in attempts :
        lease[a.row] = a.token /\ ~a.overlap => owned[a.row] = a.token

NothingOwned == pc \in {"stopped", "returned"} => Owned = {}

Leases ==
    /\ TokensDiffer /\ LastHoldsLease /\ LeaseIsOwned /\ OwnedIsOutstanding
    /\ NothingOwned

Sized == IsFiniteSet(attempts) /\ Capacity

Ended == {"release", "stopped", "returned"}

(* A lease in the table belongs to an attempt, to the update being written *)
(* or to a store call that failed.                                         *)
Accounted ==
    /\ \A r \in Rows : lease[r] # 0 =>
           \/ r \in lost
           \/ \E a \in attempts \cup pending : a.row = r /\ a.token = lease[r]
    /\ \A u, v \in pending : u = v
    /\ pc \in Ended => pending = {}

IInv == TypeOK /\ GenerationsOrdered /\ OutageNeverBlamed /\ Leases /\ Sized /\ Accounted

-----------------------------------------------------------------------------
(* Admission *)

(* A nonempty set of queues has a first one.                               *)
LEMMA MinIn ==
    ASSUME NEW S \in SUBSET Queues, S # {}
    PROVE  Min(S) \in S
<1>1. Queues = {0, 1, 2}
  BY DEF Queues
<1>2. \E x \in S : \A y \in S : x <= y
  <2>1. 0 \in S => \A y \in S : 0 <= y
    BY <1>1
  <2>2. 0 \notin S => \A y \in S : 1 <= y
    BY <1>1
  <2>3. 0 \notin S /\ 1 \notin S => 2 \in S /\ \A y \in S : 2 <= y
    <3>1. PICK z : z \in S
      BY Zenon
    <3>2. QED
      BY <1>1, <3>1
  <2>4. QED
    BY <2>1, <2>2, <2>3, Zenon
<1>3. QED
  BY <1>2, Zenon DEF Min

(* The weights are natural numbers.                                        *)
LEMMA WeightsType == Weights \in [Queues -> Nat]
BY WeightsAssumption, Zenon

(* The dispatcher asks one of the queues, or none.                         *)
LEMMA AskedType ==
    ASSUME TypeOK
    PROVE  /\ Filling => AskedQueue \in UnderReserved
           /\ AskedQueue \in Queues \cup {-1}
<1>1. UnderReserved \in SUBSET Queues
  BY Zenon DEF UnderReserved
<1>2. CASE Filling
  <2>1. Min(UnderReserved) \in UnderReserved
    BY <1>1, <1>2, MinIn, Zenon DEF Filling
  <2>2. AskedQueue = Min(UnderReserved)
    BY <1>2, Zenon DEF AskedQueue, Filling, Borrowing
  <2>3. QED
    BY <1>1, <2>1, <2>2, Zenon
<1>3. CASE ~Filling /\ Borrowing /\ free > 0 /\ empty # Queues
  <2>1. CASE small
    <3>1. Queues \ empty \in SUBSET Queues /\ Queues \ empty # {}
      BY <1>3, Zenon DEF TypeOK
    <3>2. ChosenSmall(credits, Queues \ empty, Weights) \in Queues
      BY <3>1, ChosenType, WeightsType, Zenon DEF TypeOK
    <3>3. QED
      BY <1>3, <2>1, <3>2, Zenon DEF AskedQueue
  <2>2. CASE ~small
    <3> DEFINE S == {s \in Queues : (borrower + 1 + s) % scanQueueCount \notin empty}
    <3>1. borrower \in 0 .. 2 /\ Queues = {0, 1, 2}
      BY DEF TypeOK, Queues
    <3>2. S # {}
      <4>1. PICK q \in Queues : q \notin empty
        BY <1>3, Zenon DEF TypeOK
      <4>2. \E s \in Queues : (borrower + 1 + s) % 3 = q
        BY <3>1, <4>1
      <4>3. QED
        BY <4>1, <4>2, Zenon DEF scanQueueCount
    <3>3. Min(S) \in Queues
      BY <3>2, MinIn, Zenon
    <3> HIDE DEF S
    <3>4. (borrower + 1 + Min(S)) % 3 \in Queues
      BY <3>1, <3>3
    <3>5. NextBorrower \in Queues
      BY <3>4, Zenon DEF NextBorrower, S, scanQueueCount
    <3>6. QED
      BY <1>3, <2>2, <3>5, Zenon DEF AskedQueue
  <2>3. QED
    BY <2>1, <2>2, Zenon
<1>4. CASE ~Filling /\ ~(Borrowing /\ free > 0 /\ empty # Queues)
  BY <1>4, Zenon DEF AskedQueue
<1>5. QED
  BY <1>2, <1>3, <1>4, Zenon

-----------------------------------------------------------------------------
(* Attempts *)

(* The fields of an attempt have their types.                              *)
LEMMA AttemptFields ==
    ASSUME NEW a \in Attempts
    PROVE  /\ a.row \in Rows /\ a.token \in Tokens /\ a.queue \in Queues
           /\ a.phase \in {"queued", "running", "result"} /\ a.kind \in Kinds
           /\ a.start \in Snapshots /\ a.finish \in Snapshots
           /\ a.outage \in BOOLEAN /\ a.overlap \in BOOLEAN
           /\ a.token # 0
BY ConcurrencyAssumption DEF Attempts, Tokens

(* So have those of a guard snapshot.                                      *)
LEMMA SnapshotFields ==
    ASSUME NEW s \in Snapshots
    PROVE  s.Healthy \in BOOLEAN /\ s.Generation \in 0 .. MaxFaults
BY Zenon DEF Snapshots

(* The guard's first state is a snapshot of generation 0.                  *)
LEMMA NoSnapshotType == NoSnapshot \in Snapshots /\ NoSnapshot.Generation = 0
BY FaultsAssumption DEF NoSnapshot, Snapshots

(* What Attempt changes of an attempt, and what it keeps.                  *)
LEMMA AttemptType ==
    ASSUME NEW a \in Attempts, NEW phase \in {"queued", "running", "result"},
           NEW start \in Snapshots, NEW fin \in Snapshots,
           NEW kind \in Kinds, NEW outage \in BOOLEAN
    PROVE  LET b == Attempt(a, phase, start, fin, kind, outage)
           IN  /\ b \in Attempts
               /\ b.row = a.row /\ b.token = a.token /\ b.queue = a.queue
               /\ b.overlap = a.overlap /\ b.phase = phase /\ b.start = start
               /\ b.kind = kind /\ b.outage = outage
BY AttemptFields, Zenon DEF Attempt, Attempts

(* Marking an attempt leaves all of it alone but the mark.                 *)
LEMMA MarkedType ==
    ASSUME NEW a \in Attempts
    PROVE  /\ Marked(a) \in Attempts
           /\ Marked(a).row = a.row /\ Marked(a).token = a.token
           /\ Marked(a).queue = a.queue /\ Marked(a).overlap = a.overlap
           /\ Marked(a).phase = a.phase /\ Marked(a).start = a.start
           /\ Marked(a).kind = a.kind
           /\ Marked(a).outage => a.outage \/ a.phase = "running" \/ a.kind = "proxy"
<1> DEFINE o == a.outage \/ a.phase = "running" \/ a.kind = "proxy"
<1>1. Marked(a) = Attempt(a, a.phase, a.start, a.finish, a.kind, o)
  BY Zenon DEF Marked
<1>2. CASE o
  <2>1. o = TRUE
    BY <1>2, Zenon
  <2> HIDE DEF o
  <2>2. Marked(a) = Attempt(a, a.phase, a.start, a.finish, a.kind, TRUE)
    BY <1>1, <2>1, Zenon
  <2>3. QED
    BY <1>2, <2>2, AttemptFields DEF o, Attempt, Attempts
<1>3. CASE ~o
  <2>1. o = FALSE
    BY <1>3, Zenon
  <2> HIDE DEF o
  <2>2. Marked(a) = Attempt(a, a.phase, a.start, a.finish, a.kind, FALSE)
    BY <1>1, <2>1, Zenon
  <2>3. QED
    BY <2>2, AttemptFields DEF Attempt, Attempts
<1>4. QED
  BY <1>2, <1>3, Zenon

(* A new token differs from those outstanding on its row.                  *)
LEMMA NewTokenFresh ==
    ASSUME NEW r \in Rows, FreshTokens(r) # {}
    PROVE  /\ NewToken(r) \in Tokens
           /\ \A a \in attempts : a.row = r => a.token # NewToken(r)
BY Zenon DEF FreshTokens, NewToken, Outstanding

(* An attempt that was just leased.                                        *)
LEMMA NewAttemptType ==
    ASSUME NEW r \in Rows, NEW q \in Queues, FreshTokens(r) # {}
    PROVE  LET b == NewAttempt(r, q)
           IN  /\ b \in Attempts
               /\ b.row = r /\ b.token = NewToken(r) /\ b.queue = q
               /\ b.phase = "queued" /\ b.start = NoSnapshot /\ b.kind = "other"
               /\ ~b.outage
               /\ b.overlap <=> Outstanding(r) # {}
BY NewTokenFresh, NoSnapshotType, Zenon DEF NewAttempt, Attempts, Kinds

-----------------------------------------------------------------------------
(* Counting *)

(* Replacing an element keeps the size of a set.                           *)
LEMMA Replaced ==
    ASSUME NEW S, IsFiniteSet(S), NEW a \in S, NEW b, b \notin S \ {a}
    PROVE  /\ IsFiniteSet((S \ {a}) \cup {b})
           /\ Cardinality((S \ {a}) \cup {b}) = Cardinality(S)
<1>1. IsFiniteSet(S \ {a}) /\ Cardinality(S \ {a}) = Cardinality(S) - 1
  BY FS_RemoveElement, Zenon
<1>2. IsFiniteSet((S \ {a}) \cup {b})
      /\ Cardinality((S \ {a}) \cup {b}) = Cardinality(S \ {a}) + 1
  BY <1>1, FS_AddElement, Zenon
<1>3. Cardinality(S) \in Nat
  BY FS_CardinalityType, Zenon
<1>4. QED
  BY <1>1, <1>2, <1>3

(* Sets in one-to-one correspondence have the same size.                   *)
LEMMA OneToOne ==
    ASSUME NEW S, NEW T, IsFiniteSet(S), NEW f \in [S -> T],
           \A x, y \in S : f[x] = f[y] => x = y,
           \A y \in T : \E x \in S : f[x] = y
    PROVE  IsFiniteSet(T) /\ Cardinality(T) = Cardinality(S)
<1>1. f \in Bijection(S, T)
  BY Zenon DEF Bijection, Injection, Surjection, IsInjective
<1>2. ExistsBijection(S, T)
  BY <1>1, Zenon DEF ExistsBijection
<1>3. QED
  BY <1>2, FS_Bijection, Zenon

-----------------------------------------------------------------------------
(* The ways a step changes the attempts and their leases.  Each lemma is   *)
(* about everything but the types and Accounted.                           *)

Facts == GenerationsOrdered /\ OutageNeverBlamed /\ Leases /\ Sized

(* The attempts stay; a lease may go, or come for an attempt nobody has.   *)
LEMMA QuietKeeps ==
    ASSUME IInv, TypeOK',
           UNCHANGED <<attempts, owned, free, inFlight, concurrency, outageBlamed>>,
           guard'.Generation = guard.Generation, faults' >= faults,
           \A a \in attempts : lease'[a.row] = a.token => lease[a.row] = a.token,
           pc \in Ended => pc' \in Ended,
           pc' \in {"stopped", "returned"} => Owned = {}
    PROVE  Facts'
<1> USE DEF IInv
<1>1. GenerationsOrdered'
  BY SnapshotFields DEF GenerationsOrdered, TypeOK
<1>2. OutageNeverBlamed'
  BY Zenon DEF OutageNeverBlamed
<1>3. Leases'
  BY Zenon DEF Leases, TokensDiffer, LastHoldsLease, LeaseIsOwned, OwnedIsOutstanding,
         NothingOwned, Owned, Outstanding
<1>4. Sized'
  BY Zenon DEF Sized, Capacity, Ended
<1>5. QED
  BY <1>1, <1>2, <1>3, <1>4, Zenon DEF Facts

(* The attempt a goes on to b; nothing else happens to leases or slots.    *)
LEMMA ReplaceKeeps ==
    ASSUME IInv, TypeOK', NEW a \in attempts, NEW b \in Attempts,
           b.row = a.row, b.token = a.token, b.queue = a.queue, b.overlap = a.overlap,
           attempts' = (attempts \ {a}) \cup {b},
           UNCHANGED <<guard, pc, free, inFlight, concurrency, owned, lease,
                       outageBlamed, faults>>,
           b.start.Generation <= guard.Generation,
           b.outage => b.start.Generation < guard.Generation,
           b.phase # "queued"
    PROVE  Facts'
<1> USE DEF IInv
<1>1. a \in Attempts
  BY Zenon DEF TypeOK
<1>2. GenerationsOrdered'
  BY Zenon DEF GenerationsOrdered
<1>3. OutageNeverBlamed'
  BY Zenon DEF OutageNeverBlamed
<1>4. b \notin attempts \ {a}
  BY Zenon DEF Leases, TokensDiffer
<1>5. TokensDiffer' /\ LastHoldsLease' /\ LeaseIsOwned'
  BY DEF Leases, TokensDiffer, LastHoldsLease, LeaseIsOwned
<1>6. OwnedIsOutstanding' /\ NothingOwned'
  BY Zenon DEF Leases, OwnedIsOutstanding, NothingOwned, Owned, Outstanding
<1>7. IsFiniteSet(attempts') /\ Cardinality(attempts') = Cardinality(attempts)
  BY <1>4, Replaced, Zenon DEF Sized
<1>8. ASSUME NEW q \in Queues
      PROVE  Cardinality({x \in attempts' : x.queue = q})
                 = Cardinality({x \in attempts : x.queue = q})
  <2> DEFINE S == {x \in attempts : x.queue = q}
  <2>1. IsFiniteSet(S)
    BY FS_Subset, Zenon DEF Sized
  <2>2. CASE a.queue = q
    <3>1. {x \in attempts' : x.queue = q} = (S \ {a}) \cup {b}
      BY <2>2, Zenon
    <3>2. a \in S /\ b \notin S \ {a}
      BY <1>4, <2>2, Zenon
    <3> HIDE DEF S
    <3>3. QED
      BY <2>1, <3>1, <3>2, Replaced DEF S
  <2>3. CASE a.queue # q
    <3>1. {x \in attempts' : x.queue = q} = S
      BY <2>3, Zenon
    <3>2. QED
      BY <3>1, Zenon
  <2>4. QED
    BY <2>2, <2>3, Zenon
<1>9. Sized'
  BY <1>7, <1>8, Zenon DEF Sized, Capacity
<1>10. QED
  BY <1>2, <1>3, <1>5, <1>6, <1>9, Zenon DEF Facts, Leases

(* The guard has seen an outage: its generation goes up and the attempts   *)
(* under way are marked.                                                   *)
LEMMA MarkKeeps ==
    ASSUME IInv, TypeOK', GuardFails
    PROVE  Facts'
<1> USE DEF IInv
<1>0. /\ attempts' = {Marked(a) : a \in attempts}
      /\ attempts \subseteq Attempts
      /\ UNCHANGED <<pc, free, inFlight, concurrency, owned, lease, outageBlamed>>
      /\ guard'.Generation = guard.Generation + 1 /\ faults' = faults + 1
      /\ guard.Generation \in Nat /\ faults \in Nat
  BY SnapshotFields, FaultsAssumption
  DEF GuardFails, SeenOutage, Fault, TypeOK, capVars, sizeVars, storeVars
<1>1. \A a \in attempts :
          /\ Marked(a) \in Attempts
          /\ Marked(a).row = a.row /\ Marked(a).token = a.token
          /\ Marked(a).queue = a.queue /\ Marked(a).overlap = a.overlap
          /\ Marked(a).phase = a.phase /\ Marked(a).start = a.start
          /\ Marked(a).kind = a.kind
          /\ Marked(a).outage => a.outage \/ a.phase = "running" \/ a.kind = "proxy"
  BY <1>0, MarkedType, Zenon
<1>2. GenerationsOrdered'
  <2>1. guard'.Generation <= faults'
    BY <1>0 DEF GenerationsOrdered
  <2>2. ASSUME NEW a \in attempts
        PROVE  /\ Marked(a).start.Generation <= guard'.Generation
               /\ Marked(a).outage => Marked(a).start.Generation < guard'.Generation
               /\ Marked(a).phase = "queued" => ~Marked(a).outage /\ Marked(a).kind = "other"
    <3>1. a.start.Generation \in Nat
      BY <1>0, AttemptFields, SnapshotFields, FaultsAssumption
    <3>2. QED
      BY <1>0, <1>1, <3>1 DEF GenerationsOrdered
  <2>3. QED
    BY <1>0, <2>1, <2>2, Zenon DEF GenerationsOrdered
<1>3. OutageNeverBlamed'
  BY <1>0, Zenon DEF OutageNeverBlamed
<1>4. TokensDiffer' /\ LastHoldsLease' /\ LeaseIsOwned'
  BY <1>0, <1>1 DEF Leases, TokensDiffer, LastHoldsLease, LeaseIsOwned
<1>5. OwnedIsOutstanding' /\ NothingOwned'
  BY <1>0, <1>1 DEF Leases, OwnedIsOutstanding, NothingOwned, Owned, Outstanding
<1>6. ASSUME NEW S \in SUBSET attempts
      PROVE  /\ IsFiniteSet({Marked(a) : a \in S})
             /\ Cardinality({Marked(a) : a \in S}) = Cardinality(S)
  <2> DEFINE f == [a \in S |-> Marked(a)]
             T == {Marked(a) : a \in S}
  <2>1. IsFiniteSet(S)
    BY FS_Subset, Zenon DEF Sized
  <2>2. f \in [S -> T] /\ \A y \in T : \E x \in S : f[x] = y
    BY Zenon
  <2>3. \A x, y \in S : f[x] = f[y] => x = y
    BY <1>1 DEF Leases, TokensDiffer
  <2> HIDE DEF f, T
  <2>4. IsFiniteSet(T) /\ Cardinality(T) = Cardinality(S)
    BY <2>1, <2>2, <2>3, OneToOne, Zenon
  <2>5. QED
    BY <2>4, Zenon DEF T
<1>7. IsFiniteSet(attempts') /\ Cardinality(attempts') = Cardinality(attempts)
  BY <1>0, <1>6, Zenon
<1>8. ASSUME NEW q \in Queues
      PROVE  Cardinality({x \in attempts' : x.queue = q})
                 = Cardinality({x \in attempts : x.queue = q})
  <2> DEFINE S == {x \in attempts : x.queue = q}
  <2>1. {x \in attempts' : x.queue = q} = {Marked(a) : a \in S}
    BY <1>0, <1>1, Zenon
  <2>2. S \in SUBSET attempts
    BY Zenon
  <2> HIDE DEF S
  <2>3. Cardinality({Marked(a) : a \in S}) = Cardinality(S)
    BY <1>6, <2>2, Zenon
  <2>4. QED
    BY <2>1, <2>3, Zenon DEF S
<1>9. Sized'
  BY <1>0, <1>7, <1>8, Zenon DEF Sized, Capacity
<1>10. QED
  BY <1>2, <1>3, <1>4, <1>5, <1>9, Zenon DEF Facts, Leases

(* A claim returns: every leased row gets an attempt and a slot.           *)
LEMMA ClaimKeeps ==
    ASSUME IInv, TypeOK', NEW q \in Queues, NEW limit \in Int, limit <= free,
           ClaimReturns(q, limit), pc \notin Ended, pc' \notin Ended,
           UNCHANGED <<guard, concurrency, outageBlamed>>
    PROVE  Facts'
<1> USE DEF IInv
<1>0. PICK L \in Claims(q, limit) :
          /\ Leased(L)
          /\ attempts' = attempts \cup {NewAttempt(r, q) : r \in L}
          /\ owned' = [r \in Rows |-> IF r \in L THEN NewToken(r) ELSE owned[r]]
          /\ free' = free - Cardinality(L)
          /\ inFlight' = [inFlight EXCEPT ![q] = @ + Cardinality(L)]
          /\ UNCHANGED faults
  BY Zenon DEF ClaimReturns
<1> DEFINE N == {NewAttempt(r, q) : r \in L}
<1>1. /\ L \subseteq Rows /\ Cardinality(L) <= limit
      /\ \A r \in L : lease[r] = 0 /\ FreshTokens(r) # {}
  BY Zenon DEF Claims
<1>2. IsFiniteSet(L) /\ Cardinality(L) \in Nat
  BY <1>1, RowsAssumption, FS_Subset, FS_CardinalityType, Zenon
<1>3. \A r \in L : /\ NewAttempt(r, q) \in Attempts
                   /\ NewAttempt(r, q).row = r
                   /\ NewAttempt(r, q).token = NewToken(r)
                   /\ NewAttempt(r, q).queue = q
                   /\ NewAttempt(r, q).phase = "queued"
                   /\ NewAttempt(r, q).start = NoSnapshot
                   /\ NewAttempt(r, q).kind = "other"
                   /\ ~NewAttempt(r, q).outage
                   /\ NewAttempt(r, q).overlap <=> Outstanding(r) # {}
  BY <1>1, NewAttemptType
<1>4. \A r \in L : /\ NewToken(r) \in Tokens /\ NewToken(r) # 0
                   /\ \A a \in attempts : a.row = r => a.token # NewToken(r)
  BY <1>1, NewTokenFresh, ConcurrencyAssumption DEF Tokens
<1>5. \A r \in Rows : lease'[r] = IF r \in L THEN NewToken(r) ELSE lease[r]
  BY <1>0, Zenon DEF Leased
<1>6. attempts \subseteq Attempts
  BY Zenon DEF TypeOK
<1>7. GenerationsOrdered'
  <2>1. guard.Generation \in Nat /\ NoSnapshot.Generation = 0
    BY SnapshotFields, NoSnapshotType, FaultsAssumption DEF TypeOK
  <2>2. QED
    BY <1>0, <1>3, <2>1 DEF GenerationsOrdered
<1>8. OutageNeverBlamed'
  BY Zenon DEF OutageNeverBlamed
<1>9. TokensDiffer'
  BY <1>0, <1>3, <1>4 DEF Leases, TokensDiffer
<1>10. LastHoldsLease'
  <2> SUFFICES ASSUME NEW a \in attempts', NEW b \in attempts', a.row = b.row, a # b,
                      lease'[a.row] = a.token
               PROVE  a.overlap
    BY Zenon DEF LastHoldsLease
  <2>1. CASE a \in attempts
    <3>1. a.row \in Rows /\ a.row \notin L
      BY <1>4, <1>5, <1>6, <2>1, AttemptFields, SMTT(30)
    <3>2. b \in attempts
      BY <1>0, <1>3, <3>1
    <3>3. QED
      BY <1>5, <2>1, <3>1, <3>2, Zenon DEF Leases, LastHoldsLease
  <2>2. CASE a \notin attempts
    <3>1. PICK r \in L : a = NewAttempt(r, q)
      BY <1>0, <2>2, Zenon
    <3>2. b \in attempts
      BY <1>0, <1>3, <3>1
    <3>3. Outstanding(r) # {}
      BY <1>3, <3>1, <3>2, Zenon DEF Outstanding
    <3>4. QED
      BY <1>3, <3>1, <3>3, Zenon
  <2>3. QED
    BY <2>1, <2>2, Zenon
<1>11. LeaseIsOwned'
  <2> SUFFICES ASSUME NEW a \in attempts', lease'[a.row] = a.token, ~a.overlap
               PROVE  owned'[a.row] = a.token
    BY Zenon DEF LeaseIsOwned
  <2>1. CASE a \in attempts
    <3>1. a.row \in Rows /\ a.row \notin L
      BY <1>4, <1>5, <1>6, <2>1, AttemptFields, ZenonT(30)
    <3>2. QED
      BY <1>0, <1>5, <2>1, <3>1, Zenon DEF Leases, LeaseIsOwned
  <2>2. CASE a \notin attempts
    BY <1>0, <1>1, <1>3, <2>2, SMTT(30)
  <2>3. QED
    BY <2>1, <2>2, Zenon
<1>12. OwnedIsOutstanding'
  BY <1>0, <1>3 DEF Leases, OwnedIsOutstanding, Owned, Outstanding
<1>13. NothingOwned'
  BY Zenon DEF NothingOwned, Ended
<1>14. IsFiniteSet(N) /\ Cardinality(N) = Cardinality(L)
  <2> DEFINE f == [r \in L |-> NewAttempt(r, q)]
  <2>1. f \in [L -> N] /\ \A y \in N : \E x \in L : f[x] = y
    BY Zenon
  <2>2. \A x, y \in L : f[x] = f[y] => x = y
    BY <1>3
  <2> HIDE DEF f, N
  <2>3. QED
    BY <1>2, <2>1, <2>2, OneToOne, Zenon
<1>15. N \cap attempts = {}
  BY <1>3, <1>4
<1>16. ASSUME NEW S \in SUBSET attempts
       PROVE  /\ IsFiniteSet(S) /\ IsFiniteSet(S \cup N)
              /\ Cardinality(S \cup N) = Cardinality(S) + Cardinality(L)
  <2>1. IsFiniteSet(S) /\ Cardinality(S) \in Nat
    BY FS_Subset, FS_CardinalityType, Zenon DEF Sized
  <2>2. S \cap N = {}
    BY <1>15, Zenon
  <2> HIDE DEF N
  <2>3. /\ IsFiniteSet(S \cup N)
        /\ Cardinality(S \cup N) = Cardinality(S) + Cardinality(N) - Cardinality(S \cap N)
    BY <1>14, <2>1, FS_Union, Zenon
  <2>4. Cardinality(S \cap N) = 0
    BY <2>2, FS_EmptySet, Zenon
  <2>5. Cardinality(L) \in Nat
    BY <1>2, FS_CardinalityType, Zenon
  <2>6. ASSUME NEW i \in Nat, NEW j \in Nat
        PROVE  i + j - 0 = i + j
    BY SMTT(30)
  <2>7. QED
    BY <1>14, <2>1, <2>3, <2>4, <2>5, <2>6, Zenon
<1>17. /\ IsFiniteSet(attempts') /\ free' \in Int /\ free' >= 0
       /\ free' + Cardinality(attempts') = concurrency'
  <2>1. attempts' = attempts \cup N
    BY <1>0, Zenon
  <2> HIDE DEF N
  <2>2. /\ IsFiniteSet(attempts')
        /\ Cardinality(attempts') = Cardinality(attempts) + Cardinality(L)
    BY <1>16, <2>1, Zenon
  <2>3. Cardinality(attempts) \in Nat /\ free \in Int
    BY FS_CardinalityType, Zenon DEF Sized, TypeOK
  <2>4. QED
    BY <1>0, <1>1, <1>2, <2>2, <2>3 DEF Sized, Capacity, Ended
<1>18. ASSUME NEW p \in Queues
       PROVE  inFlight'[p] = Cardinality({x \in attempts' : x.queue = p})
  <2> DEFINE S == {x \in attempts : x.queue = p}
  <2>1. inFlight[p] = Cardinality(S) /\ S \in SUBSET attempts
    BY Zenon DEF Sized, Capacity, Ended
  <2>2. CASE p = q
    <3>1. {x \in attempts' : x.queue = p} = S \cup N
      BY <1>0, <1>3, <2>2
    <3>2. inFlight'[p] = inFlight[p] + Cardinality(L)
      BY <1>0, <2>2, Zenon DEF TypeOK
    <3> HIDE DEF S, N
    <3>3. QED
      BY <1>16, <2>1, <3>1, <3>2, Zenon
  <2>3. CASE p # q
    <3>1. {x \in attempts' : x.queue = p} = S
      BY <1>0, <1>3, <2>3
    <3>2. inFlight'[p] = inFlight[p]
      BY <1>0, <2>3, Zenon DEF TypeOK
    <3>3. QED
      BY <2>1, <3>1, <3>2, Zenon
  <2>4. QED
    BY <2>2, <2>3, Zenon
<1>19. Sized'
  BY <1>17, <1>18, Zenon DEF Sized, Capacity
<1>20. QED
  BY <1>7, <1>8, <1>9, <1>10, <1>11, <1>12, <1>13, <1>19, Zenon DEF Facts, Leases

(* What releaseLease does: the lease of the token goes, or is lost.        *)
LEMMA ReleaseStores ==
    ASSUME TypeOK, NEW r \in Rows, NEW token, releaseLease(r, token)
    PROVE  /\ \A x \in Rows : lease'[x] # 0 =>
                  /\ lease'[x] = lease[x]
                  /\ x \in lost \/ (x = r /\ lease[r] = token) => x \in lost'
           /\ \A x \in Rows : lease'[x] \in {lease[x], 0}
           /\ lost' \subseteq Rows /\ lease' \in [Rows -> Tokens \cup {0}]
           /\ faults' \in {faults, faults + 1} /\ faults' \in 0 .. MaxFaults
           /\ UNCHANGED healthy
<1>1. lease \in [Rows -> Tokens \cup {0}] /\ lost \subseteq Rows /\ faults \in 0 .. MaxFaults
  BY Zenon DEF TypeOK
<1>2. CASE Free(r) /\ UNCHANGED <<faults, healthy>>
  BY <1>1, <1>2, Zenon DEF Free
<1>3. CASE lease[r] # token /\ UNCHANGED <<lease, lost, faults, healthy>>
  BY <1>1, <1>3, Zenon
<1>4. CASE Fault /\ Left(r, token)
  <2>1. faults' = faults + 1 /\ faults' \in 0 .. MaxFaults
    BY <1>1, <1>4, FaultsAssumption DEF Fault
  <2>2. UNCHANGED <<healthy, lease>> /\ lost' = IF lease[r] = token THEN lost \cup {r} ELSE lost
    BY <1>4, Zenon DEF Left
  <2>3. QED
    BY <1>1, <2>1, <2>2, Zenon
<1>5. QED
  BY <1>2, <1>3, <1>4, Zenon DEF releaseLease

(* The outcomes of a check.                                                *)
LEMMA OutcomeType ==
    ASSUME NEW kind, NEW start, NEW fin
    PROVE  ClassifyCheck(kind, start, fin) \in {"success", "failure", "inconclusive"}
BY Zenon DEF ClassifyCheck

(* What finish decides: the update is the attempt's, and no outage is      *)
(* blamed on its proxy.                                                    *)
LEMMA FinishDecides ==
    ASSUME IInv, NEW a \in attempts, finish(a)
    PROVE  /\ pending' \subseteq Updates
           /\ \E u \in pending' : u.row = a.row /\ u.token = a.token
           /\ \A u, v \in pending' : u = v
           /\ OutageNeverBlamed' /\ outageBlamed' \in BOOLEAN
           /\ UNCHANGED <<healthy, lease, lost, paused, faults>>
<1> USE DEF IInv
<1> DEFINE outcome == ClassifyCheck(a.kind, a.start, effectiveFinish(a))
<1>1. a \in Attempts /\ a.row \in Rows /\ a.token \in Tokens
  BY AttemptFields, Zenon DEF TypeOK
<1>2. /\ pending' = {[row |-> a.row, token |-> a.token, outcome |-> outcome]}
      /\ outageBlamed' = (outageBlamed \/ (outcome = "failure" /\ a.outage))
      /\ UNCHANGED <<healthy, lease, lost, paused, faults>>
  BY Zenon DEF finish, storeVars
<1>3. outcome \in {"success", "failure", "inconclusive"}
  BY OutcomeType, Zenon
<1>4. outcome = "failure" => ~a.outage
  <2>1. outcome = "failure" => a.start.Generation = effectiveFinish(a).Generation
    BY Zenon DEF ClassifyCheck
  <2>2. a.start.Generation # guard.Generation => effectiveFinish(a) = guard
    BY Zenon DEF effectiveFinish
  <2>3. a.outage => a.start.Generation # guard.Generation
    BY <1>1, AttemptFields, SnapshotFields, FaultsAssumption
    DEF GenerationsOrdered, TypeOK
  <2> HIDE DEF outcome
  <2>4. QED
    BY <2>1, <2>2, <2>3, Zenon
<1> HIDE DEF outcome
<1>5. pending' \subseteq Updates /\ \E u \in pending' : u.row = a.row /\ u.token = a.token
  <2>1. PICK u : u = [row |-> a.row, token |-> a.token, outcome |-> outcome]
    BY Zenon
  <2>2. u \in Updates
    BY <1>1, <1>3, <2>1, Zenon DEF Updates
  <2>3. u.row = a.row /\ u.token = a.token
    BY <2>1, Zenon
  <2>4. pending' = {u}
    BY <1>2, <2>1, Zenon
  <2>5. QED
    BY <2>2, <2>3, <2>4, Zenon
<1>6. OutageNeverBlamed' /\ outageBlamed' \in BOOLEAN
  BY <1>2, <1>4, Zenon DEF OutageNeverBlamed
<1>7. \A u, v \in pending' : u = v
  BY <1>2, Zenon
<1>8. QED
  BY <1>2, <1>5, <1>6, <1>7, Zenon

(* What a result does to the store: no lease but its own goes, and no      *)
(* outage is blamed on its proxy.                                          *)
LEMMA HandleStores ==
    ASSUME IInv, NEW a \in attempts, handle(a)
    PROVE  /\ \A r \in Rows : lease'[r] \in {lease[r], 0}
           /\ OutageNeverBlamed'
           /\ faults' \in {faults, faults + 1}
<1> USE DEF IInv
<1>1. a.row \in Rows
  BY AttemptFields, Zenon DEF TypeOK
<1>2. CASE a.kind = "released"
  BY <1>1, <1>2, ReleaseStores, Zenon DEF handle, OutageNeverBlamed
<1>3. CASE a.kind # "released"
  BY <1>3, FinishDecides, Zenon DEF handle
<1>4. QED
  BY <1>2, <1>3, Zenon

(* handle returns one slot and gives up one attempt.                       *)
LEMMA HandleKeeps ==
    ASSUME IInv, TypeOK', NEW a \in attempts, handle(a), pc \notin Ended,
           UNCHANGED <<guard, pc, concurrency>>
    PROVE  Facts'
<1> USE DEF IInv
<1>0. /\ free' = free + 1
      /\ inFlight' = [inFlight EXCEPT ![a.queue] = @ - 1]
      /\ owned' = [owned EXCEPT ![a.row] = 0]
      /\ attempts' = attempts \ {a}
  BY Zenon DEF handle
<1>1. /\ \A r \in Rows : lease'[r] \in {lease[r], 0}
      /\ OutageNeverBlamed'
      /\ faults' \in {faults, faults + 1}
  BY HandleStores, Zenon
<1>2. /\ attempts \subseteq Attempts /\ a.row \in Rows /\ a.queue \in Queues
      /\ owned \in [Rows -> Tokens \cup {0}] /\ inFlight \in [Queues -> Int]
      /\ faults \in Int /\ free \in Int
  BY AttemptFields DEF TypeOK
<1>3. \A b \in attempts : b.row \in Rows /\ b.token # 0
  BY <1>2, AttemptFields, Zenon
<1>4. GenerationsOrdered'
  <2>1. guard.Generation \in Int
    BY SnapshotFields DEF TypeOK
  <2>2. QED
    BY <1>0, <1>1, <1>2, <2>1 DEF GenerationsOrdered
<1>5. \A b \in attempts' : lease'[b.row] = b.token => lease[b.row] = b.token
  BY <1>0, <1>1, <1>3, Zenon
<1>6. TokensDiffer' /\ LastHoldsLease'
  BY <1>0, <1>5, Zenon DEF Leases, TokensDiffer, LastHoldsLease
<1>7. LeaseIsOwned'
  <2> SUFFICES ASSUME NEW b \in attempts', lease'[b.row] = b.token, ~b.overlap
               PROVE  owned'[b.row] = b.token
    BY Zenon DEF LeaseIsOwned
  <2>1. b \in attempts /\ b # a /\ lease[b.row] = b.token
    BY <1>0, <1>5, Zenon
  <2>2. b.row # a.row
    BY <2>1, Zenon DEF Leases, LastHoldsLease
  <2>3. QED
    BY <1>0, <1>2, <1>3, <2>1, <2>2, Zenon DEF Leases, LeaseIsOwned
<1>8. OwnedIsOutstanding'
  <2> SUFFICES ASSUME NEW r \in Rows, owned'[r] # 0
               PROVE  \E b \in attempts' : b.row = r /\ b.token = owned'[r]
    BY Zenon DEF OwnedIsOutstanding, Owned, Outstanding
  <2>1. r # a.row /\ owned'[r] = owned[r]
    BY <1>0, <1>2, Zenon
  <2>2. PICK b \in attempts : b.row = r /\ b.token = owned[r]
    BY <2>1, Zenon DEF Leases, OwnedIsOutstanding, Owned, Outstanding
  <2>3. QED
    BY <1>0, <2>1, <2>2, Zenon
<1>9. NothingOwned'
  BY Zenon DEF NothingOwned, Ended
<1>10. /\ IsFiniteSet(attempts') /\ Cardinality(attempts) \in Nat
       /\ Cardinality(attempts') = Cardinality(attempts) - 1
  BY <1>0, FS_RemoveElement, FS_CardinalityType, Zenon DEF Sized
<1>11. ASSUME NEW q \in Queues
       PROVE  inFlight'[q] = Cardinality({x \in attempts' : x.queue = q})
  <2> DEFINE S == {x \in attempts : x.queue = q}
  <2>1. IsFiniteSet(S) /\ inFlight[q] = Cardinality(S)
    BY FS_Subset, Zenon DEF Sized, Capacity, Ended
  <2>2. CASE a.queue = q
    <3>1. {x \in attempts' : x.queue = q} = S \ {a} /\ a \in S
      BY <1>0, <2>2, Zenon
    <3>2. inFlight'[q] = inFlight[q] - 1
      BY <1>0, <1>2, <2>2, Zenon
    <3> HIDE DEF S
    <3>3. QED
      BY <2>1, <3>1, <3>2, FS_RemoveElement, Zenon
  <2>3. CASE a.queue # q
    <3>1. {x \in attempts' : x.queue = q} = S
      BY <1>0, <2>3
    <3>2. inFlight'[q] = inFlight[q]
      BY <1>0, <1>2, <2>3, Zenon
    <3>3. QED
      BY <2>1, <3>1, <3>2, Zenon
  <2>4. QED
    BY <2>2, <2>3, Zenon
<1>12. Sized'
  BY <1>0, <1>2, <1>10, <1>11 DEF Sized, Capacity, Ended
<1>13. QED
  BY <1>1, <1>4, <1>6, <1>7, <1>8, <1>9, <1>12, Zenon DEF Facts, Leases

(* releaseOutstanding gives up the attempt of an owned lease.              *)
LEMMA ReleaseKeeps ==
    ASSUME IInv, TypeOK', NEW r \in Rows, ReleaseOwned(r)
    PROVE  Facts'
<1> USE DEF IInv
<1>0. /\ pc = "release" /\ owned[r] # 0
      /\ attempts' = {a \in attempts : a.row # r \/ a.token # owned[r]}
      /\ owned' = [owned EXCEPT ![r] = 0]
      /\ UNCHANGED <<guard, pc, outageBlamed>>
  BY Zenon DEF ReleaseOwned, Owned
<1>1. /\ \A s \in Rows : lease'[s] \in {lease[s], 0}
      /\ faults' \in {faults, faults + 1}
  BY ReleaseStores, Zenon DEF ReleaseOwned
<1>2. /\ attempts \subseteq Attempts /\ owned \in [Rows -> Tokens \cup {0}]
      /\ faults \in Int
  BY DEF TypeOK
<1>3. \A b \in attempts : b.row \in Rows /\ b.token # 0
  BY <1>2, AttemptFields, Zenon
<1>4. GenerationsOrdered'
  <2>1. guard.Generation \in Int
    BY SnapshotFields DEF TypeOK
  <2>2. QED
    BY <1>0, <1>1, <1>2, <2>1 DEF GenerationsOrdered
<1>5. \A b \in attempts' : b \in attempts /\ (lease'[b.row] = b.token => lease[b.row] = b.token)
  BY <1>0, <1>1, <1>3, Zenon
<1>6. TokensDiffer' /\ LastHoldsLease'
  BY <1>5, Zenon DEF Leases, TokensDiffer, LastHoldsLease
<1>7. LeaseIsOwned'
  BY <1>0, <1>2, <1>3, <1>5, Zenon DEF Leases, LeaseIsOwned
<1>8. OwnedIsOutstanding'
  <2> SUFFICES ASSUME NEW s \in Rows, owned'[s] # 0
               PROVE  \E b \in attempts' : b.row = s /\ b.token = owned'[s]
    BY Zenon DEF OwnedIsOutstanding, Owned, Outstanding
  <2>1. s # r /\ owned'[s] = owned[s]
    BY <1>0, <1>2, Zenon
  <2>2. PICK b \in attempts : b.row = s /\ b.token = owned[s]
    BY <2>1, Zenon DEF Leases, OwnedIsOutstanding, Owned, Outstanding
  <2>3. QED
    BY <1>0, <2>1, <2>2, Zenon
<1>9. NothingOwned' /\ OutageNeverBlamed'
  BY <1>0, Zenon DEF NothingOwned, OutageNeverBlamed
<1>10. IsFiniteSet(attempts')
  BY <1>0, FS_Subset, Zenon DEF Sized
<1>11. Sized'
  BY <1>0, <1>10, Zenon DEF Sized, Capacity
<1>12. QED
  BY <1>4, <1>6, <1>7, <1>8, <1>9, <1>11, Zenon DEF Facts, Leases

-----------------------------------------------------------------------------
(* Types *)

(* The smaller of two numbers.                                             *)
LEMMA MinPair ==
    ASSUME NEW m \in Int, NEW n \in Int
    PROVE  Min({m, n}) \in Int /\ Min({m, n}) <= n
<1>1. \E x \in {m, n} : \A y \in {m, n} : x <= y
  OBVIOUS
<1>2. Min({m, n}) \in {m, n} /\ \A y \in {m, n} : Min({m, n}) <= y
  BY <1>1, Zenon DEF Min
<1>3. QED
  BY <1>2, Zenon

(* What a claim writes has its type.                                       *)
LEMMA ClaimTypes ==
    ASSUME TypeOK, NEW q \in Queues, NEW limit
    PROVE  /\ ClaimReturns(q, limit) =>
                 /\ attempts' \subseteq Attempts
                 /\ owned' \in [Rows -> Tokens \cup {0}]
                 /\ lease' \in [Rows -> Tokens \cup {0}]
                 /\ free' \in Int /\ inFlight' \in [Queues -> Int]
                 /\ empty' \subseteq Queues /\ paused' \in BOOLEAN
                 /\ UNCHANGED <<faults, healthy, lost, pending>>
           /\ ClaimErrors(q, limit) =>
                 /\ lease' \in [Rows -> Tokens \cup {0}]
                 /\ paused' \in BOOLEAN /\ faults' \in 0 .. MaxFaults /\ faults' >= faults
                 /\ \A a \in attempts : lease'[a.row] = a.token => lease[a.row] = a.token
                 /\ lost' \subseteq Rows
                 /\ \A r \in Rows : r \in lost' \/ (lease'[r] = lease[r] /\ r \notin lost)
                 /\ UNCHANGED <<attempts, free, inFlight, owned, healthy, pending>>
<1>1. ASSUME NEW L \in Claims(q, limit)
      PROVE  /\ L \subseteq Rows /\ IsFiniteSet(L) /\ Cardinality(L) \in Nat
             /\ \A r \in L : /\ FreshTokens(r) # {} /\ NewToken(r) \in Tokens
                             /\ NewAttempt(r, q) \in Attempts
                             /\ \A a \in attempts : a.row = r => a.token # NewToken(r)
  <2>1. L \subseteq Rows /\ \A r \in L : FreshTokens(r) # {}
    BY Zenon DEF Claims
  <2>2. QED
    BY <2>1, RowsAssumption, FS_Subset, FS_CardinalityType, NewTokenFresh, NewAttemptType, Zenon
<1>2. ASSUME ClaimReturns(q, limit)
      PROVE  /\ attempts' \subseteq Attempts
             /\ owned' \in [Rows -> Tokens \cup {0}]
             /\ lease' \in [Rows -> Tokens \cup {0}]
             /\ free' \in Int /\ inFlight' \in [Queues -> Int]
             /\ empty' \subseteq Queues /\ paused' \in BOOLEAN
             /\ UNCHANGED <<faults, healthy, lost, pending>>
  <2>1. PICK L \in Claims(q, limit) :
            /\ Leased(L)
            /\ attempts' = attempts \cup {NewAttempt(r, q) : r \in L}
            /\ owned' = [r \in Rows |-> IF r \in L THEN NewToken(r) ELSE owned[r]]
            /\ free' = free - Cardinality(L)
            /\ inFlight' = [inFlight EXCEPT ![q] = @ + Cardinality(L)]
            /\ empty' = IF L = {} THEN empty \cup {q} ELSE empty
            /\ paused' = FALSE
            /\ UNCHANGED <<faults, healthy, lost, pending>>
    BY <1>2, Zenon DEF ClaimReturns
  <2>2. attempts' \subseteq Attempts
    BY <1>1, <2>1, Zenon DEF TypeOK
  <2>3. owned' \in [Rows -> Tokens \cup {0}] /\ lease' \in [Rows -> Tokens \cup {0}]
    BY <1>1, <2>1, Zenon DEF Leased, TypeOK
  <2>4. free' \in Int /\ inFlight' \in [Queues -> Int]
    BY <1>1, <2>1 DEF TypeOK
  <2>5. empty' \subseteq Queues
    BY <2>1, Zenon DEF TypeOK
  <2>6. paused' \in BOOLEAN
    BY <2>1, Zenon
  <2>7. QED
    BY <2>1, <2>2, <2>3, <2>4, <2>5, <2>6, Zenon
<1>3. ASSUME ClaimErrors(q, limit)
      PROVE  /\ lease' \in [Rows -> Tokens \cup {0}]
             /\ paused' \in BOOLEAN /\ faults' \in 0 .. MaxFaults /\ faults' >= faults
             /\ \A a \in attempts : lease'[a.row] = a.token => lease[a.row] = a.token
             /\ lost' \subseteq Rows
             /\ \A r \in Rows : r \in lost' \/ (lease'[r] = lease[r] /\ r \notin lost)
             /\ UNCHANGED <<attempts, free, inFlight, owned, healthy, pending>>
  <2>1. PICK L \in Claims(q, limit) : Leased(L) /\ lost' = lost \cup L
    BY <1>3, Zenon DEF ClaimErrors
  <2>2. lease' \in [Rows -> Tokens \cup {0}]
    BY <1>1, <2>1, Zenon DEF Leased, TypeOK
  <2>3. \A a \in attempts : lease'[a.row] = a.token => lease[a.row] = a.token
    BY <1>1, <2>1, AttemptFields, Zenon DEF Leased, TypeOK
  <2>4. paused' \in BOOLEAN /\ faults' \in 0 .. MaxFaults /\ faults' >= faults
    <3>1. CASE cancelled
      BY <1>3, <3>1 DEF ClaimErrors, TypeOK
    <3>2. CASE ~cancelled
      BY <1>3, <3>2, FaultsAssumption DEF ClaimErrors, Fault, TypeOK
    <3>3. QED
      BY <3>1, <3>2, Zenon
  <2>5. /\ lost' \subseteq Rows
        /\ \A r \in Rows : r \in lost' \/ (lease'[r] = lease[r] /\ r \notin lost)
    BY <1>1, <2>1, Zenon DEF Leased, TypeOK
  <2>6. QED
    BY <1>3, <2>2, <2>3, <2>4, <2>5, Zenon DEF ClaimErrors, capVars
<1>4. QED
  BY <1>2, <1>3, Zenon

(* What handle writes has its type.                                        *)
LEMMA HandleTypes ==
    ASSUME IInv, NEW a \in attempts, handle(a)
    PROVE  /\ free' \in Int /\ inFlight' \in [Queues -> Int]
           /\ owned' \in [Rows -> Tokens \cup {0}]
           /\ attempts' \subseteq Attempts /\ pending' \subseteq Updates
           /\ healthy' \in [Rows -> BOOLEAN]
           /\ lease' \in [Rows -> Tokens \cup {0}] /\ lost' \subseteq Rows
           /\ outageBlamed' \in BOOLEAN /\ paused' \in BOOLEAN
           /\ faults' \in 0 .. MaxFaults
<1> USE DEF IInv
<1>1. a \in Attempts /\ a.row \in Rows /\ a.queue \in Queues
  BY AttemptFields, Zenon DEF TypeOK
<1>2. /\ free' \in Int /\ inFlight' \in [Queues -> Int]
      /\ owned' \in [Rows -> Tokens \cup {0}]
      /\ attempts' \subseteq Attempts
  BY <1>1 DEF handle, TypeOK
<1>3. CASE a.kind = "released"
  BY <1>1, <1>2, <1>3, ReleaseStores, Zenon DEF handle, TypeOK
<1>4. CASE a.kind # "released"
  BY <1>2, <1>4, FinishDecides, Zenon DEF handle, TypeOK
<1>5. QED
  BY <1>3, <1>4, Zenon

(* What the write of an update does: its own lease goes or, when the call  *)
(* fails, is lost.                                                         *)
LEMMA CompleteStores ==
    ASSUME TypeOK, NEW u \in pending, CompleteScan(u)
    PROVE  /\ \A x \in Rows : lease'[x] # 0 =>
                  /\ lease'[x] = lease[x]
                  /\ x \in lost \/ (x = u.row /\ lease[x] = u.token) => x \in lost'
           /\ lost' \subseteq Rows /\ lease' \in [Rows -> Tokens \cup {0}]
           /\ healthy' \in [Rows -> BOOLEAN] /\ paused' \in BOOLEAN
           /\ faults' \in 0 .. MaxFaults /\ faults' >= faults
<1>1. /\ lease \in [Rows -> Tokens \cup {0}] /\ lost \subseteq Rows
      /\ healthy \in [Rows -> BOOLEAN] /\ faults \in 0 .. MaxFaults
  BY Zenon DEF TypeOK
<1>2. u.row \in Rows
  BY Zenon DEF TypeOK, Updates
<1>3. Applied(u) => /\ \A x \in Rows : lease'[x] # 0 =>
                           lease'[x] = lease[x] /\ x # u.row /\ (x \in lost => x \in lost')
                    /\ lost' \subseteq Rows /\ lease' \in [Rows -> Tokens \cup {0}]
                    /\ healthy' \in [Rows -> BOOLEAN]
  <2>1. HealthyAfter(u.outcome, healthy[u.row]) \in BOOLEAN
    BY <1>1, <1>2, Zenon DEF HealthyAfter
  <2>2. QED
    BY <1>1, <1>2, <2>1, Zenon DEF Applied, Free
<1>4. faults' \in 0 .. MaxFaults /\ faults' >= faults /\ paused' \in BOOLEAN
  <2>1. UNCHANGED faults \/ Fault
    BY Zenon DEF CompleteScan
  <2>2. faults' \in 0 .. MaxFaults /\ faults' >= faults
    BY <1>1, <2>1, FaultsAssumption DEF Fault
  <2>3. QED
    BY <2>2, Zenon DEF CompleteScan
<1>5. CASE Applied(u)
  BY <1>3, <1>4, <1>5, Zenon
<1>6. CASE lease[u.row] # u.token /\ UNCHANGED <<healthy, lease, lost>>
  BY <1>1, <1>4, <1>6, Zenon
<1>7. CASE Left(u.row, u.token)
  <2>1. /\ UNCHANGED <<healthy, lease>>
        /\ lost' = IF lease[u.row] = u.token THEN lost \cup {u.row} ELSE lost
    BY <1>7, Zenon DEF Left
  <2>2. QED
    BY <1>1, <1>2, <1>4, <2>1, Zenon
<1>8. QED
  BY <1>5, <1>6, <1>7, Zenon DEF CompleteScan, storeVars

-----------------------------------------------------------------------------
(* The leases left in the table *)

(* Every attempt keeps its row and token, and the update being written     *)
(* stays.                                                                  *)
LEMMA AccountedStays ==
    ASSUME Accounted, UNCHANGED pending,
           \A a \in attempts : \E b \in attempts' : b.row = a.row /\ b.token = a.token,
           \A r \in Rows : lease'[r] # 0 =>
               r \in lost' \/ (lease'[r] = lease[r] /\ r \notin lost),
           pc' \in Ended => pc \in Ended \/ pending = {}
    PROVE  Accounted'
<1>1. ASSUME NEW r \in Rows, lease'[r] # 0, r \notin lost'
      PROVE  \E b \in attempts' \cup pending' : b.row = r /\ b.token = lease'[r]
  <2>1. lease'[r] = lease[r] /\ lease[r] # 0 /\ r \notin lost
    BY <1>1, Zenon
  <2>2. PICK a \in attempts \cup pending : a.row = r /\ a.token = lease[r]
    BY <2>1, Zenon DEF Accounted
  <2>3. QED
    BY <2>1, <2>2, ZenonT(30)
<1>2. QED
  BY <1>1, Zenon DEF Accounted

(* A claim returns: each new lease has its attempt.                        *)
LEMMA AccountedClaim ==
    ASSUME IInv, NEW q \in Queues, NEW limit, ClaimReturns(q, limit), pc' \notin Ended
    PROVE  Accounted'
<1>1. PICK L \in Claims(q, limit) :
          /\ lease' = [r \in Rows |-> IF r \in L THEN NewToken(r) ELSE lease[r]]
          /\ attempts' = attempts \cup {NewAttempt(r, q) : r \in L}
          /\ UNCHANGED <<lost, pending>>
  BY Zenon DEF ClaimReturns, Leased
<1>2. \A r \in L : NewAttempt(r, q).row = r /\ NewAttempt(r, q).token = NewToken(r)
  BY Zenon DEF NewAttempt
<1>3. ASSUME NEW r \in Rows, lease'[r] # 0, r \notin lost'
      PROVE  \E b \in attempts' \cup pending' : b.row = r /\ b.token = lease'[r]
  <2>1. CASE r \in L
    <3>1. NewAttempt(r, q) \in attempts' /\ lease'[r] = NewToken(r)
      BY <1>1, <2>1, Zenon
    <3>2. QED
      BY <1>2, <2>1, <3>1, Zenon
  <2>2. CASE r \notin L
    <3>1. lease'[r] = lease[r]
      BY <1>1, <2>2, Zenon
    <3>2. PICK a \in attempts \cup pending : a.row = r /\ a.token = lease[r]
      BY <1>1, <1>3, <3>1, Zenon DEF IInv, Accounted
    <3>3. QED
      BY <1>1, <3>1, <3>2, Zenon
  <2>3. QED
    BY <2>1, <2>2, Zenon
<1>4. QED
  BY <1>1, <1>3, Zenon DEF IInv, Accounted

(* A result is handled: its lease is released or lost, or the update that  *)
(* is now being written holds it.                                          *)
LEMMA AccountedHandle ==
    ASSUME IInv, NEW a \in attempts, handle(a), pending = {}, pc' \notin Ended
    PROVE  Accounted'
<1> USE DEF IInv
<1>1. a.row \in Rows /\ attempts' = attempts \ {a}
  BY AttemptFields, Zenon DEF TypeOK, handle
<1>2. ASSUME NEW r \in Rows, lease'[r] # 0, r \notin lost'
      PROVE  \E b \in attempts' \cup pending' : b.row = r /\ b.token = lease'[r]
  <2>1. CASE a.kind = "released"
    <3>1. releaseLease(a.row, a.token)
      BY <2>1, Zenon DEF handle
    <3>2. lease'[r] = lease[r] /\ r \notin lost /\ ~(r = a.row /\ lease[a.row] = a.token)
      BY <1>1, <1>2, <3>1, ReleaseStores, Zenon
    <3>3. PICK x \in attempts : x.row = r /\ x.token = lease[r]
      BY <1>2, <3>2, Zenon DEF Accounted
    <3>4. QED
      BY <1>1, <3>2, <3>3, Zenon
  <2>2. CASE a.kind # "released"
    <3>1. finish(a)
      BY <2>2, Zenon DEF handle
    <3>2. /\ \E u \in pending' : u.row = a.row /\ u.token = a.token
          /\ UNCHANGED <<lease, lost>>
      BY <3>1, FinishDecides, Zenon
    <3>3. PICK x \in attempts : x.row = r /\ x.token = lease[r]
      BY <1>2, <3>2, Zenon DEF Accounted
    <3>4. QED
      BY <1>1, <3>2, <3>3, Zenon
  <2>3. QED
    BY <2>1, <2>2, Zenon
<1>3. \A u, v \in pending' : u = v
  BY FinishDecides, Zenon DEF handle
<1>4. QED
  BY <1>2, <1>3, Zenon DEF Accounted

(* The update is written: its lease is gone or lost.                       *)
LEMMA AccountedComplete ==
    ASSUME IInv, NEW u \in pending, CompleteScan(u)
    PROVE  Accounted'
<1> USE DEF IInv
<1>1. UNCHANGED attempts /\ pending' = {}
  BY Zenon DEF CompleteScan
<1>2. ASSUME NEW r \in Rows, lease'[r] # 0, r \notin lost'
      PROVE  \E b \in attempts' \cup pending' : b.row = r /\ b.token = lease'[r]
  <2>1. lease'[r] = lease[r] /\ r \notin lost /\ ~(r = u.row /\ lease[r] = u.token)
    BY <1>2, CompleteStores, Zenon
  <2>2. PICK x \in attempts \cup pending : x.row = r /\ x.token = lease[r]
    BY <1>2, <2>1, Zenon DEF Accounted
  <2>3. x # u
    BY <2>1, <2>2, Zenon
  <2>4. QED
    BY <1>1, <2>1, <2>2, <2>3, Zenon DEF Accounted
<1>3. QED
  BY <1>1, <1>2, Zenon DEF Accounted

(* releaseOutstanding gives up the attempt of the lease it releases.       *)
LEMMA AccountedRelease ==
    ASSUME IInv, NEW r \in Rows, ReleaseOwned(r)
    PROVE  Accounted'
<1> USE DEF IInv
<1>1. /\ releaseLease(r, owned[r])
      /\ attempts' = {a \in attempts : a.row # r \/ a.token # owned[r]}
      /\ UNCHANGED <<pc, pending>>
  BY Zenon DEF ReleaseOwned
<1>2. ASSUME NEW x \in Rows, lease'[x] # 0, x \notin lost'
      PROVE  \E b \in attempts' \cup pending' : b.row = x /\ b.token = lease'[x]
  <2>1. lease'[x] = lease[x] /\ x \notin lost /\ ~(x = r /\ lease[r] = owned[r])
    BY <1>1, <1>2, ReleaseStores, Zenon
  <2>2. PICK b \in attempts \cup pending : b.row = x /\ b.token = lease[x]
    BY <1>2, <2>1, Zenon DEF Accounted
  <2>3. QED
    BY <1>1, <2>1, <2>2, Zenon
<1>3. QED
  BY <1>1, <1>2, Zenon DEF Accounted

(* A process that was just started.                                        *)
LEMMA InitIInv == Init => IInv
<1> SUFFICES ASSUME Init PROVE IInv
  BY Zenon
<1>1. concurrency \in Nat /\ 0 \in 0 .. MaxFaults
  BY ConcurrencyAssumption, FaultsAssumption DEF Init
<1>2. TypeOK
  <2>1. /\ cancelled \in BOOLEAN /\ guard \in Snapshots /\ paused \in BOOLEAN
        /\ healthy \in [Rows -> BOOLEAN] /\ outageBlamed \in BOOLEAN
    BY NoSnapshotType, Zenon DEF Init
  <2>2. concurrency \in Concurrencies /\ targets \in [Queues -> Nat]
    BY <1>1, TargetsType, WeightsType, Zenon DEF Init
  <2>3. /\ cursor \in 0 .. scanQueueCount /\ empty \subseteq Queues
        /\ free \in Int /\ inFlight \in [Queues -> Int]
        /\ credits \in [Queues -> Int] /\ borrower \in Queues
        /\ faults \in 0 .. MaxFaults
    BY <1>1 DEF Init, scanQueueCount, Queues
  <2>4. /\ pc \in {"idle", "fill", "borrow", "drain", "release", "stopped", "returned"}
        /\ owned \in [Rows -> Tokens \cup {0}] /\ attempts \subseteq Attempts
        /\ lease \in [Rows -> Tokens \cup {0}]
        /\ pending \subseteq Updates /\ lost \subseteq Rows
    BY Zenon DEF Init
  <2>5. QED
    BY <2>1, <2>2, <2>3, <2>4, Zenon DEF TypeOK
<1>3. GenerationsOrdered /\ OutageNeverBlamed
  BY <1>1, NoSnapshotType DEF Init, GenerationsOrdered, OutageNeverBlamed
<1>4. Leases
  BY Zenon DEF Init, Leases, TokensDiffer, LastHoldsLease, LeaseIsOwned, OwnedIsOutstanding,
         NothingOwned, Owned
<1>5. Sized
  <2>1. \A q \in Queues : {a \in attempts : a.queue = q} = {}
    BY Zenon DEF Init
  <2>2. QED
    BY <1>1, <2>1, FS_EmptySet DEF Init, Sized, Capacity
<1>6. Accounted
  BY Zenon DEF Init, Accounted, Ended
<1>7. QED
  BY <1>2, <1>3, <1>4, <1>5, <1>6, Zenon DEF IInv

-----------------------------------------------------------------------------
(* Steps *)

(* The guard fails, and marks what is under way, or recovers.              *)
LEMMA GuardKeeps ==
    ASSUME IInv, GuardFails \/ GuardRecovers
    PROVE  IInv'
<1> USE DEF IInv, passVars, capVars, storeVars, sizeVars
<1>1. CASE GuardFails
  <2>1. attempts' \subseteq Attempts
    BY <1>1, MarkedType, Zenon DEF GuardFails, SeenOutage, TypeOK
  <2>2. guard' \in Snapshots /\ faults' \in 0 .. MaxFaults
    <3>1. guard.Generation + 1 \in 0 .. MaxFaults /\ faults' \in 0 .. MaxFaults
      BY <1>1, SnapshotFields, FaultsAssumption
      DEF GuardFails, Fault, GenerationsOrdered, TypeOK
    <3>2. QED
      BY <1>1, <3>1, Zenon DEF GuardFails, Snapshots
  <2>3. TypeOK'
    BY <1>1, <2>1, <2>2, Zenon DEF GuardFails, TypeOK
  <2>4. Accounted'
    <3>1. /\ UNCHANGED <<pending, lease, lost, pc>> /\ attempts' = {Marked(a) : a \in attempts}
          /\ \A a \in attempts : Marked(a).row = a.row /\ Marked(a).token = a.token
      BY <1>1, MarkedType, Zenon DEF GuardFails, SeenOutage, TypeOK
    <3>2. \A a \in attempts : \E b \in attempts' : b.row = a.row /\ b.token = a.token
      BY <3>1, Zenon
    <3>3. QED
      BY <3>1, <3>2, AccountedStays, Zenon
  <2>5. QED
    BY <1>1, <2>3, <2>4, MarkKeeps, Zenon DEF Facts
<1>2. CASE GuardRecovers
  <2>1. guard' \in Snapshots /\ guard'.Generation = guard.Generation
    BY <1>2, Zenon DEF GuardRecovers, TypeOK, Snapshots
  <2>2. TypeOK'
    BY <1>2, <2>1, Zenon DEF GuardRecovers, TypeOK
  <2>3. Accounted'
    BY <1>2, AccountedStays, Zenon DEF GuardRecovers
  <2>4. Facts'
    BY <1>2, <2>1, <2>2, QuietKeeps DEF GuardRecovers, TypeOK, Leases, NothingOwned
  <2>5. QED
    BY <2>2, <2>3, <2>4, Zenon DEF Facts
<1>3. QED
  BY <1>1, <1>2, Zenon

(* An executor starts or ends a check.                                     *)
LEMMA ExecuteKeeps ==
    ASSUME IInv, Execute
    PROVE  IInv'
<1> USE DEF IInv, passVars, capVars, storeVars, sizeVars
<1>0. PICK a \in attempts : StartCheck(a) \/ \E kind \in Kinds : FinishCheck(a, kind)
  BY Zenon DEF Execute
<1>1. /\ a \in Attempts /\ guard \in Snapshots
      /\ a.start.Generation \in Nat /\ guard.Generation \in Nat
      /\ a.start.Generation <= guard.Generation
      /\ a.outage => a.start.Generation < guard.Generation
      /\ a.phase = "queued" => ~a.outage
  BY AttemptFields, SnapshotFields, FaultsAssumption DEF TypeOK, GenerationsOrdered
<1>2. CASE StartCheck(a)
  <2> DEFINE b == Attempt(a, "running", guard, a.finish, a.kind, a.outage)
  <2>1. /\ b \in Attempts
        /\ b.row = a.row /\ b.token = a.token /\ b.queue = a.queue
        /\ b.overlap = a.overlap /\ b.phase = "running" /\ b.start = guard
        /\ b.outage = a.outage
    BY <1>1, AttemptFields, Zenon DEF Attempt, Attempts
  <2>2. attempts' = (attempts \ {a}) \cup {b} /\ ~a.outage
    BY <1>1, <1>2, Zenon DEF StartCheck
  <2> HIDE DEF b
  <2>3. TypeOK'
    BY <1>2, <2>1, <2>2, Zenon DEF StartCheck, TypeOK
  <2>4. b.start.Generation <= guard.Generation /\ ~b.outage
    BY <1>1, <2>1, <2>2
  <2>5. UNCHANGED <<guard, pc, free, inFlight, concurrency, owned, lease,
                    outageBlamed, faults>>
    BY <1>2, Zenon DEF StartCheck
  <2>6. Accounted'
    <3>1. \A x \in attempts : \E y \in attempts' : y.row = x.row /\ y.token = x.token
      BY <2>1, <2>2, Zenon
    <3>2. UNCHANGED <<pending, lost>>
      BY <1>2, Zenon DEF StartCheck
    <3>3. QED
      BY <2>5, <3>1, <3>2, AccountedStays, Zenon
  <2>7. QED
    BY <2>1, <2>2, <2>3, <2>4, <2>5, <2>6, ReplaceKeeps, Zenon DEF Facts
<1>3. ASSUME NEW kind \in Kinds, FinishCheck(a, kind)
      PROVE  IInv'
  <2> DEFINE start == IF kind = "proxy" THEN a.start ELSE NoSnapshot
             fin == IF kind = "proxy" THEN guard ELSE NoSnapshot
             outage == a.outage /\ kind = "proxy"
             b == Attempt(a, "result", start, fin, kind, outage)
  <2>1. outage \in BOOLEAN
    BY Zenon
  <2>2. start \in Snapshots /\ fin \in Snapshots
    BY <1>1, AttemptFields, NoSnapshotType, Zenon
  <2>3. /\ start.Generation <= guard.Generation
        /\ outage => start.Generation < guard.Generation
    BY <1>1, NoSnapshotType
  <2>4. attempts' = (attempts \ {a}) \cup {b}
    BY <1>3, Zenon DEF FinishCheck
  <2> HIDE DEF start, fin, outage
  <2>5. /\ b \in Attempts
        /\ b.row = a.row /\ b.token = a.token /\ b.queue = a.queue
        /\ b.overlap = a.overlap /\ b.phase = "result" /\ b.start = start
        /\ b.outage = outage
    <3>1. a \in Attempts
      BY <1>1, Zenon
    <3> QED
      BY <2>1, <2>2, <3>1, AttemptType, SMTT(30)
  <2> HIDE DEF b
  <2>6. TypeOK'
    BY <1>3, <2>4, <2>5, Zenon DEF FinishCheck, TypeOK
  <2>7. b.start.Generation <= guard.Generation
        /\ (b.outage => b.start.Generation < guard.Generation)
    BY <2>3, <2>5, Zenon
  <2>8. UNCHANGED <<guard, pc, free, inFlight, concurrency, owned, lease,
                    outageBlamed, faults>>
    BY <1>3, Zenon DEF FinishCheck
  <2>9. Accounted'
    <3>1. \A x \in attempts : \E y \in attempts' : y.row = x.row /\ y.token = x.token
      BY <2>4, <2>5, Zenon
    <3>2. UNCHANGED <<pending, lost>>
      BY <1>3, Zenon DEF FinishCheck
    <3>3. QED
      BY <2>8, <3>1, <3>2, AccountedStays, Zenon
  <2>10. QED
    BY <2>4, <2>5, <2>6, <2>7, <2>8, <2>9, ReplaceKeeps, Zenon DEF Facts
<1>4. QED
  BY <1>0, <1>2, <1>3, Zenon

(* The dispatcher handles a result, in its loop or in the drain.           *)
LEMMA ResultKeeps ==
    ASSUME IInv, NEW a \in attempts, HandleResult(a) \/ DrainResult(a)
    PROVE  IInv'
<1> USE DEF IInv, passVars, capVars, storeVars, sizeVars
<1>1. /\ handle(a) /\ pc \in {"idle", "drain"} /\ pending = {}
      /\ UNCHANGED <<cancelled, guard, concurrency, targets, pc, cursor, empty,
                     credits, borrower>>
  BY Zenon DEF HandleResult, DrainResult
<1>2. TypeOK'
  BY <1>1, HandleTypes, Zenon DEF TypeOK
<1>3. Accounted'
  BY <1>1, AccountedHandle, Zenon DEF Ended
<1>4. QED
  BY <1>1, <1>2, <1>3, HandleKeeps, Zenon DEF Facts, Ended

(* finish writes the update it decided on.                                 *)
LEMMA CompleteKeeps ==
    ASSUME IInv, NEW u \in pending, CompleteScan(u)
    PROVE  IInv'
<1> USE DEF IInv, passVars, capVars, storeVars, sizeVars
<1>1. /\ UNCHANGED <<cancelled, guard, concurrency, targets, pc, cursor, empty, credits,
                     borrower, free, inFlight, owned, attempts, outageBlamed>>
      /\ pending' = {}
  BY Zenon DEF CompleteScan
<1>2. TypeOK'
  BY <1>1, CompleteStores, Zenon DEF TypeOK
<1>3. \A a \in attempts : lease'[a.row] = a.token => lease[a.row] = a.token
  <2>1. \A a \in attempts : a.row \in Rows /\ a.token # 0
    BY AttemptFields, Zenon DEF TypeOK
  <2>2. QED
    BY <2>1, CompleteStores, Zenon
<1>4. Facts'
  BY <1>1, <1>2, <1>3, CompleteStores, QuietKeeps, Zenon DEF Leases, NothingOwned
<1>5. QED
  BY <1>2, <1>4, AccountedComplete, Zenon DEF Facts

(* A claim of fillReservations.                                            *)
LEMMA FillKeeps ==
    ASSUME IInv, FillReservations
    PROVE  IInv'
<1> USE DEF IInv, passVars, capVars, storeVars, sizeVars
<1> DEFINE q == AskedQueue
           limit == Min({targets[q] - inFlight[q], free})
<1>1. q \in Queues /\ pc = "fill"
  BY AskedType, Zenon DEF FillReservations, Filling, UnderReserved
<1>2. limit \in Int /\ limit <= free
  BY <1>1, MinPair DEF TypeOK
<1>3. UNCHANGED <<cancelled, guard, concurrency, targets, credits, borrower, outageBlamed>>
  BY Zenon DEF FillReservations
<1>4. CASE ClaimReturns(q, limit) /\ cursor' = q + 1 /\ UNCHANGED pc
  <2> HIDE DEF q, limit
  <2>1. cursor' \in 0 .. scanQueueCount
    BY <1>1, <1>4, SMTT(30) DEF scanQueueCount, Queues
  <2>2. TypeOK'
    BY <1>1, <1>3, <1>4, <2>1, ClaimTypes, Zenon DEF TypeOK
  <2>3. Accounted'
    BY <1>1, <1>4, AccountedClaim, Zenon DEF Ended
  <2>4. QED
    BY <1>1, <1>2, <1>3, <1>4, <2>2, <2>3, ClaimKeeps, Zenon DEF Facts, Ended
<1>5. CASE ClaimErrors(q, limit) /\ pc' = "borrow" /\ cursor' = 0 /\ UNCHANGED empty
  <2> HIDE DEF q, limit
  <2>1. TypeOK'
    BY <1>1, <1>3, <1>5, ClaimTypes DEF TypeOK, scanQueueCount
  <2>2. Accounted'
    BY <1>1, <1>5, ClaimTypes, AccountedStays, Zenon DEF Ended
  <2>3. QED
    BY <1>1, <1>3, <1>5, <2>1, <2>2, ClaimTypes, QuietKeeps, Zenon DEF Facts, Ended
<1>6. QED
  BY <1>4, <1>5, Zenon DEF FillReservations

(* A claim of borrow.                                                      *)
LEMMA BorrowKeeps ==
    ASSUME IInv, Borrow
    PROVE  IInv'
<1> USE DEF IInv, passVars, capVars, storeVars, sizeVars
<1> DEFINE q == AskedQueue
<1>1. q \in Queues /\ pc \in {"fill", "borrow"}
  BY AskedType, Zenon DEF Borrow, Borrowing
<1>2. 1 <= free /\ free \in Int
  <2>1. q # -1 => free > 0
    BY Zenon DEF AskedQueue, Filling
  <2>2. QED
    BY <2>1 DEF Borrow, TypeOK
<1>3. credits' \in [Queues -> Int]
  BY CreditsType, WeightsType, Zenon DEF Borrow, TypeOK
<1>4. UNCHANGED <<cancelled, guard, concurrency, targets, outageBlamed>>
  BY Zenon DEF Borrow
<1>5. \/ /\ ClaimReturns(q, 1)
         /\ borrower' = IF small THEN borrower ELSE q
         /\ pc' = "borrow" /\ cursor' = 0
      \/ ClaimErrors(q, 1) /\ EndPass /\ UNCHANGED borrower
  BY Zenon DEF Borrow
<1> HIDE DEF q
<1>6. CASE /\ ClaimReturns(q, 1)
           /\ borrower' = IF small THEN borrower ELSE q
           /\ pc' = "borrow" /\ cursor' = 0
  <2>1. borrower' \in Queues /\ cursor' \in 0 .. scanQueueCount
    BY <1>1, <1>6, SMTT(30) DEF TypeOK, scanQueueCount
  <2>2. TypeOK'
    BY <1>1, <1>3, <1>4, <1>6, <2>1, ClaimTypes, Zenon DEF TypeOK
  <2>3. Accounted'
    BY <1>1, <1>6, AccountedClaim, Zenon DEF Ended
  <2>4. Facts'
    BY <1>1, <1>2, <1>4, <1>6, <2>2, ClaimKeeps DEF Ended
  <2>5. QED
    BY <2>2, <2>3, <2>4, Zenon DEF Facts
<1>7. CASE ClaimErrors(q, 1) /\ EndPass /\ UNCHANGED borrower
  <2>1. pc' = "idle" /\ cursor' \in 0 .. scanQueueCount /\ empty' = {}
    BY <1>7, SMTT(30) DEF EndPass, scanQueueCount
  <2>2. TypeOK'
    BY <1>1, <1>3, <1>4, <1>7, <2>1, ClaimTypes, Zenon DEF TypeOK
  <2>3. Accounted'
    BY <1>1, <1>7, <2>1, ClaimTypes, AccountedStays, Zenon DEF Ended
  <2>4. QED
    BY <1>1, <1>4, <1>7, <2>1, <2>2, <2>3, ClaimTypes, QuietKeeps, Zenon DEF Facts, Ended
<1>8. QED
  BY <1>5, <1>6, <1>7, Zenon

(* Steps that touch neither attempts nor slots.                            *)
LEMMA LoopKeeps ==
    ASSUME IInv,
           \/ Admit \/ BorrowDone \/ Shutdown \/ DrainEnds \/ Stop \/ Return
           \/ Cancel \/ PauseEnds
    PROVE  IInv'
<1> USE DEF IInv, passVars, capVars, storeVars, sizeVars
<1>1. /\ UNCHANGED <<guard, concurrency, targets, free, inFlight, owned, attempts,
                     pending, healthy, lease, lost, outageBlamed, faults>>
      /\ cancelled' \in BOOLEAN /\ paused' \in BOOLEAN
  BY Zenon DEF Admit, BorrowDone, Shutdown, DrainEnds, Stop, Return, Cancel, PauseEnds, TypeOK
<1>2. /\ pc' \in {"idle", "fill", "borrow", "drain", "release", "stopped", "returned"}
      /\ pc \in Ended => pc' \in Ended
      /\ pc' \in Ended => pc \in Ended \/ pending = {}
      /\ pc' \in {"stopped", "returned"} => Owned = {}
  BY Zenon DEF Admit, BorrowDone, Shutdown, DrainEnds, Stop, Return, Cancel, PauseEnds, TypeOK,
         EndPass, Borrowing, Filling, Ended, Leases, NothingOwned
<1>3. cursor' \in 0 .. scanQueueCount /\ empty' \subseteq Queues /\ borrower' \in Queues
  <2>1. 0 \in 0 .. scanQueueCount /\ 0 \in Queues
    BY DEF scanQueueCount, Queues
  <2>2. CASE UNCHANGED <<cursor, empty>> /\ borrower' \in {borrower, 0}
    BY <2>1, <2>2, Zenon DEF TypeOK
  <2>3. CASE EndPass /\ UNCHANGED borrower
    BY <2>1, <2>3, Zenon DEF EndPass, TypeOK
  <2>4. QED
    BY <2>2, <2>3, Zenon
    DEF Admit, BorrowDone, Shutdown, DrainEnds, Stop, Return, Cancel, PauseEnds
<1>4. credits' \in [Queues -> Int]
  BY CreditsType, WeightsType
  DEF Admit, BorrowDone, Shutdown, DrainEnds, Stop, Return, Cancel, PauseEnds, TypeOK
<1>5. TypeOK'
  BY <1>1, <1>2, <1>3, <1>4, Zenon DEF TypeOK
<1>6. Facts'
  BY <1>1, <1>2, <1>5, QuietKeeps, SMTT(30) DEF TypeOK
<1>7. Accounted'
  BY <1>1, <1>2, AccountedStays, Zenon
<1>8. QED
  BY <1>5, <1>6, <1>7, Zenon DEF Facts

(* A lease that expires only frees its row.                                *)
LEMMA ExpiryKeeps ==
    ASSUME IInv, NEW r \in Rows, LeaseExpires(r)
    PROVE  IInv'
<1> USE DEF IInv, passVars, capVars, storeVars, sizeVars
<1>1. /\ UNCHANGED <<cancelled, guard, concurrency, targets, pc, cursor, empty, free,
                     inFlight, credits, borrower, owned, paused, attempts, healthy,
                     outageBlamed, pending>>
      /\ lease' = [lease EXCEPT ![r] = 0] /\ lost' = lost \ {r}
  BY Zenon DEF LeaseExpires, Free
<1>2. faults' \in 0 .. MaxFaults /\ faults' >= faults
  BY FaultsAssumption DEF LeaseExpires, Fault, TypeOK
<1>3. TypeOK'
  BY <1>1, <1>2, Zenon DEF TypeOK
<1>4. \A a \in attempts : lease'[a.row] = a.token => lease[a.row] = a.token
  BY <1>1, AttemptFields, Zenon DEF TypeOK
<1>5. Accounted'
  <2>1. \A x \in Rows : lease'[x] # 0 => x \in lost' \/ (lease'[x] = lease[x] /\ x \notin lost)
    BY <1>1, Zenon DEF TypeOK
  <2>2. QED
    BY <1>1, <2>1, AccountedStays, Zenon
<1>6. QED
  BY <1>1, <1>2, <1>3, <1>4, <1>5, QuietKeeps, Zenon DEF Facts, Leases, NothingOwned

(* releaseOutstanding gives back one lease.                                *)
LEMMA ReleaseStep ==
    ASSUME IInv, NEW r \in Rows, ReleaseOwned(r)
    PROVE  IInv'
<1> USE DEF IInv, passVars, capVars, storeVars, sizeVars
<1>1. /\ owned' \in [Rows -> Tokens \cup {0}] /\ attempts' \subseteq Attempts
      /\ UNCHANGED <<cancelled, guard, concurrency, targets, pc, cursor, empty, free,
                     inFlight, credits, borrower, paused, outageBlamed, pending>>
  BY Zenon DEF ReleaseOwned, TypeOK
<1>2. /\ lease' \in [Rows -> Tokens \cup {0}] /\ faults' \in 0 .. MaxFaults
      /\ UNCHANGED healthy /\ lost' \subseteq Rows
  BY ReleaseStores, Zenon DEF ReleaseOwned
<1>3. TypeOK'
  BY <1>1, <1>2, Zenon DEF TypeOK
<1>4. QED
  BY <1>3, ReleaseKeeps, AccountedRelease, Zenon DEF Facts

(* Every step keeps the invariant.                                         *)
LEMMA NextIInv == IInv /\ [Next]_vars => IInv'
<1> SUFFICES ASSUME IInv, [Next]_vars PROVE IInv'
  BY Zenon
<1>1. CASE UNCHANGED vars
  <2>1. TypeOK'
    BY <1>1, Zenon DEF IInv, TypeOK, vars, passVars, capVars, storeVars, sizeVars
  <2>2. /\ UNCHANGED <<attempts, owned, free, inFlight, concurrency, outageBlamed>>
        /\ UNCHANGED <<guard, pc, lease, lost, pending, faults>>
    BY <1>1, Zenon DEF vars, capVars, storeVars, sizeVars
  <2>3. faults' >= faults
    BY <2>2, SMTT(30) DEF IInv, TypeOK
  <2>4. pc' \in {"stopped", "returned"} => Owned = {}
    BY <2>2, Zenon DEF IInv, Leases, NothingOwned
  <2>5. Facts'
    BY <2>1, <2>2, <2>3, <2>4, QuietKeeps, Zenon
  <2>6. Accounted'
    BY <2>2, AccountedStays, Zenon DEF IInv
  <2>7. QED
    BY <2>1, <2>5, <2>6, Zenon DEF IInv, Facts
<1>2. CASE Dispatch
  BY <1>2, ResultKeeps, CompleteKeeps, FillKeeps, BorrowKeeps, LoopKeeps, ReleaseStep, Zenon
  DEF Dispatch
<1>3. CASE Execute
  BY <1>3, ExecuteKeeps, Zenon
<1>4. CASE GuardRecovers \/ GuardFails
  BY <1>4, GuardKeeps, Zenon
<1>5. CASE Environment
  BY <1>4, <1>5, LoopKeeps, ExpiryKeeps, Zenon DEF Environment
<1>6. QED
  BY <1>1, <1>2, <1>3, <1>4, <1>5, Zenon DEF Next

(* The invariant holds in every state.                                     *)
LEMMA Invariance == Spec => []IInv
BY InitIInv, NextIInv, PTL DEF Spec

-----------------------------------------------------------------------------
(* Type correctness: every variable of RunScan, its guard and its store    *)
(* keeps its type.                                                         *)
THEOREM TypeCorrect == Spec => []TypeOK
<1>1. IInv => TypeOK
  BY Zenon DEF IInv
<1>2. QED
  BY <1>1, Invariance, PTL

(* However checks, outages, recoveries and results interleave,             *)
(* ClassifyCheck and the recheck in finish never decide for a failure      *)
(* after an outage this replica saw between the attempt's start snapshot   *)
(* and that recheck.                                                       *)
THEOREM OutageTheorem == Spec => []OutageNeverBlamed
<1>1. IInv => OutageNeverBlamed
  BY Zenon DEF IInv
<1>2. QED
  BY <1>1, Invariance, PTL

(* The drain never waits for a lease no attempt will answer for, and when  *)
(* RunScan is done every lease left in the table was left by a store call  *)
(* that failed or was taken while another attempt on its row was           *)
(* outstanding.                                                            *)
THEOREM ShutdownTheorem == Spec => [](OwnedIsOutstanding /\ ShutdownReleases)
<1>1. IInv => OwnedIsOutstanding /\ ShutdownReleases
  <2> SUFFICES ASSUME IInv PROVE ShutdownReleases
    BY Zenon DEF IInv, Leases
  <2> SUFFICES ASSUME pc \in {"stopped", "returned"}, NEW r \in Rows, lease[r] # 0,
                      r \notin lost
               PROVE  \E a \in attempts : a.row = r /\ a.token = lease[r] /\ a.overlap
    BY Zenon DEF ShutdownReleases, Outstanding
  <2>1. PICK a \in attempts : a.row = r /\ a.token = lease[r]
    BY Zenon DEF IInv, Accounted, Ended
  <2>2. ~a.overlap => owned[a.row] = a.token
    BY <2>1, Zenon DEF IInv, Leases, LeaseIsOwned
  <2>3. QED
    BY <2>1, <2>2, Zenon DEF IInv, Leases, NothingOwned, Owned
<1>2. QED
  BY <1>1, Invariance, PTL

(* free and inFlight account for every attempt handed out until the drain  *)
(* gives up, so the jobs and results channels are never full.              *)
THEOREM CapacityTheorem == Spec => []Capacity
<1>1. IInv => Capacity
  BY Zenon DEF IInv, Sized
<1>2. QED
  BY <1>1, Invariance, PTL

-----------------------------------------------------------------------------
(* reservationTargets for every concurrency and all legal weights.         *)

(* reservationTargets hands out every slot, and to each queue its share to *)
(* within one slot, for every concurrency from three on and all weights    *)
(* that add up to 100.                                                     *)
THEOREM ProportionalTheorem ==
    /\ \A c \in Nat : c >= 3 => Proportional(c, Weights)
    /\ TargetsProportional
<1>1. ASSUME NEW c \in Nat, c >= 3 PROVE Proportional(c, Weights)
  BY <1>1, TargetsProportionalFor, WeightsAssumption
<1>2. ASSUME NEW c \in 3 .. 12, NEW i \in 1 .. 98, NEW j \in 1 .. 98, i + j < 100
      PROVE  Proportional(c, [q \in Queues |-> IF q = 0 THEN i
                                               ELSE IF q = 1 THEN j ELSE 100 - i - j])
  <2> DEFINE w == [q \in Queues |-> IF q = 0 THEN i ELSE IF q = 1 THEN j ELSE 100 - i - j]
  <2>1. w \in [Queues -> Nat] /\ Total(w) = 100 /\ c \in Nat /\ c >= 3
    BY <1>2 DEF Queues, Total
  <2> HIDE DEF w
  <2>2. Proportional(c, w)
    BY <2>1, TargetsProportionalFor, Zenon
  <2>3. QED
    BY <2>2, Zenon DEF w
<1>3. TargetsProportional
  BY <1>2, Zenon DEF TargetsProportional
<1>4. QED
  BY <1>1, <1>3, Zenon
=============================================================================
