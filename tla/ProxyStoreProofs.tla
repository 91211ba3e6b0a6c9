-------------------------- MODULE ProxyStoreProofs --------------------------
(***************************************************************************)
(* Proofs about ProxyStore for every policy the configuration accepts and  *)
(* any number of dispatchers and consumers.  The inductive invariant says  *)
(* what a captured record still knows: while its version is the row's, so  *)
(* is its recovery step, and no evidence is younger than it.               *)
(***************************************************************************)
EXTENDS ProxyStore, TLAPS

(* A record captured by a dispatcher or a consumer, against the row.       *)
Known(x) ==
    /\ x.version <= version /\ x.at <= now
    /\ x.version = version => x.step = step /\ evidence.at <= x.at

Records ==
    /\ \A l \in leases : Known(l)
    /\ \A h \in held : Known(h)
    /\ evidence.at <= now

(* One record per consumer, and no lock of the future.                     *)
Locks ==
    /\ \A h, k \in held : h.owner = k.owner => h = k
    /\ \A h \in held : 0 < h.since /\ h.since <= now

Repeat == completedAt # 0 => notBefore >= completedAt + MinRepeat

IInv == TypeOK /\ Records /\ Locks /\ LockHeld /\ Repeat /\ Classification

(* The durations and bounds of the policy are natural numbers.             *)
LEMMA PolicyFacts ==
    /\ LeaseDuration \in Nat /\ LockTTL \in Nat /\ FreshnessTTL \in Nat
    /\ RecoveryHorizon \in Nat /\ VerifyInterval \in Nat /\ MinRepeat \in Nat
    /\ InconclusiveRetry \in Nat /\ FailThreshold \in Nat \ {0}
    /\ StepBound \in Nat \ {0} /\ MinRepeat <= InconclusiveRetry
BY PolicyAssumption, Zenon

(* The next recovery step is within its bound and has a delay.             *)
LEMMA NextStepType ==
    ASSUME NEW s \in 0 .. StepBound
    PROVE  /\ NextStep(s) \in 1 .. StepBound
           /\ RecoveryDelays[NextStep(s) - 1] \in Nat
BY PolicyAssumption, PolicyFacts DEF NextStep

(* A row that was just inserted.                                           *)
LEMMA InitIInv == Init => IInv
<1> SUFFICES ASSUME Init PROVE IInv
  BY Zenon
<1>1. TypeOK
  <2>1. healthy \in BOOLEAN
    BY Zenon DEF Init
  <2>2. evidence \in [at : Nat, basis : Nat]
    BY Zenon DEF Init
  <2>3. QED
    BY <2>1, <2>2, PolicyFacts DEF Init, TypeOK
<1>2. Records /\ Locks /\ LockHeld /\ Repeat
  BY DEF Init, Records, Locks, LockHeld, Repeat
<1>3. Classification
  BY PolicyFacts DEF Init, Classification
<1>4. QED
  BY <1>1, <1>2, <1>3, Zenon DEF IInv

(* Steps that change no evidence and no schedule: what remains to be shown *)
(* is about the locks and the records in use.                              *)
LEMMA QuietKeeps ==
    ASSUME IInv, UNCHANGED <<evidenceVars, scheduleVars, evidence>>, TypeOK',
           now' >= now,
           \A l \in leases' : l \in leases \/ Known(l)',
           \A h \in held' : h \in held \/ Known(h)',
           Locks', LockHeld'
    PROVE  IInv'
<1>1. \A x \in leases \cup held : Known(x)'
  BY DEF IInv, Records, Known, evidenceVars, TypeOK, Lease, Holding
<1>2. Records'
  BY <1>1 DEF IInv, Records, TypeOK
<1>3. Repeat' /\ Classification'
  BY Zenon DEF IInv, Repeat, Classification, evidenceVars, scheduleVars
<1>4. QED
  BY <1>2, <1>3, Zenon DEF IInv

(* Time passes: a lock may run out, nothing else changes.                  *)
LEMMA TickKeeps == IInv /\ Tick => IInv'
<1> SUFFICES ASSUME IInv, Tick PROVE IInv'
  BY Zenon
<1>1. TypeOK'
  BY DEF IInv, TypeOK, Tick, evidenceVars, scheduleVars, leaseVars, lockVars, Lease, Holding
<1>2. Locks' /\ LockHeld'
  BY PolicyFacts DEF IInv, TypeOK, Tick, Locks, LockHeld, lockVars, Holding
<1>3. QED
  BY <1>1, <1>2, QuietKeeps DEF Tick, IInv, TypeOK

(* ClaimScans leases the row under a token nobody has.                     *)
LEMMA ClaimScansKeeps ==
    ASSUME IInv, NEW queue, ClaimScans(queue)
    PROVE  IInv'
<1>1. PICK x \in Lease : /\ leases' = leases \cup {x}
                        /\ x.version = version /\ x.step = step /\ x.at = now
  <2> DEFINE l == [token |-> lastToken + 1, version |-> version, step |-> step, at |-> now]
  <2>1. leases' = leases \cup {l}
    BY Zenon DEF ClaimScans
  <2>2. l \in Lease
    BY DEF IInv, TypeOK, Lease
  <2>3. QED
    BY <2>1, <2>2, Zenon
<1>2. TypeOK'
  BY <1>1, PolicyFacts
  DEF IInv, TypeOK, ClaimScans, evidenceVars, scheduleVars, lockVars
<1>3. Known(x)'
  BY <1>1 DEF IInv, TypeOK, Records, Known, ClaimScans, evidenceVars, Lease
<1>4. Locks' /\ LockHeld'
  BY Zenon DEF IInv, Locks, LockHeld, ClaimScans, lockVars
<1>5. QED
  BY <1>1, <1>2, <1>3, <1>4, QuietKeeps DEF ClaimScans, IInv, TypeOK

(* Accepted evidence: the version moves past every captured record.        *)
LEMMA EvidenceKeeps ==
    ASSUME IInv, TypeOK', version' = version + 1, leases' \subseteq leases,
           completedAt' = now, notBefore' = now + MinRepeat, evidence'.at = now,
           Classification', UNCHANGED <<lockVars, now, held>>
    PROVE  IInv'
<1>1. Records'
  BY DEF IInv, TypeOK, Records, Known, Lease, Holding
<1>2. Locks' /\ LockHeld'
  BY Zenon DEF IInv, Locks, LockHeld, lockVars
<1>3. Repeat'
  BY DEF Repeat
<1>4. QED
  BY <1>1, <1>2, <1>3, Zenon DEF IInv

(* A failure that is persisted, by a scan or by a consumer.                *)
LEMMA FailureKeeps ==
    ASSUME IInv, NEW x, x.step \in 0 .. StepBound, x.at \in Nat, PersistFailure(x),
           leases' \subseteq leases, UNCHANGED <<lockVars, cooldown, now, lastToken, held>>
    PROVE  IInv'
<1>1. NextStep(x.step) \in 1 .. StepBound /\ RecoveryDelays[NextStep(x.step) - 1] \in Nat
  BY NextStepType, Zenon
<1>2. failureStatus \in {"inactive", "dead"}
      /\ (failCount + 1 >= FailThreshold => failureStatus = "dead")
  BY Zenon DEF failureStatus
<1>3. TypeOK'
  <2>1. evidence' \in [at : Nat, basis : Nat]
    BY Zenon DEF PersistFailure, Observed, IInv, TypeOK
  <2>2. step' \in 0 .. StepBound /\ status' \in {"active", "inactive", "dead"}
        /\ nextAt' \in Nat /\ notBefore' \in Nat /\ completedAt' \in Nat
    BY <1>1, <1>2, PolicyFacts DEF PersistFailure, IInv, TypeOK
  <2>3. healthy' \in BOOLEAN
    BY Zenon DEF PersistFailure
  <2>4. QED
    BY <2>1, <2>2, <2>3 DEF IInv, TypeOK, PersistFailure, ClearLease, lockVars
<1>4. Classification'
  BY <1>1, <1>2, PolicyFacts DEF IInv, TypeOK, Classification, PersistFailure
<1>5. QED
  BY <1>3, <1>4, EvidenceKeeps, Zenon DEF PersistFailure, Observed

(* Every way in which a leased scan ends.                                  *)
LEMMA ScanKeeps ==
    ASSUME IInv, NEW l \in leases, ScanStep(l)
    PROVE  IInv'
<1>1. /\ leases' = leases \ {l}
      /\ UNCHANGED <<lockVars, cooldown, now, lastToken, held>>
      /\ l \in Lease
  BY Zenon DEF ScanStep, CompleteSuccess, CompleteFailure, CompleteInconclusive,
         CompleteDiscarded, ReleaseScan, AbandonScan, EndAttempt, IInv, TypeOK
<1>2. CASE CompleteSuccess(l)
  <2>1. TypeOK'
    BY <1>1, <1>2, PolicyFacts
    DEF IInv, TypeOK, CompleteSuccess, ClearLease, Observed, Lease, lockVars
  <2>2. Classification'
    BY <1>2, PolicyFacts DEF IInv, TypeOK, Classification, CompleteSuccess
  <2>3. QED
    BY <1>1, <1>2, <2>1, <2>2, EvidenceKeeps, Zenon DEF CompleteSuccess, Observed
<1>3. CASE CompleteFailure(l)
  BY <1>1, <1>3, FailureKeeps, Zenon DEF CompleteFailure, Lease
<1>4. Locks' /\ LockHeld'
  BY <1>1, Zenon DEF IInv, Locks, LockHeld, lockVars
<1>5. ASSUME NEW retryAfter \in RetryAfters, CompleteInconclusive(l, retryAfter)
      PROVE  IInv'
  <2> DEFINE d == InconclusiveDelay(retryAfter)
  <2>1. d \in Nat /\ d >= MinRepeat
    BY PolicyAssumption, PolicyFacts DEF InconclusiveDelay, LargerOf
  <2>2. /\ completedAt' = now /\ nextAt' = now + d /\ notBefore' = now + d
        /\ ClearLease /\ UNCHANGED <<evidenceVars, evidence>>
    BY <1>5, Zenon DEF CompleteInconclusive
  <2> HIDE DEF d
  <2>3. TypeOK'
    BY <1>1, <2>1, <2>2 DEF IInv, TypeOK, ClearLease, evidenceVars, lockVars
  <2>4. Records'
    BY <1>1, <2>2, Zenon DEF IInv, Records, Known, evidenceVars
  <2>5. Repeat' /\ Classification'
    BY <2>1, <2>2, PolicyFacts DEF IInv, TypeOK, Repeat, Classification, evidenceVars
  <2>6. QED
    BY <1>4, <2>3, <2>4, <2>5, Zenon DEF IInv
<1>6. CASE CompleteDiscarded(l) \/ ReleaseScan(l) \/ AbandonScan(l)
  <2>1. UNCHANGED <<evidenceVars, scheduleVars, evidence>>
        /\ (ClearLease \/ UNCHANGED leaseVars)
    BY <1>6, Zenon DEF CompleteDiscarded, ReleaseScan, AbandonScan
  <2>2. TypeOK'
    BY <1>1, <2>1
    DEF IInv, TypeOK, ClearLease, evidenceVars, scheduleVars, leaseVars, lockVars
  <2>3. QED
    BY <1>1, <1>4, <2>1, <2>2, QuietKeeps DEF IInv, TypeOK
<1>7. QED
  BY <1>2, <1>3, <1>5, <1>6, Zenon DEF ScanStep

(* At most one consumer can believe its lock is valid.                     *)
LEMMA OneValid ==
    ASSUME IInv, NEW h \in held, NEW k \in held,
           now <= k.since + LockTTL, lockedBy = h.owner
    PROVE  k = h
BY Zenon DEF IInv, Locks, LockHeld

(* ClaimProxy locks a row that nobody validly holds.                       *)
LEMMA ClaimProxyKeeps ==
    ASSUME IInv, NEW c \in Consumers, ClaimProxy(c)
    PROVE  IInv'
<1>1. PICK x \in Holding : /\ held' = held \cup {x} /\ x.owner = c
                          /\ x.version = version /\ x.step = step
                          /\ x.at = now /\ x.since = now
  <2> DEFINE y == [owner |-> c, version |-> version, step |-> step,
                   at |-> now, since |-> now]
  <2>1. held' = held \cup {y}
    BY Zenon DEF ClaimProxy
  <2>2. y \in Holding
    BY Zenon DEF IInv, TypeOK, Holding
  <2>3. QED
    BY <2>1, <2>2, Zenon
<1>2. TypeOK'
  BY <1>1, Zenon DEF IInv, TypeOK, ClaimProxy, evidenceVars, scheduleVars, leaseVars
<1>3. Known(x)'
  BY <1>1 DEF IInv, TypeOK, Records, Known, ClaimProxy, evidenceVars, Holding
<1>4. \A k \in held : ~(now <= k.since + LockTTL)
  BY PolicyFacts DEF IInv, TypeOK, Locks, LockHeld, ClaimProxy, Unlocked, Holding
<1>5. Locks'
  BY <1>1 DEF IInv, TypeOK, Locks, ClaimProxy
<1>6. LockHeld'
  BY <1>1, <1>4, Zenon DEF LockHeld, ClaimProxy
<1>7. QED
  BY <1>1, <1>2, <1>3, <1>5, <1>6, QuietKeeps DEF ClaimProxy, IInv, TypeOK

(* RefreshProxy gives the holder a current record.                         *)
LEMMA RefreshKeeps ==
    ASSUME IInv, NEW h \in held, NEW t \in StatementTimes(h), RefreshConsumerLock(h, t)
    PROVE  IInv'
<1>1. t \in Nat /\ 0 < t /\ t <= now /\ h \in Holding
  BY DEF StatementTimes, IInv, TypeOK, Locks, Holding
<1>2. PICK x \in Holding : /\ held' = (held \ {h}) \cup {x} /\ x.owner = h.owner
                          /\ x.version = version /\ x.step = step
                          /\ x.at = now /\ x.since = t
  <2> DEFINE y == [owner |-> h.owner, version |-> version, step |-> step,
                   at |-> now, since |-> t]
  <2>1. held' = (held \ {h}) \cup {y}
    BY Zenon DEF RefreshConsumerLock
  <2>2. y \in Holding
    BY <1>1, Zenon DEF IInv, TypeOK, Holding
  <2>3. QED
    BY <2>1, <2>2, Zenon
<1>3. TypeOK'
  BY <1>1, <1>2, Zenon
  DEF IInv, TypeOK, RefreshConsumerLock, evidenceVars, scheduleVars, leaseVars
<1>4. Known(x)'
  BY <1>2 DEF IInv, TypeOK, Records, Known, RefreshConsumerLock, evidenceVars, Holding
<1>5. \A k \in held \ {h} : ~(now <= k.since + LockTTL)
  BY OneValid, Zenon DEF RefreshConsumerLock
<1>6. Locks'
  BY <1>1, <1>2, Zenon DEF IInv, TypeOK, Locks, RefreshConsumerLock
<1>7. LockHeld'
  BY <1>2, <1>5, Zenon DEF LockHeld, RefreshConsumerLock
<1>8. QED
  BY <1>2, <1>3, <1>4, <1>6, <1>7, QuietKeeps DEF RefreshConsumerLock, IInv, TypeOK

(* A consumer lets go of its record, and of the lock only if it is its own.*)
LEMMA LetGoKeeps ==
    ASSUME IInv, NEW h \in held, held' = held \ {h}, cooldown' \in Nat,
           UNCHANGED lockVars \/ (lockedBy = h.owner /\ ClearLock),
           UNCHANGED <<evidenceVars, scheduleVars, leaseVars, now, lastToken,
                       leases, evidence>>
    PROVE  IInv'
<1>1. TypeOK'
  BY DEF IInv, TypeOK, ClearLock, evidenceVars, scheduleVars, leaseVars, lockVars
<1>2. Locks'
  BY Zenon DEF IInv, Locks
<1>3. LockHeld'
  BY OneValid, Zenon DEF IInv, LockHeld, lockVars
<1>4. QED
  BY <1>1, <1>2, <1>3, QuietKeeps DEF IInv, TypeOK

(* Every statement of a consumer.                                          *)
LEMMA ConsumerKeeps ==
    ASSUME IInv, NEW h \in held, ConsumerStep(h)
    PROVE  IInv'
<1>1. h \in Holding /\ cooldown \in Nat
  BY Zenon DEF IInv, TypeOK
<1>a. h.since \in Nat /\ now \in Nat
  BY <1>1, Zenon DEF IInv, TypeOK, Holding
<1>2. ASSUME NEW t \in StatementTimes(h), RefreshConsumerLock(h, t) PROVE IInv'
  BY <1>2, RefreshKeeps, Zenon
<1>3. CASE RecordConsumerFailure(h)
  BY <1>1, <1>3, FailureKeeps, Zenon DEF RecordConsumerFailure, Holding
<1>4. CASE RecordConsumerFailureStale(h)
  BY <1>1, <1>4, LetGoKeeps, Zenon DEF RecordConsumerFailureStale, LockValid
<1>5. ASSUME NEW t \in StatementTimes(h), NEW delay \in Cooldowns,
             CooldownDestination(h, t, delay)
      PROVE  IInv'
  <2>a. t \in Nat
    BY <1>a DEF StatementTimes
  <2>b. delay \in Nat
    BY PolicyAssumption, Zenon
  <2>1. t + delay \in Nat
    BY <2>a, <2>b
  <2>2. cooldown' \in Nat
    BY <1>1, <1>5, <2>1, Zenon DEF CooldownDestination, RaiseCooldown, LargerOf
  <2>3. QED
    BY <1>5, <2>2, LetGoKeeps, Zenon DEF CooldownDestination, Owns
<1>6. CASE ReleaseProxy(h)
  BY <1>1, <1>6, LetGoKeeps, Zenon DEF ReleaseProxy, Owns
<1>7. CASE AbandonProxy(h)
  BY <1>1, <1>7, LetGoKeeps, Zenon DEF AbandonProxy
<1>8. QED
  BY <1>2, <1>3, <1>4, <1>5, <1>6, <1>7, Zenon DEF ConsumerStep

(* Every step keeps the invariant.                                         *)
LEMMA NextIInv == IInv /\ [Next]_vars => IInv'
<1> SUFFICES ASSUME IInv, [Next]_vars PROVE IInv'
  BY Zenon
<1>1. CASE UNCHANGED vars
  BY <1>1, Zenon
  DEF vars, evidenceVars, scheduleVars, leaseVars, lockVars, IInv, TypeOK, Records, Known,
      Locks, LockHeld, Repeat, Classification
<1>2. CASE Tick
  BY <1>2, TickKeeps, Zenon
<1>3. ASSUME NEW queue, ClaimScans(queue) PROVE IInv'
  BY <1>3, ClaimScansKeeps, Zenon
<1>4. ASSUME NEW l \in leases, ScanStep(l) PROVE IInv'
  BY <1>4, ScanKeeps, Zenon
<1>5. ASSUME NEW c \in Consumers, ClaimProxy(c) PROVE IInv'
  BY <1>5, ClaimProxyKeeps, Zenon
<1>6. ASSUME NEW h \in held, ConsumerStep(h) PROVE IInv'
  BY <1>6, ConsumerKeeps
<1>7. QED
  BY <1>1, <1>2, <1>3, <1>4, <1>5, <1>6, Zenon DEF Next

(* The invariant holds in every state.                                     *)
LEMMA Invariance == Spec => []IInv
BY InitIInv, NextIInv, PTL DEF Spec

-----------------------------------------------------------------------------
(* Every reachable row has well-formed columns, leases and lock records:   *)
(* the writes of CompleteScan, RecordConsumerFailure and the claims never  *)
(* leave their ranges, the clamped recovery step included.                 *)
THEOREM TypeCorrect == Spec => []TypeOK
BY Invariance, PTL DEF IInv

(* A consumer's lock is its own until its TTL, measured from its last      *)
(* successful claim or refresh, has passed (ClaimProxy,                    *)
(* RefreshConsumerLock, ReleaseProxy, CooldownDestination).                *)
THEOREM LockHeldTheorem == Spec => []LockHeld
BY Invariance, PTL DEF IInv

(* The status column, the failure counter and the recovery step always     *)
(* agree with the general evidence (CompleteScan, failureStatus).          *)
THEOREM ClassificationTheorem == Spec => []Classification
BY Invariance, PTL DEF IInv

-----------------------------------------------------------------------------
(* Evidence only comes from a record of the current version.               *)
LEMMA EvidenceSource ==
    ASSUME [Next]_vars
    PROVE  \/ UNCHANGED <<evidence, failCount, step>>
           \/ \E x \in leases \cup held :
                 /\ x.version = version /\ Observed(x)
                 /\ failCount' = 0 \/ (failCount' = failCount + 1 /\ step' = NextStep(x.step))
<1>1. CASE UNCHANGED vars
  BY <1>1, Zenon DEF vars, evidenceVars
<1>2. CASE Tick
  BY <1>2, Zenon DEF Tick, evidenceVars
<1>3. ASSUME NEW queue, ClaimScans(queue)
      PROVE  UNCHANGED <<evidence, failCount, step>>
  BY <1>3, Zenon DEF ClaimScans, evidenceVars
<1>4. ASSUME NEW l \in leases, ScanStep(l)
      PROVE  \/ UNCHANGED <<evidence, failCount, step>>
             \/ /\ l.version = version /\ Observed(l)
                /\ failCount' = 0 \/ (failCount' = failCount + 1 /\ step' = NextStep(l.step))
  BY <1>4, Zenon DEF ScanStep, CompleteSuccess, CompleteFailure, PersistFailure,
      CompleteInconclusive, CompleteDiscarded, ReleaseScan, AbandonScan, fencedWhere,
      evidenceVars
<1>5. ASSUME NEW c \in Consumers, ClaimProxy(c)
      PROVE  UNCHANGED <<evidence, failCount, step>>
  BY <1>5, Zenon DEF ClaimProxy, evidenceVars
<1>6. ASSUME NEW h \in held, ConsumerStep(h)
      PROVE  \/ UNCHANGED <<evidence, failCount, step>>
             \/ /\ h.version = version /\ Observed(h)
                /\ failCount' = failCount + 1 /\ step' = NextStep(h.step)
  BY <1>6, Zenon DEF ConsumerStep, RefreshConsumerLock, RecordConsumerFailure, PersistFailure,
      RecordConsumerFailureStale, CooldownDestination, ReleaseProxy, AbandonProxy,
      ConsumerFence, evidenceVars
<1>7. QED
  BY <1>1, <1>2, <1>3, <1>4, <1>5, <1>6, Zenon DEF Next

(* No accepted success or failure overwrites evidence younger than the     *)
(* record its attempt captured, for any number of dispatchers, consumers   *)
(* and delays between capture and completion.                              *)
THEOREM NoStaleEvidenceTheorem == Spec => NoStaleEvidence
<1>1. IInv /\ [Next]_vars => [evidence' # evidence => evidence'.basis >= evidence.at]_vars
  <2> SUFFICES ASSUME IInv, [Next]_vars, evidence' # evidence
               PROVE  evidence'.basis >= evidence.at
    BY Zenon
  <2>1. PICK x \in leases \cup held : x.version = version /\ Observed(x)
    BY EvidenceSource, Zenon
  <2>2. QED
    BY <2>1, Zenon DEF Observed, IInv, Records, Known, TypeOK, Lease, Holding
<1>2. QED
  BY <1>1, Invariance, PTL DEF Spec, NoStaleEvidence

(* Every accepted failure advances the stored recovery step by exactly     *)
(* one, clamped at recoveryStepBound, although it computes it from the     *)
(* record it captured before the attempt.                                  *)
THEOREM StepFenceTheorem == Spec => StepFence
<1>1. IInv /\ [Next]_vars => [failCount' > failCount => step' = NextStep(step)]_vars
  <2> SUFFICES ASSUME IInv, [Next]_vars, failCount' > failCount
               PROVE  step' = NextStep(step)
    BY Zenon
  <2>1. failCount \in Nat
    BY Zenon DEF IInv, TypeOK
  <2>2. PICK x \in leases \cup held : x.version = version /\ step' = NextStep(x.step)
    BY <2>1, EvidenceSource
  <2>3. QED
    BY <2>2, Zenon DEF IInv, Records, Known
<1>2. QED
  BY <1>1, Invariance, PTL DEF Spec, StepFence

-----------------------------------------------------------------------------
(* What a step does to the lease columns.                                  *)
LEMMA LeaseSource ==
    ASSUME IInv, [Next]_vars
    PROVE  \/ UNCHANGED token
           \/ /\ token' # 0 /\ claimLeaseWhere
           \/ /\ token' = 0
              /\ \/ version' # version
                 \/ \E l \in leases \ leases' : l.token = token
<1> USE DEF IInv, TypeOK
<1>1. CASE UNCHANGED vars
  BY <1>1, Zenon DEF vars, leaseVars
<1>2. CASE Tick
  BY <1>2, Zenon DEF Tick, leaseVars
<1>3. ASSUME NEW queue, ClaimScans(queue)
      PROVE  token' # 0 /\ claimLeaseWhere
  BY <1>3 DEF ClaimScans
<1>4. ASSUME NEW l \in leases, ScanStep(l)
      PROVE  UNCHANGED token \/ (token' = 0 /\ l.token = token /\ l \notin leases')
  BY <1>4, Zenon DEF ScanStep, CompleteSuccess, CompleteFailure, PersistFailure, ClearLease,
      CompleteInconclusive, CompleteDiscarded, ReleaseScan, AbandonScan, EndAttempt,
      fencedWhere, releaseWhere, leaseVars
<1>5. ASSUME NEW c \in Consumers, ClaimProxy(c)
      PROVE  UNCHANGED token
  BY <1>5, Zenon DEF ClaimProxy, leaseVars
<1>6. ASSUME NEW h \in held, ConsumerStep(h)
      PROVE  UNCHANGED token \/ (token' = 0 /\ version' # version)
  BY <1>6 DEF ConsumerStep, RefreshConsumerLock, RecordConsumerFailure, PersistFailure,
      RecordConsumerFailureStale, CooldownDestination, ReleaseProxy, AbandonProxy,
      ClearLease, leaseVars
<1>7. QED
  BY <1>1, <1>2, <1>3, <1>4, <1>5, <1>6, Zenon DEF Next

(* An unexpired lease is only ended by the attempt that holds it or by     *)
(* newer evidence: ReleaseScan and ClaimScans of other dispatchers leave   *)
(* it alone.                                                               *)
THEOREM LeaseFenceTheorem == Spec => LeaseFence
<1>1. IInv /\ [Next]_vars =>
        [token # 0 /\ leaseUntil > now /\ token' # token /\ version' = version
           => \E l \in leases \ leases' : l.token = token]_vars
  <2> SUFFICES ASSUME IInv, [Next]_vars, leaseUntil > now, token' # token,
                      version' = version
               PROVE  \E l \in leases \ leases' : l.token = token
    BY Zenon
  <2>1. ~claimLeaseWhere
    BY DEF claimLeaseWhere, IInv, TypeOK
  <2>2. QED
    BY <2>1, LeaseSource, Zenon
<1>2. QED
  BY <1>1, Invariance, PTL DEF Spec, LeaseFence

(* No row is leased before the minimum repeat interval after its last      *)
(* completed attempt, whichever queue claims it and whoever completed it.  *)
THEOREM RepeatFloorTheorem == Spec => RepeatFloor
<1>1. IInv /\ [Next]_vars =>
        [token' # token /\ token' # 0 =>
           completedAt = 0 \/ now >= completedAt + MinRepeat]_vars
  <2> SUFFICES ASSUME IInv, [Next]_vars, token' # token, token' # 0
               PROVE  completedAt = 0 \/ now >= completedAt + MinRepeat
    BY Zenon
  <2>1. claimLeaseWhere
    BY LeaseSource, Zenon
  <2>2. QED
    BY <2>1, PolicyFacts DEF claimLeaseWhere, IInv, TypeOK, Repeat
<1>2. QED
  BY <1>1, Invariance, PTL DEF Spec, RepeatFloor

-----------------------------------------------------------------------------
(* A consumer that has the row has it outside every recorded cooldown, and *)
(* one that lost its lock cannot cool the row down under its successor     *)
(* (ClaimProxy, RefreshConsumerLock, CooldownDestination).                 *)
THEOREM CooldownTheorem == Spec => []CooldownFence
<1>1. Init => CooldownFence
  BY Zenon DEF Init, CooldownFence
<1>2. IInv /\ CooldownFence /\ [Next]_vars => CooldownFence'
  <2> SUFFICES ASSUME IInv, CooldownFence, [Next]_vars PROVE CooldownFence'
    BY Zenon
  <2>1. CASE UNCHANGED vars
    BY <2>1, Zenon DEF vars, CooldownFence
  <2>2. CASE Tick
    BY <2>2, PolicyFacts DEF Tick, CooldownFence, IInv, TypeOK, Holding
  <2>3. ASSUME NEW queue, ClaimScans(queue) PROVE CooldownFence'
    BY <2>3, Zenon DEF ClaimScans, CooldownFence
  <2>4. ASSUME NEW l \in leases, ScanStep(l) PROVE CooldownFence'
    BY <2>4, Zenon DEF ScanStep, CompleteSuccess, CompleteFailure, CompleteInconclusive,
        CompleteDiscarded, ReleaseScan, AbandonScan, EndAttempt, CooldownFence
  <2>5. ASSUME NEW c \in Consumers, ClaimProxy(c) PROVE CooldownFence'
    BY <2>5 DEF ClaimProxy, CooldownFence
  <2>6. ASSUME NEW h \in held, ConsumerStep(h) PROVE CooldownFence'
    <3>1. ASSUME NEW t \in StatementTimes(h), RefreshConsumerLock(h, t)
          PROVE  CooldownFence'
      BY <3>1 DEF RefreshConsumerLock, CooldownFence
    <3>2. ASSUME NEW t \in StatementTimes(h), NEW delay \in Cooldowns,
                 CooldownDestination(h, t, delay)
          PROVE  CooldownFence'
      <4>1. CASE Owns(h)
        BY <3>2, <4>1, OneValid, Zenon DEF CooldownDestination, Owns, CooldownFence
      <4>2. CASE ~Owns(h)
        BY <3>2, <4>2, Zenon DEF CooldownDestination, CooldownFence
      <4>3. QED
        BY <4>1, <4>2, Zenon
    <3>3. QED
      BY <2>6, <3>1, <3>2, Zenon DEF ConsumerStep, RecordConsumerFailure,
         RecordConsumerFailureStale, ReleaseProxy, AbandonProxy, CooldownFence
  <2>7. QED
    BY <2>1, <2>2, <2>3, <2>4, <2>5, <2>6, Zenon DEF Next
<1>3. QED
  BY <1>1, <1>2, Invariance, PTL DEF Spec
=============================================================================
