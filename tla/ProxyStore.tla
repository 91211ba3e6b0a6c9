----------------------------- MODULE ProxyStore -----------------------------
(***************************************************************************)
(* One row of the proxies table and everything that writes it:            *)
(* infrastructure/postgres/repository/proxy_scan.go (scan leases, fenced   *)
(* completions, consumer failures, cooldowns) and proxy.go (consumer       *)
(* claims).  Every statement or transaction locks the row, so each is one  *)
(* action; between them scanners run network checks on leases they may     *)
(* have lost, and consumers run jobs on locks that may have expired.       *)
(*                                                                         *)
(* Time is database time.  0 stands for a NULL timestamp or token, and the *)
(* row is inserted (InsertIfAbsent) at time 1.                             *)
(***************************************************************************)
EXTENDS Integers, FiniteSets

CONSTANTS
    Consumers, NoOne,   \* lock owners, and the NULL of locked_by
    LeaseDuration, LockTTL, FreshnessTTL, RecoveryHorizon, VerifyInterval,
    MinRepeat, InconclusiveRetry, DeadAfter,
    RetryAfters,        \* the Retry-After hints a target may send
    Cooldowns,          \* destination cooldown delays
    RecoveryDelays,     \* [0 .. StepBound - 1 -> Nat]: RecoveryDelay(step)
    StepBound,          \* recoveryStepBound
    FailThreshold,
    MaxLockWait,        \* how long an UPDATE may wait for the row lock
    MaxTime, MaxClaims  \* bounds on the clock and on scan claims

(* config.validateProxySettings, and normalizeScanPolicy's positive values.*)
ASSUME PolicyAssumption ==
    /\ {LeaseDuration, LockTTL, FreshnessTTL, RecoveryHorizon, VerifyInterval,
        MinRepeat, InconclusiveRetry, FailThreshold, StepBound} \subseteq Nat \ {0}
    /\ DeadAfter \in Nat
    /\ MinRepeat <= InconclusiveRetry
    /\ RetryAfters \subseteq Nat
    /\ Cooldowns \subseteq Nat
    /\ RecoveryDelays \in [0 .. StepBound - 1 -> Nat]
ASSUME OwnerAssumption == NoOne \notin Consumers
ASSUME BoundsAssumption ==
    MaxLockWait \in Nat /\ MaxTime \in Nat /\ MaxClaims \in Nat

VARIABLES
    \* general evidence and scheduling columns
    healthy, status, failCount, step, version, verifiedAt, completedAt,
    nextAt, notBefore,
    \* scan lease columns
    token, leaseUntil, claimedVersion,
    \* consumer columns
    lockedBy, lockedAt, cooldown,
    \* database clock and last token drawn by newScanToken
    now, lastToken,
    \* ScanLease values in dispatchers, ProxyRecord values in consumers
    leases, held,
    \* history: when the last conclusive evidence was stored, and when the
    \* attempt it came from had captured its record
    evidence

evidenceVars == <<healthy, status, failCount, step, version, verifiedAt>>
scheduleVars == <<completedAt, nextAt, notBefore>>
leaseVars == <<token, leaseUntil, claimedVersion>>
lockVars == <<lockedBy, lockedAt>>
vars == <<evidenceVars, scheduleVars, leaseVars, lockVars, cooldown,
          now, lastToken, leases, held, evidence>>

Init ==
    /\ healthy = FALSE /\ status = "inactive"
    /\ failCount = 0 /\ step = 0 /\ version = 0
    /\ verifiedAt = 0 /\ completedAt = 0 /\ nextAt = 0 /\ notBefore = 0
    /\ token = 0 /\ leaseUntil = 0 /\ claimedVersion = 0
    /\ lockedBy = NoOne /\ lockedAt = 0 /\ cooldown = 0
    /\ now = 1 /\ lastToken = 0
    /\ leases = {} /\ held = {}
    /\ evidence = [at |-> 0, basis |-> 0]

LargerOf(x, y) == IF x >= y THEN x ELSE y

(* freshPredicate at statement time t.                                     *)
FreshAt(t) == healthy /\ verifiedAt > t - FreshnessTTL

-----------------------------------------------------------------------------
(* Scan leases *)

claimLeaseWhere == leaseUntil <= now /\ notBefore <= now

claimQueueWhere(queue) ==
    CASE queue = "verification" -> healthy /\ nextAt <= now
      [] queue = "recovery" -> /\ ~healthy
                               /\ verifiedAt # 0 /\ verifiedAt > now - RecoveryHorizon
                               /\ nextAt <= now
      [] queue = "background" -> ~healthy

(* A dispatcher leases the row for one attempt, under a token no other     *)
(* claim ever uses.                                                        *)
ClaimScans(queue) ==
    /\ lastToken < MaxClaims
    /\ claimLeaseWhere /\ claimQueueWhere(queue)
    /\ lastToken' = lastToken + 1
    /\ token' = lastToken'
    /\ leaseUntil' = now + LeaseDuration
    /\ claimedVersion' = version
    /\ leases' = leases \cup
          {[token |-> lastToken', version |-> version, step |-> step, at |-> now]}
    /\ UNCHANGED <<evidenceVars, scheduleVars, lockVars, cooldown, now, held, evidence>>

fencedWhere(l) ==
    /\ token = l.token /\ claimedVersion = l.version
    /\ version = l.version /\ leaseUntil > now

ClearLease == token' = 0 /\ leaseUntil' = 0 /\ claimedVersion' = 0

(* The attempt is over: its lease leaves the dispatcher.                   *)
EndAttempt(l) ==
    /\ leases' = leases \ {l}
    /\ UNCHANGED <<lockVars, cooldown, now, lastToken, held>>

Observed(rec) == evidence' = [at |-> now, basis |-> rec.at]

CompleteSuccess(l) ==
    /\ fencedWhere(l)
    /\ healthy' = TRUE /\ status' = "active"
    /\ failCount' = 0 /\ step' = 0 /\ version' = version + 1
    /\ verifiedAt' = now /\ completedAt' = now
    /\ nextAt' = now + VerifyInterval /\ notBefore' = now + MinRepeat
    /\ ClearLease
    /\ Observed(l)
    /\ EndAttempt(l)

(* failureStatus; last_alive_at falls back to first_seen_at.               *)
failureStatus ==
    IF \/ failCount + 1 >= FailThreshold
       \/ now - LargerOf(verifiedAt, 1) > DeadAfter
      THEN "dead" ELSE "inactive"

(* MakeConsumerFailureUpdate: the step of the record the attempt captured, *)
(* advanced and clamped.                                                   *)
NextStep(s) == IF s + 1 > StepBound THEN StepBound ELSE s + 1

(* The failure transition shared by CompleteScan and RecordConsumerFailure.*)
PersistFailure(rec) ==
    /\ healthy' = FALSE /\ status' = failureStatus
    /\ failCount' = failCount + 1 /\ step' = NextStep(rec.step)
    /\ version' = version + 1 /\ completedAt' = now
    /\ nextAt' = now + RecoveryDelays[NextStep(rec.step) - 1]
    /\ notBefore' = now + MinRepeat
    /\ ClearLease
    /\ Observed(rec)
    /\ UNCHANGED verifiedAt

CompleteFailure(l) ==
    /\ fencedWhere(l)
    /\ PersistFailure(l)
    /\ EndAttempt(l)

(* MakeScanUpdate's inconclusive branch: a longer Retry-After wins.        *)
InconclusiveDelay(retryAfter) == LargerOf(InconclusiveRetry, retryAfter)

CompleteInconclusive(l, retryAfter) ==
    /\ fencedWhere(l)
    /\ completedAt' = now
    /\ nextAt' = now + InconclusiveDelay(retryAfter)
    /\ notBefore' = now + InconclusiveDelay(retryAfter)
    /\ ClearLease
    /\ EndAttempt(l)
    /\ UNCHANGED <<evidenceVars, evidence>>

(* A superseded, replayed or expired lease: nothing is written.            *)
CompleteDiscarded(l) ==
    /\ ~fencedWhere(l)
    /\ EndAttempt(l)
    /\ UNCHANGED <<evidenceVars, scheduleVars, leaseVars, evidence>>

releaseWhere(l) == token = l.token /\ claimedVersion = l.version

ReleaseScan(l) ==
    /\ IF releaseWhere(l) THEN ClearLease ELSE UNCHANGED leaseVars
    /\ EndAttempt(l)
    /\ UNCHANGED <<evidenceVars, scheduleVars, evidence>>

(* The dispatcher dies, or its write fails: only lease expiry is left.     *)
AbandonScan(l) ==
    /\ EndAttempt(l)
    /\ UNCHANGED <<evidenceVars, scheduleVars, leaseVars, evidence>>

-----------------------------------------------------------------------------
(* Consumer locks *)

(* Mutant: a lock can be claimed at the very instant it expires.           *)
Unlocked_OffByOne == lockedAt = 0 \/ lockedAt <= now - LockTTL

Unlocked == lockedAt = 0 \/ lockedAt < now - LockTTL

ClaimProxy(c) ==
    /\ \A h \in held : h.owner # c
    /\ FreshAt(now) /\ Unlocked /\ cooldown <= now
    /\ lockedBy' = c /\ lockedAt' = now
    /\ held' = held \cup {[owner |-> c, version |-> version, step |-> step,
                           at |-> now, since |-> now]}
    /\ UNCHANGED <<evidenceVars, scheduleVars, leaseVars, cooldown, now, lastToken,
                   leases, evidence>>

(* The statement times of an UPDATE by h that may have waited for the row. *)
StatementTimes(h) == {t \in h.since .. now : now - t <= MaxLockWait}

(* RefreshConsumerLock, started at time t.  When it finds no row to update *)
(* the caller keeps its record.                                            *)
RefreshConsumerLock(h, t) ==
    /\ lockedBy = h.owner /\ lockedAt > t - LockTTL
    /\ FreshAt(t) /\ cooldown <= t
    /\ lockedAt' = t
    /\ held' = (held \ {h}) \cup {[owner |-> h.owner, version |-> version,
                                   step |-> step, at |-> now, since |-> t]}
    /\ UNCHANGED <<evidenceVars, scheduleVars, leaseVars, lockedBy, cooldown, now,
                   lastToken, leases, evidence>>

LockValid(h) == lockedBy = h.owner /\ lockedAt > now - LockTTL

(* Mutant: a consumer failure is not fenced on the captured version.       *)
ConsumerFence_LockOnly(h) == LockValid(h)

ConsumerFence(h) == LockValid(h) /\ version = h.version

RecordConsumerFailure(h) ==
    /\ ConsumerFence(h)
    /\ PersistFailure(h)
    /\ UNCHANGED <<lockVars, cooldown, now, lastToken, leases, held>>

ClearLock == lockedBy' = NoOne /\ lockedAt' = 0

(* A stale failure: only the caller's own valid lock is released; the      *)
(* caller then replaces the proxy.                                         *)
RecordConsumerFailureStale(h) ==
    /\ ~ConsumerFence(h)
    /\ IF LockValid(h) THEN ClearLock ELSE UNCHANGED lockVars
    /\ held' = held \ {h}
    /\ UNCHANGED <<evidenceVars, scheduleVars, leaseVars, cooldown, now, lastToken,
                   leases, evidence>>

(* Mutant: the release does not name the owner.                            *)
Owns_Anyone(h) == lockedBy # NoOne

Owns(h) == lockedBy = h.owner

RaiseCooldown(until) == LargerOf(cooldown, until)

CooldownDestination(h, t, delay) ==
    /\ IF Owns(h)
         THEN cooldown' = RaiseCooldown(t + delay) /\ ClearLock
         ELSE UNCHANGED <<cooldown, lockVars>>
    /\ held' = held \ {h}
    /\ UNCHANGED <<evidenceVars, scheduleVars, leaseVars, now, lastToken, leases, evidence>>

ReleaseProxy(h) ==
    /\ IF Owns(h) THEN ClearLock ELSE UNCHANGED lockVars
    /\ held' = held \ {h}
    /\ UNCHANGED <<evidenceVars, scheduleVars, leaseVars, cooldown, now, lastToken,
                   leases, evidence>>

(* The consumer dies: only the lock's TTL is left.                         *)
AbandonProxy(h) ==
    /\ held' = held \ {h}
    /\ UNCHANGED <<evidenceVars, scheduleVars, leaseVars, lockVars, cooldown, now,
                   lastToken, leases, evidence>>

-----------------------------------------------------------------------------
Tick ==
    /\ now < MaxTime
    /\ now' = now + 1
    /\ UNCHANGED <<evidenceVars, scheduleVars, leaseVars, lockVars, cooldown, lastToken,
                   leases, held, evidence>>

ScanStep(l) ==
    \/ CompleteSuccess(l)
    \/ CompleteFailure(l)
    \/ \E retryAfter \in RetryAfters : CompleteInconclusive(l, retryAfter)
    \/ CompleteDiscarded(l)
    \/ ReleaseScan(l)
    \/ AbandonScan(l)

ConsumerStep(h) ==
    \/ \E t \in StatementTimes(h) : RefreshConsumerLock(h, t)
    \/ RecordConsumerFailure(h)
    \/ RecordConsumerFailureStale(h)
    \/ \E t \in StatementTimes(h), delay \in Cooldowns : CooldownDestination(h, t, delay)
    \/ ReleaseProxy(h)
    \/ AbandonProxy(h)

Next ==
    \/ Tick
    \/ \E queue \in {"verification", "recovery", "background"} : ClaimScans(queue)
    \/ \E l \in leases : ScanStep(l)
    \/ \E c \in Consumers : ClaimProxy(c)
    \/ \E h \in held : ConsumerStep(h)

Spec == Init /\ [][Next]_vars

-----------------------------------------------------------------------------
(* Properties *)

Lease == [token : Nat, version : Nat, step : 0 .. StepBound, at : Nat]
Holding == [owner : Consumers, version : Nat, step : 0 .. StepBound,
            at : Nat, since : Nat]

TypeOK ==
    /\ healthy \in BOOLEAN /\ status \in {"active", "inactive", "dead"}
    /\ failCount \in Nat /\ step \in 0 .. StepBound /\ version \in Nat
    /\ verifiedAt \in Nat /\ completedAt \in Nat /\ nextAt \in Nat /\ notBefore \in Nat
    /\ token \in Nat /\ leaseUntil \in Nat /\ claimedVersion \in Nat
    /\ lockedBy \in Consumers \cup {NoOne} /\ lockedAt \in Nat /\ cooldown \in Nat
    /\ now \in Nat \ {0} /\ lastToken \in Nat
    /\ leases \subseteq Lease /\ held \subseteq Holding
    /\ evidence \in [at : Nat, basis : Nat]

(* Evidence is never overwritten by an older observation: the attempt an   *)
(* accepted success or failure comes from captured its record no earlier   *)
(* than the evidence it replaces was stored (the fences of CompleteScan    *)
(* and RecordConsumerFailure).                                             *)
NoStaleEvidence ==
    [][evidence' # evidence => evidence'.basis >= evidence.at]_vars

(* Although a failure computes its recovery step from the record captured  *)
(* before the network attempt, every accepted failure moves the stored     *)
(* step by exactly one, up to the bound: none is counted twice or lost.    *)
StepFence ==
    [][failCount' > failCount => step' = NextStep(step)]_vars

(* An unexpired lease ends only with its own attempt or by newer evidence: *)
(* no other dispatcher can clear or replace it (ReleaseScan, ClaimScans).  *)
LeaseFence ==
    [][token # 0 /\ leaseUntil > now /\ token' # token /\ version' = version
         => \E l \in leases \ leases' : l.token = token]_vars

(* A consumer has the row to itself for the lock TTL: as long as its last  *)
(* claim or refresh is not older, the lock is still its own, whatever      *)
(* other consumers claim, refresh, cool down, fail or release.             *)
LockHeld ==
    \A h \in held : now <= h.since + LockTTL => lockedBy = h.owner /\ lockedAt = h.since

(* A row is not leased again before the minimum repeat interval after its  *)
(* last completed attempt, from whichever writer and queue.                *)
RepeatFloor ==
    [][token' # token /\ token' # 0 =>
         completedAt = 0 \/ now >= completedAt + MinRepeat]_vars

(* No destination cooldown is in force while a consumer has the row: it    *)
(* claimed or refreshed only after every recorded cooldown had ended, and  *)
(* a consumer that lost its lock cannot cool the row down under its        *)
(* successor (ClaimProxy, RefreshConsumerLock, CooldownDestination).       *)
CooldownFence ==
    \A h \in held : now <= h.since + LockTTL => cooldown <= h.since

(* The historical status column and the failure history agree with the     *)
(* general evidence that decides availability.                             *)
Classification ==
    /\ healthy <=> status = "active"
    /\ healthy => verifiedAt # 0
    /\ step = 0 <=> failCount = 0
    /\ failCount >= FailThreshold => status = "dead"
=============================================================================
