--------------------------- MODULE ScanDispatcher ---------------------------
(***************************************************************************)
(* One proxy scan process: the dispatcher goroutine, its executors and its *)
(* shutdown (domain/proxy/worker/scan.go), the endpoint guard that runs    *)
(* beside it (infrastructure/proxy/guard.go), the attribution of a check   *)
(* (domain/proxy/scheduling.go) and the wiring of the three                *)
(* (cmd/cli/proxy.go).  The dispatcher's store calls, the executors'       *)
(* checks and the guard's controls interleave freely; between two store    *)
(* calls of one admission pass anything else may happen.                   *)
(*                                                                         *)
(* The proxies table is reduced to what the dispatcher can tell apart (the *)
(* columns are in ProxyStore): whether a row is healthy, and which lease   *)
(* it is under.  A claim may or may not find a row due.  Tokens are        *)
(* distinct within a row, which is all a fence compares; 0 is no lease.    *)
(***************************************************************************)
EXTENDS Admission, FiniteSets, FiniteSetsExt

CONSTANTS
    Rows,
    Concurrencies,  \* the --concurrency values a process may be started with
    MaxConcurrency, \* bound on them
    Weights,        \* [proxy.scan] weights of the three queues
    MaxFaults       \* bound on outages, store errors and premature expiries

ASSUME RowsAssumption == IsFiniteSet(Rows)
ASSUME ConcurrencyAssumption ==
    MaxConcurrency \in Nat /\ Concurrencies \subseteq 1 .. MaxConcurrency
ASSUME WeightsAssumption == Weights \in [Queues -> Nat \ {0}] /\ Total(Weights) = 100
ASSUME FaultsAssumption == MaxFaults \in Nat

VARIABLES
    cancelled,      \* the command's context has ended
    guard,          \* EndpointGuard.state
    \* dispatcher
    concurrency, targets, pc, cursor, empty, free, inFlight, credits, borrower,
    owned,          \* the token under each row ID, 0 where absent
    paused,         \* claimPause.active
    attempts,       \* jobs channel, executors and results channel
    pending,        \* the update finish is writing; at most one
    \* store
    healthy, lease,
    \* history: the rows whose lease a failed store call has left behind, and
    \* whether finish decided for a failure although the guard had seen an
    \* outage since the attempt began
    lost, outageBlamed,
    faults

passVars == <<cursor, empty, credits, borrower>>
capVars == <<free, inFlight, owned, pending>>
storeVars == <<healthy, lease, lost>>
sizeVars == <<concurrency, targets>>
vars == <<cancelled, guard, sizeVars, pc, passVars, capVars, paused,
          attempts, storeVars, outageBlamed, faults>>

small == concurrency < scanQueueCount

(* How a check ends: no error, a typed CheckProxy or CheckDeadline error,  *)
(* any other error, or a panic or a cancelled context.                     *)
Kinds == {"ok", "proxy", "other", "released"}
Snapshots == [Healthy : BOOLEAN, Generation : 0 .. MaxFaults]
NoSnapshot == [Healthy |-> FALSE, Generation |-> 0]
Tokens == 1 .. MaxConcurrency + 1

Init ==
    /\ cancelled = FALSE
    /\ guard = NoSnapshot
    /\ concurrency \in Concurrencies
    /\ targets = reservationTargets(concurrency, Weights)
    /\ pc = "idle" /\ cursor = 0 /\ empty = {}
    /\ free = concurrency
    /\ inFlight = [q \in Queues |-> 0] /\ credits = [q \in Queues |-> 0]
    /\ borrower = 0
    /\ owned = [r \in Rows |-> 0]
    /\ paused = FALSE
    /\ attempts = {} /\ pending = {}
    /\ healthy \in [Rows -> BOOLEAN]
    /\ lease = [r \in Rows |-> 0]
    /\ lost = {} /\ outageBlamed = FALSE
    /\ faults = 0

(* RunScan has not returned.                                               *)
Running == pc \notin {"stopped", "returned"}

Fault == faults < MaxFaults /\ faults' = faults + 1

-----------------------------------------------------------------------------
(* The endpoint guard *)

(* The attempt a, further on.                                              *)
Attempt(a, phase, start, finish, kind, outage) ==
    [row |-> a.row, token |-> a.token, queue |-> a.queue, overlap |-> a.overlap,
     phase |-> phase, start |-> start, finish |-> finish, kind |-> kind,
     outage |-> outage]

(* The attempts under way that may still be attributed, marked (history).  *)
Marked(a) ==
    Attempt(a, a.phase, a.start, a.finish, a.kind,
            a.outage \/ a.phase = "running" \/ a.kind = "proxy")

SeenOutage == {Marked(a) : a \in attempts}

(* A control request fails while the guard is healthy.                     *)
GuardFails ==
    /\ Running /\ guard.Healthy
    /\ Fault
    /\ guard' = [Healthy |-> FALSE, Generation |-> guard.Generation + 1]
    /\ attempts' = SeenOutage
    /\ UNCHANGED <<cancelled, sizeVars, pc, passVars, capVars,
                   paused, storeVars, outageBlamed>>

GuardRecovers ==
    /\ Running /\ ~guard.Healthy
    /\ guard' = [guard EXCEPT !.Healthy = TRUE]
    /\ UNCHANGED <<cancelled, sizeVars, pc, passVars, capVars,
                   paused, attempts, storeVars, outageBlamed, faults>>

-----------------------------------------------------------------------------
(* Attribution *)

ClassifyCheck(kind, start, finish) ==
    LET stable == /\ start.Healthy /\ finish.Healthy
                  /\ start.Generation = finish.Generation
    IN  CASE kind = "ok" -> "success"
          [] kind = "proxy" /\ stable -> "failure"
          [] OTHER -> "inconclusive"

(* Mutant: finish trusts the snapshot taken when the check ended.          *)
effectiveFinish_NoRecheck(a) == a.finish

(* finish re-reads the guard before it persists.                           *)
effectiveFinish(a) ==
    IF guard.Generation # a.start.Generation THEN guard ELSE a.finish

(* general_healthy after MakeScanUpdate's update is applied.               *)
HealthyAfter(outcome, was) ==
    CASE outcome = "success" -> TRUE
      [] outcome = "failure" -> FALSE
      [] OTHER -> was

-----------------------------------------------------------------------------
(* Store calls *)

Outstanding(r) == {a \in attempts : a.row = r}

(* newScanToken never repeats itself; Tokens is large enough for that.     *)
FreshTokens(r) == Tokens \ {a.token : a \in Outstanding(r)}
NewToken(r) == CHOOSE t \in FreshTokens(r) : TRUE

(* A healthy row belongs to verification, any other to background, and to  *)
(* recovery while it is within the recovery horizon.                       *)
QueuesOf(r) == IF healthy[r] THEN {ScanVerification}
                             ELSE {ScanRecovery, ScanBackground}

(* What ClaimScans(queue, limit) may lease: unleased rows that are due.    *)
Claims(q, limit) ==
    {L \in SUBSET {r \in Rows : /\ q \in QueuesOf(r) /\ lease[r] = 0
                               /\ FreshTokens(r) # {}} :
        Cardinality(L) <= limit}

Leased(L) == lease' = [r \in Rows |-> IF r \in L THEN NewToken(r) ELSE lease[r]]

NewAttempt(r, q) ==
    [row |-> r, token |-> NewToken(r), queue |-> q, phase |-> "queued",
     start |-> NoSnapshot, finish |-> NoSnapshot, kind |-> "other",
     outage |-> FALSE, overlap |-> Outstanding(r) # {}]

(* claimDue when the claim returns: every leased row takes a slot and is   *)
(* handed to the executors.                                                *)
ClaimReturns(q, limit) ==
    \E L \in Claims(q, limit) :
        /\ Leased(L)
        /\ attempts' = attempts \cup {NewAttempt(r, q) : r \in L}
        /\ owned' = [r \in Rows |-> IF r \in L THEN NewToken(r) ELSE owned[r]]
        /\ free' = free - Cardinality(L)
        /\ inFlight' = [inFlight EXCEPT ![q] = @ + Cardinality(L)]
        /\ empty' = IF L = {} THEN empty \cup {q} ELSE empty
        /\ paused' = FALSE
        /\ UNCHANGED <<faults, healthy, lost, pending>>

(* claimDue when the claim errors.  The statement may have committed all   *)
(* the same: those leases are lost until they expire.                      *)
ClaimErrors(q, limit) ==
    /\ IF cancelled
         THEN UNCHANGED <<faults, paused>>
         ELSE Fault /\ paused' = TRUE
    /\ \E L \in Claims(q, limit) : Leased(L) /\ lost' = lost \cup L
    /\ UNCHANGED <<attempts, capVars, healthy>>

Free(r) == lease' = [lease EXCEPT ![r] = 0] /\ lost' = lost \ {r}

(* A call that fails leaves the lease to expire, if it is still there.     *)
Left(r, token) ==
    /\ lost' = IF lease[r] = token THEN lost \cup {r} ELSE lost
    /\ UNCHANGED <<healthy, lease>>

(* releaseLease: the lease is cleared under its token, or the call fails   *)
(* and expiry is left.                                                     *)
releaseLease(r, token) ==
    \/ /\ IF lease[r] = token THEN Free(r) ELSE UNCHANGED <<lease, lost>>
       /\ UNCHANGED <<faults, healthy>>
    \/ Fault /\ Left(r, token)

(* finish, up to the write: the outcome is decided by the latest local     *)
(* observation of the guard.                                               *)
finish(a) ==
    LET outcome == ClassifyCheck(a.kind, a.start, effectiveFinish(a))
    IN  /\ pending' = {[row |-> a.row, token |-> a.token, outcome |-> outcome]}
        /\ outageBlamed' = (outageBlamed \/ (outcome = "failure" /\ a.outage))
        /\ UNCHANGED <<storeVars, paused, faults>>

(* Mutant: a slot is returned only when the outcome is persisted.          *)
handle_KeepsSlot(a) ==
    /\ owned' = [owned EXCEPT ![a.row] = 0]
    /\ attempts' = attempts \ {a}
    /\ IF a.kind = "released"
         THEN /\ releaseLease(a.row, a.token)
              /\ UNCHANGED <<free, inFlight, pending, paused, outageBlamed>>
         ELSE /\ finish(a)
              /\ free' = free + 1
              /\ inFlight' = [inFlight EXCEPT ![a.queue] = @ - 1]

(* handle: the slot is freed, then the lease is released or completed.     *)
handle(a) ==
    /\ free' = free + 1
    /\ inFlight' = [inFlight EXCEPT ![a.queue] = @ - 1]
    /\ owned' = [owned EXCEPT ![a.row] = 0]
    /\ attempts' = attempts \ {a}
    /\ IF a.kind = "released"
         THEN releaseLease(a.row, a.token) /\ UNCHANGED <<pending, paused, outageBlamed>>
         ELSE finish(a)

(* The update applied to a row still under the attempt's lease.            *)
Applied(u) ==
    /\ healthy' = [healthy EXCEPT ![u.row] = HealthyAfter(u.outcome, @)]
    /\ Free(u.row)

(* The rest of finish, up to storeTimeout later: the write is accepted,    *)
(* fenced, or its error leaves the lease to expire whether or not it was   *)
(* applied.                                                                *)
CompleteScan(u) ==
    /\ u \in pending /\ pending' = {}
    /\ \/ /\ IF lease[u.row] = u.token THEN Applied(u) ELSE UNCHANGED storeVars
          /\ paused' = FALSE
          /\ UNCHANGED faults
       \/ /\ Fault /\ paused' = TRUE
          /\ Left(u.row, u.token) \/ (lease[u.row] = u.token /\ Applied(u))
    /\ UNCHANGED <<cancelled, guard, sizeVars, pc, passVars, free, inFlight, owned,
                   attempts, outageBlamed>>

Results == {a \in attempts : a.phase = "result"}

-----------------------------------------------------------------------------
(* Executors *)

StartCheck(a) ==
    /\ a.phase = "queued"
    /\ Running
    /\ attempts' = (attempts \ {a}) \cup
           {Attempt(a, "running", guard, a.finish, a.kind, a.outage)}
    /\ UNCHANGED <<cancelled, guard, sizeVars, pc, passVars, capVars,
                   paused, storeVars, outageBlamed, faults>>

(* The check ends.  The snapshots only matter to a typed failure.          *)
FinishCheck(a, kind) ==
    /\ a.phase = "running"
    /\ Running
    /\ cancelled => kind = "released"
    /\ attempts' = (attempts \ {a}) \cup
           {Attempt(a, "result", IF kind = "proxy" THEN a.start ELSE NoSnapshot,
                    IF kind = "proxy" THEN guard ELSE NoSnapshot,
                    kind, a.outage /\ kind = "proxy")}
    /\ UNCHANGED <<cancelled, guard, sizeVars, pc, passVars, capVars,
                   paused, storeVars, outageBlamed, faults>>

-----------------------------------------------------------------------------
(* The dispatch loop.  "idle" is handlePending and the select: results are *)
(* handled as they come, and a tick or a result starts an admission pass   *)
(* once none is pending.                                                   *)

EndPass == pc' = "idle" /\ cursor' = 0 /\ empty' = {}

HandleResult(a) ==
    /\ pc = "idle" /\ pending = {} /\ a \in Results
    /\ handle(a)
    /\ UNCHANGED <<cancelled, guard, sizeVars, pc, passVars>>

(* admit: free capacity, no pause and a healthy guard start a pass.        *)
Admit ==
    /\ pc = "idle" /\ pending = {} /\ Results = {} /\ ~cancelled
    /\ free > 0 /\ ~paused /\ guard.Healthy
    /\ pc' = "fill"
    /\ UNCHANGED <<cancelled, guard, sizeVars, passVars, capVars,
                   paused, attempts, storeVars, outageBlamed, faults>>

UnderReserved == {q \in Queues : q >= cursor /\ inFlight[q] < targets[q]}

Filling == pc = "fill" /\ free > 0 /\ UnderReserved # {}
Borrowing == pc = "borrow" \/ (pc = "fill" /\ ~Filling)

(* The first queue of the rotation that has not come back empty.           *)
NextBorrower ==
    (borrower + 1 + Min({s \in Queues :
                            (borrower + 1 + s) % scanQueueCount \notin empty}))
        % scanQueueCount

(* The queue the dispatcher is about to claim from; -1 when it is not.     *)
AskedQueue ==
    CASE Filling -> Min(UnderReserved)
      [] Borrowing /\ free > 0 /\ empty # Queues ->
             IF small THEN ChosenSmall(credits, Queues \ empty, Weights)
                      ELSE NextBorrower
      [] OTHER -> -1

(* One claim of fillReservations.  Its first failed claim ends the fill;   *)
(* borrow follows all the same.                                            *)
FillReservations ==
    /\ Filling
    /\ LET q == AskedQueue
           limit == Min({targets[q] - inFlight[q], free})
       IN  \/ /\ ClaimReturns(q, limit)
              /\ cursor' = q + 1 /\ UNCHANGED pc
           \/ /\ ClaimErrors(q, limit)
              /\ pc' = "borrow" /\ cursor' = 0 /\ UNCHANGED empty
    /\ UNCHANGED <<cancelled, guard, sizeVars, credits, borrower,
                   outageBlamed>>

(* One claim of borrow: by credit with one or two slots, else by rotation. *)
Borrow ==
    /\ Borrowing /\ AskedQueue # -1
    /\ credits' = IF small THEN chooseSmall(credits, Queues \ empty, Weights)
                           ELSE credits
    /\ \/ /\ ClaimReturns(AskedQueue, 1)
          /\ borrower' = IF small THEN borrower ELSE AskedQueue
          /\ pc' = "borrow" /\ cursor' = 0
       \/ ClaimErrors(AskedQueue, 1) /\ EndPass /\ UNCHANGED borrower
    /\ UNCHANGED <<cancelled, guard, sizeVars, outageBlamed>>

(* No slot is free, or every queue came back empty.                        *)
BorrowDone ==
    /\ Borrowing /\ AskedQueue = -1
    /\ EndPass
    /\ credits' = IF small /\ free > 0
                    THEN chooseSmall(credits, {}, Weights) ELSE credits
    /\ UNCHANGED <<cancelled, guard, sizeVars, borrower, capVars, paused,
                   attempts, storeVars, outageBlamed, faults>>

-----------------------------------------------------------------------------
(* Shutdown *)

Owned == {r \in Rows : owned[r] # 0}

DrainResult(a) ==
    /\ pc = "drain" /\ pending = {} /\ Owned # {} /\ a \in Results
    /\ handle(a)
    /\ UNCHANGED <<cancelled, guard, sizeVars, pc, passVars>>

(* The loop sees that its context has ended; the admission state and the   *)
(* pause are dead from here on.                                            *)
Shutdown ==
    /\ pc = "idle" /\ pending = {} /\ cancelled
    /\ pc' = "drain"
    /\ credits' = [q \in Queues |-> 0] /\ borrower' = 0 /\ paused' = FALSE
    /\ UNCHANGED <<cancelled, guard, sizeVars, cursor, empty, capVars,
                   attempts, storeVars, outageBlamed, faults>>

(* Mutant: the drain waits for every owned lease without a bound.          *)
DrainEnds_NoBound ==
    /\ pc = "drain" /\ pending = {} /\ Owned = {}
    /\ pc' = "release"
    /\ UNCHANGED <<cancelled, guard, sizeVars, passVars, capVars, paused,
                   attempts, storeVars, outageBlamed, faults>>

(* Nothing is owned any more, or shutdownDrainBound has passed.            *)
DrainEnds ==
    /\ pc = "drain" /\ pending = {}
    /\ pc' = "release"
    /\ UNCHANGED <<cancelled, guard, sizeVars, passVars, capVars, paused,
                   attempts, storeVars, outageBlamed, faults>>

(* releaseOutstanding's turn for one row; its attempt is given up.         *)
ReleaseOwned(r) ==
    /\ pc = "release" /\ r \in Owned
    /\ releaseLease(r, owned[r])
    /\ attempts' = {a \in attempts : a.row # r \/ a.token # owned[r]}
    /\ owned' = [owned EXCEPT ![r] = 0]
    /\ UNCHANGED <<cancelled, guard, sizeVars, pc, passVars, free, inFlight,
                   pending, paused, outageBlamed>>

(* Mutant: releaseOutstanding is not called.                               *)
Stop_KeepsLeases ==
    /\ pc = "release"
    /\ pc' = "stopped"
    /\ UNCHANGED <<cancelled, guard, sizeVars, passVars, capVars, paused,
                   attempts, storeVars, outageBlamed, faults>>

(* drainDone is closed and the bounded wait for the executors ends.        *)
Stop ==
    /\ pc = "release" /\ Owned = {}
    /\ pc' = "stopped"
    /\ UNCHANGED <<cancelled, guard, sizeVars, passVars, capVars, paused,
                   attempts, storeVars, outageBlamed, faults>>

(* runScanWorker returns once Guard.Run has, whose context has ended.      *)
Return ==
    /\ pc = "stopped"
    /\ pc' = "returned"
    /\ UNCHANGED <<cancelled, guard, sizeVars, passVars, capVars, paused,
                   attempts, storeVars, outageBlamed, faults>>

-----------------------------------------------------------------------------
(* Signals and time *)

Cancel ==
    /\ ~cancelled
    /\ cancelled' = TRUE
    /\ UNCHANGED <<guard, sizeVars, pc, passVars, capVars, paused, attempts,
                   storeVars, outageBlamed, faults>>

PauseEnds ==
    /\ paused
    /\ paused' = FALSE
    /\ UNCHANGED <<cancelled, guard, sizeVars, pc, passVars, capVars,
                   attempts, storeVars, outageBlamed, faults>>

(* A lease nobody works on expires; one whose attempt is still outstanding *)
(* or being written may (config demands only that it outlives the check's  *)
(* own timeout).                                                           *)
LeaseExpires(r) ==
    /\ lease[r] # 0
    /\ IF \E a \in attempts \cup pending : a.row = r /\ a.token = lease[r]
         THEN Running /\ Fault ELSE UNCHANGED faults
    /\ Free(r)
    /\ UNCHANGED <<cancelled, guard, sizeVars, pc, passVars, capVars, paused,
                   attempts, healthy, outageBlamed>>

-----------------------------------------------------------------------------
Dispatch ==
    \/ \E a \in attempts : HandleResult(a) \/ DrainResult(a)
    \/ \E u \in pending : CompleteScan(u)
    \/ Admit \/ FillReservations
    \/ Borrow \/ BorrowDone
    \/ Shutdown \/ DrainEnds \/ Stop \/ Return
    \/ \E r \in Rows : ReleaseOwned(r)

Execute ==
    \E a \in attempts : StartCheck(a) \/ \E kind \in Kinds : FinishCheck(a, kind)

Environment ==
    \/ GuardFails \/ Cancel \/ PauseEnds
    \/ \E r \in Rows : LeaseExpires(r)

Next == Dispatch \/ Execute \/ GuardRecovers \/ Environment

Spec == Init /\ [][Next]_vars

(* Fairness: the dispatcher goroutine is scheduled; a check ends by its    *)
(* own timeout, but the shutdown must not depend on that; controls repeat, *)
(* so a guard whose egress works again says so; pauses end with time.      *)
(* Faults are bounded, so the database is not down for ever.               *)
FairSpec ==
    /\ Spec
    /\ WF_vars(Dispatch)
    /\ WF_vars(~cancelled /\ Execute)
    /\ WF_vars(GuardRecovers)
    /\ WF_vars(PauseEnds)

-----------------------------------------------------------------------------
(* Properties *)

Attempts ==
    [row : Rows, token : Tokens, queue : Queues,
     phase : {"queued", "running", "result"}, start : Snapshots,
     finish : Snapshots, kind : Kinds, outage : BOOLEAN, overlap : BOOLEAN]

Updates == [row : Rows, token : Tokens, outcome : {"success", "failure", "inconclusive"}]

(* Every variable of the scan process has its type.                        *)
TypeOK ==
    /\ cancelled \in BOOLEAN
    /\ guard \in Snapshots
    /\ concurrency \in Concurrencies /\ targets \in [Queues -> Nat]
    /\ pc \in {"idle", "fill", "borrow", "drain", "release", "stopped", "returned"}
    /\ cursor \in 0 .. scanQueueCount /\ empty \subseteq Queues
    /\ free \in Int /\ inFlight \in [Queues -> Int]
    /\ credits \in [Queues -> Int] /\ borrower \in Queues
    /\ owned \in [Rows -> Tokens \cup {0}]
    /\ paused \in BOOLEAN
    /\ attempts \subseteq Attempts /\ pending \subseteq Updates
    /\ healthy \in [Rows -> BOOLEAN]
    /\ lease \in [Rows -> Tokens \cup {0}] /\ lost \subseteq Rows
    /\ outageBlamed \in BOOLEAN
    /\ faults \in 0 .. MaxFaults

(* Capacity is neither lost nor invented, whichever way an attempt ends:   *)
(* until the drain gives up, free and the in-flight counters account for   *)
(* every job handed out.  So a claim never exceeds the jobs channel's      *)
(* buffer (claimDue's send cannot block the dispatcher) and no executor    *)
(* ever waits to deliver a result.                                         *)
Capacity ==
    pc \notin {"release", "stopped", "returned"} =>
        /\ free >= 0
        /\ free + Cardinality(attempts) = concurrency
        /\ \A q \in Queues :
               inFlight[q] = Cardinality({a \in attempts : a.queue = q})

(* finish never decides that a proxy failed when this replica saw its own  *)
(* egress fail between the attempt's start snapshot and the recheck before *)
(* the write, whether the guard has recovered since or not: the generation *)
(* fence of ClassifyCheck and effectiveFinish.  An outage seen while the   *)
(* write is under way comes too late and is not covered.                   *)
OutageNeverBlamed == ~outageBlamed

(* What the dispatcher waits for in its drain exists: an owned entry is    *)
(* the lease of an attempt that has not been handled yet.                  *)
OwnedIsOutstanding ==
    \A r \in Owned : \E a \in Outstanding(r) : a.token = owned[r]

(* A lease still in the table when RunScan is done is one that a failed    *)
(* claim, release or completion left to expire, or was taken while an      *)
(* earlier attempt on the same row was outstanding: that earlier result    *)
(* deletes the owned entry of both.  Every other lease was completed or    *)
(* given back by handle, the drain or releaseOutstanding.                  *)
ShutdownReleases ==
    pc \in {"stopped", "returned"} =>
        \A r \in Rows :
            lease[r] # 0 => r \in lost \/ \E a \in Outstanding(r) :
                                             a.token = lease[r] /\ a.overlap

(* The largest-remainder rounding of reservationTargets agrees with what   *)
(* it promises, for every legal weights of the configuration (positive,    *)
(* summing to 100): no slot is lost or handed out twice, and no queue is   *)
(* a slot away from its share.                                             *)
TargetsProportional ==
    \A c \in 3 .. 12 : \A i, j \in 1 .. 98 :
        i + j < 100 =>
            Proportional(c, [q \in Queues |-> IF q = 0 THEN i
                                              ELSE IF q = 1 THEN j
                                              ELSE 100 - i - j])

(* A signal ends the process whatever the checks, the store and the guard  *)
(* are doing.  An ended context stays ended, so this is cancelled leading  *)
(* to the return of the command.                                           *)
ShutdownEnds == <>[](cancelled => pc = "returned")

(* The verification queue is asked for work again and again, or has work   *)
(* in flight again and again, however busy the other queues are, unless    *)
(* the process is stopped.                                                 *)
VerificationServed ==
    []<>(\/ cancelled
         \/ AskedQueue = ScanVerification \/ inFlight[ScanVerification] > 0)
=============================================================================
