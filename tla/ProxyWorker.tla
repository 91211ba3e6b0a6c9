---------------------------- MODULE ProxyWorker ----------------------------
(***************************************************************************)
(* The census consumers in proxy mode (RunEventsWithProxy).  Every worker  *)
(* goroutine claims a row of the proxy pool through the hub, checks the    *)
(* destination through it, and keeps it over many deliveries.  Before each *)
(* delivery it revalidates its lock; a lost row, or a row that proves dead *)
(* under a job, is given up and replaced while the delivery stays unacked. *)
(*                                                                         *)
(* A row keeps what the consumers' statements read: whether its evidence   *)
(* is fresh, whether the destination cools down, the lock's owner and      *)
(* whether the lock is younger than its TTL.  A worker's `seen' says that  *)
(* the row's observation version is still the one the worker captured.     *)
(***************************************************************************)
EXTENDS Lodestone

CONSTANTS Workers, Proxies, NoOne,
          MaxFaults          \* adverse events: store errors, failures, rejections

ASSUME PoolAssumption == NoOne \notin Workers \cup Proxies /\ MaxFaults \in Nat

VARIABLES
    rows,       \* Proxies -> [fresh, cooled, owner, live]
    wk,         \* Workers -> the goroutine's control state and locals
    notify,     \* the hub's one-slot wake-up channel is full
    cancelled,  \* the process received its stop signal (claimCtx)
    faults,     \* adverse events so far
    kept        \* history: locks that a failed store call left to their TTL

vars == <<rows, wk, notify, cancelled, faults, kept>>

(* Why a worker is acquiring: its loop starts, its row was lost, or its    *)
(* row failed under a job that will be retried.                            *)
Reasons == {"start", "lost", "retry"}
Acquiring == {"acquire", "check", "backoff"}
Running == {"run", "rerun"}
Working == {"use", "wait", "rewait"} \cup Running
Phases == Acquiring \cup Working \cup {"idle", "done"}

Init ==
    /\ rows = [p \in Proxies |-> [fresh |-> TRUE, cooled |-> FALSE, owner |-> NoOne,
                                  live |-> FALSE]]
    /\ wk = [w \in Workers |-> [pc |-> "acquire", why |-> "start", proxy |-> NoOne,
                                claim |-> NoOne, seen |-> FALSE, paused |-> FALSE]]
    /\ notify = FALSE
    /\ cancelled = FALSE
    /\ faults = 0
    /\ kept = {}

-----------------------------------------------------------------------------
(* The store's consumer statements, on one row. *)

Usable(r) == r.fresh /\ ~r.cooled
Owned(r, w) == r.owner = w
LockValid(r, w) == Owned(r, w) /\ r.live

Freed(r) == [r EXCEPT !.owner = NoOne, !.live = FALSE]

ClaimProxy(r, w) == [r EXCEPT !.owner = w, !.live = TRUE]

Refreshable(r, w) == LockValid(r, w) /\ Usable(r)

(* Mutant: the release does not name its owner.                            *)
ReleaseProxy_Anyone(r, w) == Freed(r)

ReleaseProxy(r, w) == IF Owned(r, w) THEN Freed(r) ELSE r

CooldownDestination(r, w) ==
    IF Owned(r, w) THEN [Freed(r) EXCEPT !.cooled = TRUE] ELSE r

Fenced(r, w, seen) == LockValid(r, w) /\ seen

RecordConsumerFailure(r, w, seen) ==
    CASE Fenced(r, w, seen) -> [r EXCEPT !.fresh = FALSE]
      [] LockValid(r, w) /\ ~seen -> Freed(r)
      [] OTHER -> r

-----------------------------------------------------------------------------
Fault == faults < MaxFaults /\ faults' = faults + 1
NoFault == UNCHANGED faults

(* A step in which something outside the worker goes wrong, or not.        *)
Adverse(bad) == IF bad THEN Fault ELSE NoFault

(* The row a worker's captured version belongs to.                         *)
Captured(x) == IF wk[x].claim # NoOne THEN wk[x].claim ELSE wk[x].proxy

(* Worker w becomes `me' and row p becomes r; when the row's evidence      *)
(* moved on, the other workers' captured versions are out of date.  The    *)
(* row is left behind when a store call failed that would have freed it.   *)
Step(w, me, p, r, moved, left) ==
    /\ rows' = [rows EXCEPT ![p] = r]
    /\ kept' = IF left /\ LockValid(r, w) THEN kept \cup {<<w, p>>} ELSE kept \ {<<w, p>>}
    /\ wk' = [x \in Workers |->
                IF x = w THEN me
                ELSE [wk[x] EXCEPT !.seen = @ /\ ~(moved /\ Captured(x) = p)]]

Become(w, me) == wk' = [wk EXCEPT ![w] = me] /\ UNCHANGED <<rows, kept>>

(* Mutant: a claim that is given up stays locked.                          *)
Release_Forgotten(w, me, p, r, moved, bad) == Step(w, me, p, r, moved, FALSE)

(* Worker w gives row p up and becomes `me'; a release that fails is       *)
(* logged and no more.                                                     *)
Release(w, me, p, r, moved, bad) ==
    \/ Step(w, me, p, ReleaseProxy(r, w), moved, FALSE)
    \/ bad /\ Step(w, me, p, r, moved, TRUE)

(* waitForProxy runs under the stop signal only before the loop starts:    *)
(* during a delivery its context ends with the consumer.                   *)
CtxDone(w) == cancelled /\ wk[w].why = "start"

BackOff(w) == [wk[w] EXCEPT !.pc = "backoff", !.claim = NoOne, !.seen = FALSE]
Idle(w) == [wk[w] EXCEPT !.pc = "idle", !.why = "start", !.claim = NoOne, !.seen = FALSE]
Done(w) == [pc |-> "done", why |-> "start", proxy |-> NoOne, claim |-> NoOne,
            seen |-> FALSE, paused |-> FALSE]

-----------------------------------------------------------------------------
(* NewProxy: claim a row. *)

Claimable(r) == Usable(r) /\ ~r.live

Claim(w) ==
    /\ wk[w].pc = "acquire"
    /\ \/ /\ ~CtxDone(w) /\ NoFault
          /\ \E p \in Proxies :
                /\ Claimable(rows[p])
                /\ Step(w, [wk[w] EXCEPT !.pc = "check", !.claim = p, !.seen = TRUE],
                        p, ClaimProxy(rows[p], w), FALSE, FALSE)
       \/ /\ CtxDone(w) \/ \A p \in Proxies : ~Claimable(rows[p])
          /\ Become(w, BackOff(w)) /\ NoFault
       \/ Fault /\ Become(w, BackOff(w))
    /\ UNCHANGED <<notify, cancelled>>

(* NewProxy: the destination check ended, and its verdict is applied.  A   *)
(* refresh, a failure report or a cooldown that fails, or a context that   *)
(* ended meanwhile, leaves the claim behind and sends waitForProxy to its  *)
(* timer.                                                                  *)
StoreError(w) ==
    /\ (CtxDone(w) /\ NoFault) \/ Fault
    /\ Step(w, BackOff(w), wk[w].claim, rows[wk[w].claim], FALSE, TRUE)

Acquired(w) ==
    [wk[w] EXCEPT !.pc = CASE wk[w].why = "start" -> "idle"
                           [] wk[w].why = "lost"  -> "wait"
                           [] wk[w].why = "retry" -> "rewait",
                  !.why = "start", !.proxy = wk[w].claim, !.claim = NoOne,
                  !.seen = TRUE, !.paused = FALSE]

(* Mutant: a replacement's refreshed record is taken for a lost one.       *)
CheckOK_NoReplacement(w) ==
    LET p == wk[w].claim IN
    \/ /\ ~CtxDone(w) /\ NoFault
       /\ IF wk[w].why = "start" THEN Become(w, Acquired(w))
          ELSE Step(w, BackOff(w), p, ReleaseProxy(rows[p], w), FALSE, FALSE)
    \/ StoreError(w)

CheckOK(w) ==
    LET p == wk[w].claim IN
    \/ ~CtxDone(w) /\ NoFault /\ Refreshable(rows[p], w) /\ Become(w, Acquired(w))
    \/ /\ ~CtxDone(w) /\ ~Refreshable(rows[p], w)
       /\ \E bad \in BOOLEAN :
             Adverse(bad) /\ Release(w, BackOff(w), p, rows[p], FALSE, bad)
    \/ StoreError(w)

CheckFailed(w, kind) ==
    LET p == wk[w].claim
        marked == IF kind = "proxy" THEN RecordConsumerFailure(rows[p], w, wk[w].seen)
                  ELSE rows[p]
    IN IF kind = "target"
         THEN Step(w, BackOff(w), p, CooldownDestination(rows[p], w), FALSE, FALSE)
         ELSE Release(w, BackOff(w), p, marked,
                      kind = "proxy" /\ Fenced(rows[p], w, wk[w].seen), kind # "cancelled")

(* The client for the new row cannot be built: the row is given up and     *)
(* the loop, or the delivery that needed the row, ends with an error.      *)
BuildFails(w) ==
    LET p == wk[w].claim IN
    /\ Refreshable(rows[p], w) /\ ~CtxDone(w)
    /\ Release(w, IF wk[w].why = "start" THEN Done(w) ELSE Idle(w), p, rows[p], FALSE, TRUE)

(* The verdicts on a failed check that its caller did not cancel.          *)
Verdicts ==
    {kind \in CheckKinds \ {"cancelled"} :
        \E scheme \in Schemes, step \in Steps, why \in Causes \ {"cancelled"} :
            kind \in Check(scheme, step, why)}

Verify(w) ==
    /\ wk[w].pc = "check"
    /\ \/ CheckOK(w)
       \/ /\ ~CtxDone(w) /\ Fault
          /\ \E kind \in Verdicts : CheckFailed(w, kind)
       \/ CtxDone(w) /\ NoFault /\ CheckFailed(w, "cancelled")
       \/ Fault /\ BuildFails(w)
    /\ UNCHANGED <<notify, cancelled>>

(* waitForProxy: the timer, a notification, or the end of the context.     *)
WakeUp(w) ==
    /\ wk[w].pc = "backoff"
    /\ \/ ~CtxDone(w) /\ UNCHANGED notify /\ Become(w, [wk[w] EXCEPT !.pc = "acquire"])
       \/ notify /\ notify' = FALSE /\ Become(w, [wk[w] EXCEPT !.pc = "acquire"])
       \/ CtxDone(w) /\ UNCHANGED notify /\ Become(w, Done(w))
    /\ UNCHANGED <<cancelled, faults>>

-----------------------------------------------------------------------------
(* processJob *)

(* Mutant: deliveries are taken on after the stop signal.                  *)
Deliver_AfterStop(w) ==
    /\ wk[w].pc = "idle"
    /\ Become(w, [wk[w] EXCEPT !.pc = "use"])
    /\ UNCHANGED <<notify, cancelled, faults>>

Deliver(w) ==
    /\ wk[w].pc = "idle" /\ ~cancelled
    /\ Become(w, [wk[w] EXCEPT !.pc = "use"])
    /\ UNCHANGED <<notify, cancelled, faults>>

(* The hub's channel holds one signal; more are dropped.                   *)
NotifyAvailable == notify' = TRUE

(* replaceProxy up to the acquisition: the previous row is released and    *)
(* one waiting worker is notified, whether or not the release succeeded.   *)
replaceProxy(w, r, bad, moved, why) ==
    /\ Release(w, [wk[w] EXCEPT !.pc = "acquire", !.why = why, !.seen = FALSE], wk[w].proxy,
               r, moved, bad)
    /\ NotifyAvailable

CanUse(w) ==
    /\ wk[w].pc = "use"
    /\ LET r == rows[wk[w].proxy] IN
       \/ Fault /\ Become(w, Idle(w)) /\ UNCHANGED notify
       \/ /\ Refreshable(r, w) /\ NoFault
          /\ Become(w, [wk[w] EXCEPT !.pc = "wait", !.seen = TRUE]) /\ UNCHANGED notify
       \/ /\ ~Refreshable(r, w)
          /\ \E bad \in BOOLEAN : Adverse(bad) /\ replaceProxy(w, r, bad, FALSE, "lost")
    /\ UNCHANGED cancelled

(* The limiter made for the worker's row; a new row gets a new one.        *)
IsAvailable(w) == ~wk[w].paused
Paused(me) == [me EXCEPT !.paused = TRUE]

(* proxyWaitForProviders, then the handler starts.  The lock is not looked *)
(* at again, however long the provider was paused.                         *)
StartHandler(w) ==
    /\ wk[w].pc \in {"wait", "rewait"} /\ IsAvailable(w)
    /\ Become(w, [wk[w] EXCEPT !.pc = IF @ = "wait" THEN "run" ELSE "rerun"])
    /\ UNCHANGED <<notify, cancelled, faults>>

(* The handler and the publishing of its chained jobs went well.           *)
HandlerOK(w) ==
    /\ wk[w].pc \in Running
    /\ Become(w, Idle(w))
    /\ UNCHANGED <<notify, cancelled, faults>>

(* The handler, or publishing a chained job, fails and the error is typed  *)
(* by the request that caused it.                                          *)
JobErrors == {doRequest(rs).error : rs \in Attempts} \ {"none"}

(* The first run fails: a rejecting destination is cooled down, a dead     *)
(* proxy is recorded and replaced for one more run, any other error goes   *)
(* back to the queue.                                                      *)
FirstRunFails(w, error) ==
    LET p == wk[w].proxy
        marked == RecordConsumerFailure(rows[p], w, wk[w].seen)
    IN CASE error = "target" ->
              /\ Step(w, Paused(Idle(w)), p, CooldownDestination(rows[p], w), FALSE, FALSE)
              /\ UNCHANGED notify
         [] error = "proxy" -> replaceProxy(w, marked, TRUE, Fenced(rows[p], w, wk[w].seen),
                                              "retry")
         [] OTHER -> Become(w, Idle(w)) /\ UNCHANGED notify

(* The run on the replacement fails: its row is given up, without waking   *)
(* anybody, and a rejecting destination is not cooled down.                *)
RerunFails(w, error) ==
    LET p == wk[w].proxy
        marked == IF error = "proxy" THEN RecordConsumerFailure(rows[p], w, wk[w].seen)
                  ELSE rows[p]
    IN /\ Release(w, IF error = "target" THEN Paused(Idle(w)) ELSE Idle(w), p, marked,
                  error = "proxy" /\ Fenced(rows[p], w, wk[w].seen), TRUE)
       /\ UNCHANGED notify

(* The store fails while the failure of a run is recorded: nothing is      *)
(* written and the delivery goes back with the worker's row unchanged.     *)
RecordFails(w) == Become(w, Idle(w)) /\ UNCHANGED notify

HandlerFails(w) ==
    /\ wk[w].pc \in Running /\ Fault
    /\ \E error \in JobErrors :
          \/ wk[w].pc = "run" /\ FirstRunFails(w, error)
          \/ wk[w].pc = "rerun" /\ RerunFails(w, error)
          \/ error \in {"proxy", "target"} /\ RecordFails(w)
    /\ UNCHANGED cancelled

(* Consume returns after the stop signal; the deferred release runs and    *)
(* wakes a waiter only when it succeeded.                                  *)
Stop(w) ==
    /\ wk[w].pc = "idle" /\ cancelled
    /\ LET p == wk[w].proxy IN
       \/ /\ Step(w, Done(w), p, ReleaseProxy(rows[p], w), FALSE, FALSE)
          /\ NotifyAvailable /\ NoFault
       \/ Step(w, Done(w), p, rows[p], FALSE, TRUE) /\ UNCHANGED notify /\ Fault
    /\ UNCHANGED cancelled

-----------------------------------------------------------------------------
(* The rest of the system: the scanners, time and the operator. *)

(* A scan proves row p healthy again; its evidence moves on.               *)
ScanSucceeds(p) ==
    /\ ~rows[p].fresh
    /\ rows' = [rows EXCEPT ![p].fresh = TRUE]
    /\ wk' = [x \in Workers |-> [wk[x] EXCEPT !.seen = @ /\ Captured(x) # p]]
    /\ UNCHANGED <<notify, cancelled, faults, kept>>

(* A scan finds row p dead.                                                *)
ScanFails(p) ==
    /\ rows[p].fresh /\ Fault
    /\ rows' = [rows EXCEPT ![p].fresh = FALSE]
    /\ wk' = [x \in Workers |-> [wk[x] EXCEPT !.seen = @ /\ Captured(x) # p]]
    /\ UNCHANGED <<notify, cancelled, kept>>

(* The row's last success grows too old; nothing is written.               *)
FreshnessLapses(p) ==
    /\ rows[p].fresh /\ Fault
    /\ rows' = [rows EXCEPT ![p].fresh = FALSE]
    /\ UNCHANGED <<wk, notify, cancelled, kept>>

(* The row's owner is checking it or works through it.                     *)
Busy(p) == \E w \in Workers : /\ Owned(rows[p], w)
                              /\ \/ wk[w].claim = p
                                 \/ wk[w].pc \in Working /\ wk[w].proxy = p

(* The lock of a row nobody works with runs out: its worker had no         *)
(* delivery for a TTL, or forgot the row.                                  *)
LockExpires(p) ==
    /\ rows[p].live /\ ~Busy(p)
    /\ rows' = [rows EXCEPT ![p].live = FALSE]
    /\ kept' = kept \ (Workers \X {p})
    /\ UNCHANGED <<wk, notify, cancelled, faults>>

(* A check, a provider pause or a job outlasts the TTL of its lock.        *)
LockOutrun(p) ==
    /\ rows[p].live /\ Busy(p) /\ Fault
    /\ rows' = [rows EXCEPT ![p].live = FALSE]
    /\ kept' = kept \ (Workers \X {p})
    /\ UNCHANGED <<wk, notify, cancelled>>

CooldownEnds(p) ==
    /\ rows[p].cooled
    /\ rows' = [rows EXCEPT ![p].cooled = FALSE]
    /\ UNCHANGED <<wk, notify, cancelled, faults, kept>>

PauseEnds(w) ==
    /\ wk[w].paused
    /\ Become(w, [wk[w] EXCEPT !.paused = FALSE])
    /\ UNCHANGED <<notify, cancelled, faults>>

StopSignal ==
    /\ ~cancelled /\ cancelled' = TRUE
    /\ UNCHANGED <<rows, wk, notify, faults, kept>>

Finished ==
    /\ \A w \in Workers : wk[w].pc = "done"
    /\ UNCHANGED vars

WorkerStep(w) ==
    \/ Claim(w) \/ Verify(w) \/ WakeUp(w) \/ CanUse(w) \/ StartHandler(w)
    \/ HandlerOK(w) \/ HandlerFails(w) \/ Stop(w)

Next ==
    \/ \E w \in Workers : WorkerStep(w) \/ Deliver(w) \/ PauseEnds(w)
    \/ \E p \in Proxies : \/ ScanSucceeds(p) \/ ScanFails(p) \/ FreshnessLapses(p)
                         \/ LockExpires(p) \/ LockOutrun(p) \/ CooldownEnds(p)
    \/ StopSignal
    \/ Finished

Spec == Init /\ [][Next]_vars

(* The goroutines are scheduled, and locks, cooldowns and pauses end with  *)
(* time.  Nothing makes a dead row healthy again: a scan may never succeed.*)
FairSpec ==
    /\ Spec
    /\ \A w \in Workers : WF_vars(WorkerStep(w)) /\ WF_vars(PauseEnds(w))
    /\ \A p \in Proxies : WF_vars(LockExpires(p)) /\ WF_vars(CooldownEnds(p))

-----------------------------------------------------------------------------
(* Types, and what the control state says of the locals: a lock time has   *)
(* an owner, a claim exists exactly during its check, and a worker in its  *)
(* loop has a row to try.                                                  *)
TypeOK ==
    /\ rows \in [Proxies -> [fresh : BOOLEAN, cooled : BOOLEAN, owner : Workers \cup {NoOne},
                             live : BOOLEAN]]
    /\ wk \in [Workers -> [pc : Phases, why : Reasons, proxy : Proxies \cup {NoOne},
                           claim : Proxies \cup {NoOne}, seen : BOOLEAN, paused : BOOLEAN]]
    /\ notify \in BOOLEAN /\ cancelled \in BOOLEAN /\ faults \in 0 .. MaxFaults
    /\ kept \subseteq Workers \X Proxies
    /\ \A p \in Proxies : rows[p].live => rows[p].owner # NoOne
    /\ \A w \in Workers : /\ wk[w].claim # NoOne <=> wk[w].pc = "check"
                          /\ wk[w].pc \in Working \cup {"idle"} => wk[w].proxy # NoOne

Using(w, p) == wk[w].pc \in Running /\ wk[w].proxy = p

(* While a handler runs through a proxy, the row leaves its worker only    *)
(* after the lock ran out: no other worker's claim, release, cooldown or   *)
(* failure report takes a live row from under a running job.               *)
Exclusive ==
    [][\A w \in Workers, p \in Proxies :
          Using(w, p) /\ Using(w, p)' /\ LockValid(rows[p], w) =>
             Owned(rows[p], w)']_vars

(* A valid lock on a row its owner neither uses nor is checking.           *)
Orphan(w, p) ==
    /\ LockValid(rows[p], w)
    /\ p # (IF wk[w].pc \in Acquiring THEN wk[w].claim ELSE wk[w].proxy)

(* No row is left locked by a worker that forgot it: every replacement,    *)
(* failed check, failed build, failed retry and stop gives its row back.   *)
(* Two things alone leave a lock to its TTL, and the model records both:   *)
(* the release, refresh, cooldown or failure report of that row failed in  *)
(* the store, or the stop signal ended the first acquisition at its        *)
(* refresh (NewProxy, replaceProxy, proxyWorkerLoop's deferred release).   *)
NoOrphans == \A w \in Workers, p \in Proxies : Orphan(w, p) => <<w, p>> \in kept

(* Worker w has a delivery in hand.                                        *)
Delivering(w) ==
    wk[w].pc \in Working \/ (wk[w].pc \in Acquiring /\ wk[w].why # "start")

(* Every delivery a worker took is answered, however often its row is      *)
(* lost, checked, failed or replaced on the way (waitForProxy's retries),  *)
(* unless some row of the pool is dead and no scan ever revives it.        *)
DeliveryEnds ==
    (\A p \in Proxies : []<>rows[p].fresh) => \A w \in Workers : []<>~Delivering(w)

(* After the stop signal every worker loop returns, or the whole pool is   *)
(* dead and stays so.  A delivery waits for a replacement under the        *)
(* processing context, which ends only after the delivery: one healthy row *)
(* is enough to end a shutdown, and on an empty pool it never ends         *)
(* (waitForProxy under processCtx).  The signal stays set, so the first    *)
(* part is the signal leading to the end of every loop.                    *)
ShutdownEnds ==
    \/ <>[](cancelled => \A w \in Workers : wk[w].pc = "done")
    \/ <>[](\A p \in Proxies : ~rows[p].fresh)
=============================================================================
