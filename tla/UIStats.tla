------------------------------ MODULE UIStats ------------------------------
(***************************************************************************)
(* The statistics snapshot from the refresh command to the pages.          *)
(*                                                                         *)
(* Refreshers are processes running `refresh ui-stats` (the hourly job and *)
(* an operator's manual run): each takes the advisory lock or skips, reads *)
(* the characters and the milestones in one repeatable-read transaction    *)
(* and replaces the single stored row.  One server process keeps a copy of *)
(* the row (UIStatsService) for its requests: it serves the copy for the   *)
(* cache TTL, then one request starts a background reload while the others *)
(* are served the old copy; without a copy one request loads the row and   *)
(* the others wait for it.                                                 *)
(*                                                                         *)
(* Time is kept out of the state: `expired` says whether the TTL has       *)
(* passed since loadedAt, and a request remembers what it saw of it before *)
(* it took the mutex.                                                      *)
(***************************************************************************)
EXTENDS StatsSnapshot

CONSTANTS
    Ids,                \* characters
    Profiles,           \* Profiles[i]: the rows character i may be stored as
    Refreshers,
    Requests,           \* concurrent requests; each is made again and again
    Today,              \* the UTC day of every refresh
    MaxRefreshes,       \* bound on the refreshes begun
    MaxChanges,         \* bound on the census's writes
    MaxFaults           \* bound on database errors, cancellations and crashes

ASSUME StatsBounds ==
    {MaxRefreshes, MaxChanges, MaxFaults} \subseteq Nat /\ "free" \notin Refreshers

\* No snapshot (refreshes count from 1): no row, or one of an older schema
\* version, which every reader rejects.
None == [generatedAt |-> 0]

VARIABLES
    characters,     \* the view of the characters table now
    stored,         \* the row 'current' of ui_stats_snapshots, or None
    lock,           \* holder of the advisory lock, or "free"
    refresher,      \* [Refreshers -> [pc, snapshot, view]]
    refreshes,      \* number of refreshes begun: the clock of GeneratedAt
    snapshot,       \* UIStatsService.snapshot
    expired,        \* now - loadedAt >= cacheTTL
    loading,        \* UIStatsService.loading
    request,        \* [Requests -> [pc, expired, loaded]]
    reload,         \* the background reload: [pc, loaded]
    held,           \* [Requests -> generatedAt of the last page the client got]
    rested,         \* history: the TTL has passed since the last load ended
    changes, faults

vars == <<characters, stored, lock, refresher, refreshes, snapshot, expired,
          loading, request, reload, held, rested, changes, faults>>

database == <<characters, stored, lock, refresher, refreshes, changes>>
service == <<snapshot, expired, loading, reload, rested>>

Idle == [pc |-> "idle", expired |-> FALSE, loaded |-> None]
NoReload == [pc |-> "idle", loaded |-> None]
NoRefresh == [pc |-> "idle", snapshot |-> None, view |-> <<>>]

Init ==
    /\ characters = <<>>
    /\ stored = None
    /\ lock = "free"
    /\ refresher = [p \in Refreshers |-> NoRefresh]
    /\ refreshes = 0
    /\ snapshot = None
    /\ expired = FALSE
    /\ loading = FALSE
    /\ request = [r \in Requests |-> Idle]
    /\ reload = NoReload
    /\ held = [r \in Requests |-> 0]
    /\ rested = FALSE
    /\ changes = 0
    /\ faults = 0

Fault == faults < MaxFaults /\ faults' = faults + 1

-----------------------------------------------------------------------------
(* The census's writes, as far as the statistics read them.                  *)

WithCharacter(i, p) == [j \in DOMAIN characters \union {i} |-> IF j = i THEN p ELSE characters[j]]

CensusWrites ==
    /\ changes < MaxChanges
    /\ changes' = changes + 1
    /\ \E i \in Ids :
         \/ \E p \in Profiles[i] :
              /\ i \in DOMAIN characters => characters[i] # p
              /\ characters' = WithCharacter(i, p)
         \/ /\ i \in DOMAIN characters
            /\ characters' = [j \in DOMAIN characters \ {i} |-> characters[j]]
    /\ UNCHANGED <<stored, lock, refresher, refreshes, service, request, held, faults>>

-----------------------------------------------------------------------------
(* UIStatsRepository.Refresh, run by `refresh ui-stats`.                     *)

Ends(p) == refresher' = [refresher EXCEPT ![p] = NoRefresh]
Moves(p, rec) == refresher' = [refresher EXCEPT ![p] = rec]

\* Mutant: the answer of the advisory lock is ignored.
TryLock_Ignored(p) == lock' = p

TryLock(p) == lock = "free" /\ lock' = p

\* pg_try_advisory_lock: a refresh that does not get the lock is skipped (and
\* changes nothing); one that does stamps its snapshot with the time.
RefreshBegin(p) ==
    /\ refresher[p].pc = "idle"
    /\ refreshes < MaxRefreshes
    /\ TryLock(p)
    /\ refreshes' = refreshes + 1
    /\ Moves(p, [pc |-> "characters", snapshot |-> [generatedAt |-> refreshes + 1], view |-> <<>>])
    /\ UNCHANGED <<characters, stored, changes, service, request, held, faults>>

\* The first query fixes what the repeatable-read transaction sees.
RefreshCharacters(p) ==
    /\ refresher[p].pc = "characters"
    /\ Moves(p, [pc |-> "milestones",
                 snapshot |-> [generatedAt |-> refresher[p].snapshot.generatedAt,
                               summary |-> Summary(characters),
                               groups |-> Groups(characters)],
                 view |-> characters])
    /\ UNCHANGED <<characters, stored, lock, refreshes, changes, service, request, held, faults>>

\* Mutant: the second query sees what was committed since the first.
TransactionView_ReadCommitted(p) == characters

TransactionView(p) == refresher[p].view

RefreshMilestones(p) ==
    /\ refresher[p].pc = "milestones"
    /\ LET seen == refresher[p].snapshot
           view == TransactionView(p)
       IN  Moves(p, [pc |-> "publish",
                     snapshot |-> [generatedAt |-> seen.generatedAt,
                                   summary |-> seen.summary,
                                   groups |-> seen.groups,
                                   expansions |-> Expansions(view),
                                   newCharacters |-> NewCharacters(view, Today)],
                     view |-> view])
    /\ UNCHANGED <<characters, stored, lock, refreshes, changes, service, request, held, faults>>

\* The row after the upsert: a snapshot that is not valid is not stored.
Upserted(p) ==
    IF ValidateUIStatsSnapshot(refresher[p].snapshot) THEN refresher[p].snapshot ELSE stored

\* Validation, the upsert of the one row, and the deferred unlock.
RefreshPublish(p) ==
    /\ refresher[p].pc = "publish"
    /\ stored' = Upserted(p)
    /\ lock' = "free"
    /\ Ends(p)
    /\ UNCHANGED <<characters, refreshes, changes, service, request, held, faults>>

\* A database error or the timeout on the way, or the death of the process:
\* the transaction is rolled back and the session's lock goes.  The upsert may
\* have taken effect although its answer was lost.
RefreshFails(p) ==
    /\ refresher[p].pc # "idle"
    /\ Fault
    /\ stored' \in {stored} \union (IF refresher[p].pc = "publish" THEN {Upserted(p)} ELSE {})
    /\ lock' = "free"
    /\ Ends(p)
    /\ UNCHANGED <<characters, refreshes, changes, service, request, held>>

Refresh(p) == RefreshBegin(p) \/ RefreshCharacters(p) \/ RefreshMilestones(p) \/ RefreshPublish(p)

-----------------------------------------------------------------------------
(* UIStatsService.Current and the reload.                                    *)

To(r, pc) == [request EXCEPT ![r] = [pc |-> pc, expired |-> @.expired, loaded |-> @.loaded]]
Back(r) == [request EXCEPT ![r] = Idle]

\* The page sent to the client: by its ETag, a hash of the generation, the
\* client keeps its copy when it has this generation already.
Answer(r, s) == held' = [held EXCEPT ![r] = s.generatedAt]

\* A request comes in, or a waiting one was woken: `now` is read before the lock.
ReadClock(r) ==
    /\ request[r].pc \in {"idle", "woken"}
    /\ request' = [request EXCEPT ![r] = [pc |-> "enter", expired |-> expired, loaded |-> None]]
    /\ UNCHANGED <<database, service, held, faults>>

\* Mutant: a copy never expires.
Fresh_Forever(r) == snapshot # None

Fresh(r) == snapshot # None /\ ~request[r].expired

Hit(r) ==
    /\ request[r].pc = "enter" /\ Fresh(r)
    /\ Answer(r, snapshot)
    /\ request' = Back(r)
    /\ UNCHANGED <<database, service, faults>>

Miss(r) == request[r].pc = "enter" /\ ~Fresh(r)

\* Somebody else is loading: the old copy if there is one, else wait.
StaleServed(r) ==
    /\ Miss(r) /\ loading /\ snapshot # None
    /\ Answer(r, snapshot)
    /\ request' = Back(r)
    /\ UNCHANGED <<database, service, faults>>

Wait(r) ==
    /\ Miss(r) /\ loading /\ snapshot = None
    /\ request' = To(r, "wait")
    /\ UNCHANGED <<database, service, held, faults>>

StartsLoading == loading' = TRUE

\* The first to find the copy expired starts the background reload.
StartReload(r) ==
    /\ Miss(r) /\ ~loading /\ snapshot # None
    /\ StartsLoading
    /\ reload' = [pc |-> "load", loaded |-> None]
    /\ Answer(r, snapshot)
    /\ request' = Back(r)
    /\ UNCHANGED <<database, snapshot, expired, rested, faults>>

StartColdLoad(r) ==
    /\ Miss(r) /\ ~loading /\ snapshot = None
    /\ StartsLoading
    /\ request' = To(r, "load")
    /\ UNCHANGED <<database, snapshot, expired, reload, rested, held, faults>>

\* LoadCurrent: the row (which is valid: it was validated before it was
\* stored), ErrUIStatsUnavailable when there is none, or a failure of the
\* database, of the timeout or of the request's context.  None stands for
\* every error.
LoadCurrent(loaded) ==
    \/ loaded = stored /\ UNCHANGED faults
    \/ stored # None /\ loaded = None /\ Fault

ColdLoad(r) ==
    /\ request[r].pc = "load"
    /\ \E s \in {stored, None} :
         /\ LoadCurrent(s)
         /\ request' = [request EXCEPT ![r] = [pc |-> "finish", expired |-> @.expired,
                                               loaded |-> s]]
    /\ UNCHANGED <<database, service, held>>

BackgroundLoad ==
    /\ reload.pc = "load"
    /\ \E s \in {stored, None} :
         /\ LoadCurrent(s)
         /\ reload' = [pc |-> "finish", loaded |-> s]
    /\ UNCHANGED <<database, snapshot, expired, loading, rested, request, held>>

\* loadedAt is stamped after a success and after a failure with a copy; the
\* requests that read the clock earlier then find the copy fresh.
Stamps_OnSuccess(loaded) == loaded # None

Stamps(loaded) == loaded # None \/ snapshot # None

\* close(s.wait): every waiting request wakes.
Wakes_Nobody(r) == FALSE

Wakes(r) == request[r].pc = "wait"

finishReload(loaded, req) ==
    /\ snapshot' = IF loaded # None THEN loaded ELSE snapshot
    /\ expired' = (expired /\ ~Stamps(loaded))
    /\ loading' = FALSE
    /\ rested' = FALSE
    /\ request' = [r \in Requests |->
                     [pc |-> IF Wakes(r) THEN "woken" ELSE req[r].pc,
                      expired |-> req[r].expired /\ ~Stamps(loaded),
                      loaded |-> req[r].loaded]]

ColdFinish(r) ==
    /\ request[r].pc = "finish"
    /\ finishReload(request[r].loaded, Back(r))
    /\ IF request[r].loaded # None THEN Answer(r, request[r].loaded) ELSE UNCHANGED held
    /\ UNCHANGED <<database, reload, faults>>

BackgroundFinish ==
    /\ reload.pc = "finish"
    /\ finishReload(reload.loaded, request)
    /\ reload' = NoReload
    /\ UNCHANGED <<database, held, faults>>

\* A waiting client goes away: 503, or nobody left to read it.
Cancelled(r) ==
    /\ request[r].pc \in {"wait", "woken"}
    /\ Fault
    /\ request' = Back(r)
    /\ UNCHANGED <<database, service, held>>

\* The cache TTL passes.
TTLPasses ==
    /\ snapshot # None /\ ~(expired /\ rested)
    /\ expired' = TRUE
    /\ rested' = TRUE
    /\ UNCHANGED <<database, snapshot, loading, reload, request, held, faults>>

Enter(r) == Hit(r) \/ StaleServed(r) \/ Wait(r) \/ StartReload(r) \/ StartColdLoad(r)

Current(r) == ReadClock(r) \/ Enter(r) \/ ColdLoad(r) \/ ColdFinish(r)

Next ==
    \/ CensusWrites
    \/ \E p \in Refreshers : Refresh(p) \/ RefreshFails(p)
    \/ \E r \in Requests : Current(r) \/ Cancelled(r)
    \/ BackgroundLoad \/ BackgroundFinish
    \/ TTLPasses

\* Requests keep coming, every goroutine of the server proceeds and time
\* passes; nothing is assumed of the refresh job.
Fairness ==
    /\ \A r \in Requests : WF_vars(Current(r))
    /\ WF_vars(BackgroundLoad) /\ WF_vars(BackgroundFinish)
    /\ WF_vars(TTLPasses)

Spec == Init /\ [][Next]_vars
FairSpec == Spec /\ Fairness

-----------------------------------------------------------------------------
(* Properties.                                                               *)

TypeOK ==
    /\ DOMAIN characters \subseteq Ids
    /\ lock \in Refreshers \union {"free"}
    /\ \A p \in Refreshers :
         /\ refresher[p].pc \in {"idle", "characters", "milestones", "publish"}
         /\ refresher[p].snapshot.generatedAt \in 0..MaxRefreshes
    /\ {stored.generatedAt, snapshot.generatedAt, reload.loaded.generatedAt, refreshes}
         \subseteq 0..MaxRefreshes
    /\ {expired, loading, rested} \subseteq BOOLEAN
    /\ \A r \in Requests :
         /\ request[r].pc \in {"idle", "enter", "wait", "woken", "load", "finish"}
         /\ request[r].loaded.generatedAt \in 0..MaxRefreshes
         /\ held[r] \in 0..MaxRefreshes
    /\ reload.pc \in {"idle", "load", "finish"}
    /\ changes \in 0..MaxChanges /\ faults \in 0..MaxFaults

\* Concurrent reloads are coalesced (docs/census.md): at most one load of the
\* row is under way in the process, cold or in the background, and exactly
\* while `loading` is set.  A load that forgot to say so would leave the
\* waiters without anybody to wake them, or start a second one.
Coalesced ==
    Cardinality({r \in Requests : request[r].pc \in {"load", "finish"}})
      + (IF reload.pc = "idle" THEN 0 ELSE 1) = (IF loading THEN 1 ELSE 0)

\* A client never goes back in time: neither the stored row, nor the process's
\* copy, nor what one client is sent is ever replaced by an older generation,
\* whatever refreshes and reloads overlap.
NeverOlder ==
    [][ /\ stored'.generatedAt >= stored.generatedAt
        /\ snapshot'.generatedAt >= snapshot.generatedAt
        /\ \A r \in Requests : held'[r] >= held[r] ]_vars

\* A warm process asks the database at most once per TTL, failures included: a
\* load that starts while there is a copy starts at least a TTL after the end
\* of the load before it, even for a request that read the clock earlier.
ReloadPaced == [][ ~loading /\ loading' /\ snapshot # None => rested ]_vars

\* The parts of the stored snapshot are of one moment: no world has more
\* characters through an expansion, or new on one day, than it has characters,
\* although the two are counted by two queries while the census writes.
PopulationOf(s, world) ==
    IF world = "" THEN s.summary.total
    ELSE SumCounts({[count |-> g.total] : g \in {h \in s.groups :
                       h.dimension = "world" /\ h.key = <<world>>}})

OneMoment ==
    stored # None =>
        /\ \A e \in stored.expansions : e.count <= PopulationOf(stored, e.scope.world)
        /\ \A d \in stored.newCharacters : d.count <= PopulationOf(stored, d.scope.world)

\* What the pages show as new characters is exact: for every scope the two
\* windows, summed from the per-world series the refresh cut at its lookback,
\* count the characters stored under that scope that joined in the window.
Joined(view, level, value, from, to) ==
    Cardinality({i \in DOMAIN view : /\ ValueAt(view[i], level) = value
                                     /\ view[i].joined # NoDay
                                     /\ view[i].joined \in from..to})

WindowsExact ==
    \A p \in Refreshers : refresher[p].pc = "publish" =>
        LET view == refresher[p].view
            scopes == {<<l, ValueAt(view[i], l)>> : l \in Levels \union {"global"}, i \in DOMAIN view}
        IN  \A s \in scopes :
              LET shown == NewCharactersWindow(refresher[p].snapshot, ScopeAt(s[1], s[2]), Today)
              IN  /\ shown.current = Joined(view, s[1], s[2], Today - Window + 1, Today)
                  /\ shown.previous = Joined(view, s[1], s[2], Today - 2 * Window + 1, Today - Window)

\* The snapshot a refresh computes is one that ValidateUIStatsSnapshot accepts,
\* whatever characters are stored: otherwise the refresh fails, and fails again
\* every hour while such a character is there.
RefreshAccepted ==
    \A p \in Refreshers :
        refresher[p].pc = "publish" => ValidateUIStatsSnapshot(refresher[p].snapshot)

\* Once there is a row no request waits for ever, although the one it waits for
\* may fail, be cancelled or be overtaken.
Answered == \A r \in Requests : request[r].pc # "idle" /\ stored # None ~> request[r].pc = "idle"

\* The last published row reaches the process's copy.
CatchesUp == <>[](snapshot = stored)

=============================================================================
