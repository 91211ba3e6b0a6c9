--------------------------- MODULE UIStatsProofs ---------------------------
(***************************************************************************)
(* Proofs about UIStats, for any number of refreshers, requests,           *)
(* characters and faults: one load at a time, no client goes back in time, *)
(* a warm process loads at most once per TTL, and the stored statistics are*)
(* of one moment, exact and valid.                                         *)
(*                                                                         *)
(* The argument: the lock makes the refreshes' generations follow each     *)
(* other (Locked); a load that has read the row is no newer than the row   *)
(* and no older than the copy, because nobody else replaces the copy       *)
(* meanwhile (Ordered, from OneLoad); and a load that ends resets what     *)
(* every request saw of the clock together with the clock (Paced).  For the*)
(* statistics: a refresh computes everything from the view of its first    *)
(* query (Faithful), and the sums the pages make over the rows of a view   *)
(* are counts of its characters (SumOfFibres, by induction on the set).    *)
(***************************************************************************)
EXTENDS UIStats, FiniteSetTheorems, TLAPS

Gen(s) == s.generatedAt

RequestPcs == {"idle", "enter", "wait", "woken", "load", "finish"}
RefreshPcs == {"idle", "characters", "milestones", "publish"}

(* The record of a request; what it loaded may be any snapshot. *)
RequestOK(q) ==
    /\ q = [pc |-> q.pc, expired |-> q.expired, loaded |-> q.loaded]
    /\ q.pc \in RequestPcs /\ q.expired \in BOOLEAN /\ Gen(q.loaded) \in 0 .. refreshes

DatabaseTypes ==
    /\ DOMAIN characters \subseteq Ids
    /\ lock \in Refreshers \union {"free"}
    /\ refresher = [p \in Refreshers |-> refresher[p]]
    /\ \A p \in Refreshers : /\ refresher[p].pc \in RefreshPcs
                             /\ Gen(refresher[p].snapshot) \in 0 .. refreshes
    /\ refreshes \in 0 .. MaxRefreshes
    /\ Gen(stored) \in 0 .. refreshes
    /\ changes \in 0 .. MaxChanges

ServiceTypes ==
    /\ Gen(snapshot) \in Nat
    /\ expired \in BOOLEAN /\ loading \in BOOLEAN /\ rested \in BOOLEAN
    /\ reload.pc \in {"idle", "load", "finish"} /\ Gen(reload.loaded) \in 0 .. refreshes

RequestTypes ==
    /\ request = [r \in Requests |-> request[r]]
    /\ \A r \in Requests : RequestOK(request[r])
    /\ held \in [Requests -> Nat]

(* Whoever refreshes has the lock, and the newest generation. *)
Locked ==
    \A p \in Refreshers :
        refresher[p].pc # "idle" => lock = p /\ Gen(refresher[p].snapshot) = refreshes

Loads(r) == request[r].pc \in {"load", "finish"}

(* At most one load is under way, exactly while `loading' is set. *)
OneLoad ==
    /\ \A r \in Requests : Loads(r) => loading /\ reload.pc = "idle"
    /\ reload.pc # "idle" => loading
    /\ loading => reload.pc # "idle" \/ \E r \in Requests : Loads(r)
    /\ \A r, s \in Requests : Loads(r) /\ Loads(s) => r = s

(* What a load brings is between the copy and the row. *)
LoadedOK(s) == Gen(s) <= Gen(stored) /\ (s # None => Gen(snapshot) <= Gen(s))

Ordered ==
    /\ Gen(snapshot) <= Gen(stored)
    /\ \A r \in Requests : held[r] <= Gen(snapshot)
    /\ \A r \in Requests : request[r].pc = "finish" => LoadedOK(request[r].loaded)
    /\ reload.pc = "finish" => LoadedOK(reload.loaded)

(* Nobody has seen the copy expire before the TTL has passed. *)
Paced ==
    snapshot # None /\ ~loading =>
        (expired => rested) /\ \A r \in Requests : request[r].expired => rested

FaultsOK == faults \in 0 .. MaxFaults

IInv ==
    /\ DatabaseTypes /\ ServiceTypes /\ RequestTypes /\ FaultsOK
    /\ Locked /\ OneLoad /\ Ordered /\ Paced

USE StatsBounds DEF Gen

(* No step makes anything older.                                           *)
Forward ==
    /\ Gen(stored') >= Gen(stored)
    /\ Gen(snapshot') >= Gen(snapshot)
    /\ \A r \in Requests : held'[r] >= held[r]

Pace == ~loading /\ loading' /\ snapshot # None => rested

Good == IInv' /\ Forward /\ Pace

-----------------------------------------------------------------------------
(* The initial state: no row, no copy, nobody loading. *)
LEMMA InitOK == Init => IInv
<1> SUFFICES ASSUME Init PROVE IInv
  BY Zenon
<1>1. None.generatedAt = 0
  BY Zenon DEF None
<1>2. \A r \in Requests : request[r] = Idle /\ held[r] = 0
  BY Zenon DEF Init
<1>3. Idle.pc = "idle" /\ Idle.expired = FALSE /\ Idle.loaded = None
  BY Zenon DEF Idle
<1>4. \A p \in Refreshers : refresher[p].pc = "idle" /\ refresher[p].snapshot = None
  BY Zenon DEF Init, NoRefresh
<1>5. reload.pc = "idle" /\ reload.loaded = None
  BY Zenon DEF Init, NoReload
<1>6. refreshes = 0 /\ 0 \in 0 .. 0 /\ 0 \in 0 .. MaxRefreshes /\ 0 \in 0 .. MaxChanges
      /\ 0 \in 0 .. MaxFaults
  BY DEF Init
<1>7. DatabaseTypes
  <2>1. DOMAIN characters \subseteq Ids
    BY DEF Init
  <2> QED BY <1>1, <1>4, <1>6, <2>1, Zenon DEF Init, DatabaseTypes, RefreshPcs
<1>8. ServiceTypes
  <2>1. snapshot = None /\ expired = FALSE /\ loading = FALSE /\ rested = FALSE
    BY Zenon DEF Init
  <2>2. expired \in BOOLEAN /\ loading \in BOOLEAN /\ rested \in BOOLEAN
    BY <2>1, Zenon
  <2> QED BY <1>1, <1>5, <1>6, <2>1, <2>2 DEF ServiceTypes
<1>9. RequestTypes
  <2>1. \A r \in Requests : RequestOK(request[r])
    BY <1>1, <1>2, <1>3, <1>6, Zenon DEF RequestOK, RequestPcs, Idle
  <2>2. request = [r \in Requests |-> request[r]] /\ held \in [Requests -> Nat]
    BY Zenon DEF Init
  <2> QED BY <2>1, <2>2, Zenon DEF RequestTypes
<1>10. Locked /\ OneLoad
  BY <1>2, <1>3, <1>4, <1>5, Zenon DEF Init, Locked, OneLoad, Loads
<1>11. Ordered
  BY <1>1, <1>2, <1>3, <1>5 DEF Init, Ordered
<1>12. Paced /\ FaultsOK
  BY <1>6, Zenon DEF Init, Paced, FaultsOK
<1> QED BY <1>7, <1>8, <1>9, <1>10, <1>11, <1>12, Zenon DEF IInv

-----------------------------------------------------------------------------
(* The database. *)

(* A step that leaves the process alone and only renews the row is good. *)
LEMMA DatabaseGood ==
    ASSUME IInv, DatabaseTypes', Locked', Gen(stored') >= Gen(stored), refreshes' >= refreshes,
           FaultsOK', UNCHANGED <<service, request, held>>
    PROVE Good
<1>1. /\ UNCHANGED <<snapshot, expired, loading, reload, rested, request, held>>
      /\ refreshes \in Nat /\ refreshes' \in Nat /\ Gen(stored) \in Nat /\ Gen(stored') \in Nat
  BY DEF service, IInv, DatabaseTypes
<1>2. ServiceTypes'
  BY <1>1 DEF IInv, ServiceTypes
<1>3. RequestTypes'
  BY <1>1 DEF IInv, RequestTypes, RequestOK
<1>4. OneLoad' /\ Paced'
  BY <1>1, Zenon DEF IInv, OneLoad, Loads, Paced
<1>5. Ordered'
  <2>1. Gen(snapshot) \in Nat /\ Gen(reload.loaded) \in Nat
        /\ \A r \in Requests : Gen(request[r].loaded) \in Nat
    BY <1>1 DEF IInv, ServiceTypes, RequestTypes, RequestOK
  <2> QED BY <1>1, <2>1 DEF IInv, Ordered, LoadedOK
<1>6. Forward /\ Pace
  BY <1>1 DEF IInv, Forward, Pace, ServiceTypes, RequestTypes
<1> QED BY <1>2, <1>3, <1>4, <1>5, <1>6, Zenon DEF Good, IInv

(* The census writes a character. *)
LEMMA CensusGood ==
    ASSUME IInv, CensusWrites PROVE Good
<1>1. UNCHANGED <<stored, lock, refresher, refreshes, service, request, held, faults>>
  BY Zenon DEF CensusWrites
<1>2. DOMAIN characters' \subseteq Ids
  BY Zenon DEF CensusWrites, WithCharacter, IInv, DatabaseTypes
<1>3. changes' \in 0 .. MaxChanges
  BY DEF CensusWrites, IInv, DatabaseTypes
<1>4. DatabaseTypes' /\ Locked' /\ FaultsOK'
  BY <1>1, <1>2, <1>3, Zenon DEF IInv, DatabaseTypes, Locked, FaultsOK
<1> QED BY <1>1, <1>4, DatabaseGood DEF IInv, DatabaseTypes

(* A refresh takes the lock and stamps its snapshot. *)
LEMMA BeginGood ==
    ASSUME IInv, NEW p \in Refreshers, RefreshBegin(p) PROVE Good
<1> DEFINE rec == [pc |-> "characters", snapshot |-> [generatedAt |-> refreshes + 1],
                   view |-> <<>>]
<1>1. /\ lock = "free" /\ lock' = p /\ refreshes' = refreshes + 1 /\ refreshes < MaxRefreshes
      /\ refresher' = [refresher EXCEPT ![p] = rec]
      /\ UNCHANGED <<characters, stored, changes, service, request, held, faults>>
  BY Zenon DEF RefreshBegin, TryLock, Moves
<1>2. rec.pc = "characters" /\ rec.snapshot.generatedAt = refreshes'
  BY <1>1, Zenon
<1> HIDE DEF rec
<1>3. /\ refresher' = [q \in Refreshers |-> refresher'[q]]
      /\ refresher'[p] = rec /\ \A q \in Refreshers \ {p} : refresher'[q] = refresher[q]
  BY <1>1, Zenon DEF IInv, DatabaseTypes
<1>4. \A q \in Refreshers \ {p} : refresher'[q].pc = "idle"
  BY <1>1, <1>3, Zenon DEF IInv, Locked
<1>5. /\ refreshes' \in 0 .. MaxRefreshes /\ refreshes \in Nat /\ Gen(stored) \in 0 .. refreshes'
      /\ \A q \in Refreshers : Gen(refresher[q].snapshot) \in 0 .. refreshes'
  BY <1>1 DEF IInv, DatabaseTypes
<1>6. DatabaseTypes'
  <2>1. \A q \in Refreshers : /\ refresher'[q].pc \in RefreshPcs
                              /\ Gen(refresher'[q].snapshot) \in 0 .. refreshes'
    BY <1>2, <1>3, <1>5 DEF IInv, DatabaseTypes, RefreshPcs
  <2> QED BY <1>1, <1>3, <1>5, <2>1, Zenon DEF IInv, DatabaseTypes
<1>7. Locked'
  BY <1>1, <1>2, <1>3, <1>4, Zenon DEF Locked
<1> QED BY <1>1, <1>5, <1>6, <1>7, DatabaseGood DEF IInv, FaultsOK

(* A step in which the refresh of p that holds the lock goes on. *)
LEMMA MovesGood ==
    ASSUME IInv, NEW p \in Refreshers, NEW rec, refresher[p].pc # "idle",
           rec.pc \in RefreshPcs, Gen(rec.snapshot) = Gen(refresher[p].snapshot), Moves(p, rec),
           UNCHANGED <<characters, stored, lock, refreshes, changes, service, request, held, faults>>
    PROVE Good
<1>1. /\ refresher' = [q \in Refreshers |-> refresher'[q]]
      /\ refresher'[p] = rec /\ \A q \in Refreshers \ {p} : refresher'[q] = refresher[q]
  BY Zenon DEF IInv, DatabaseTypes, Moves
<1>2. DatabaseTypes'
  <2>1. \A q \in Refreshers : /\ refresher'[q].pc \in RefreshPcs
                              /\ Gen(refresher'[q].snapshot) \in 0 .. refreshes'
    BY <1>1, Zenon DEF IInv, DatabaseTypes
  <2> QED BY <1>1, <2>1, Zenon DEF IInv, DatabaseTypes
<1>3. Locked'
  BY <1>1, Zenon DEF IInv, Locked
<1>4. Gen(stored') >= Gen(stored) /\ refreshes' >= refreshes
  BY DEF IInv, DatabaseTypes
<1> QED BY <1>2, <1>3, <1>4, DatabaseGood, Zenon DEF IInv, FaultsOK

(* The two queries of a refresh. *)
LEMMA QueriesGood ==
    ASSUME IInv, NEW p \in Refreshers, RefreshCharacters(p) \/ RefreshMilestones(p)
    PROVE Good
<1>1. CASE RefreshCharacters(p)
  <2> DEFINE rec == [pc |-> "milestones",
                     snapshot |-> [generatedAt |-> refresher[p].snapshot.generatedAt,
                                   summary |-> Summary(characters),
                                   groups |-> Groups(characters)],
                     view |-> characters]
  <2>1. /\ refresher[p].pc # "idle" /\ Moves(p, rec)
        /\ UNCHANGED <<characters, stored, lock, refreshes, changes, service, request, held,
                       faults>>
    BY <1>1, Zenon DEF RefreshCharacters
  <2>2. rec.pc \in RefreshPcs /\ rec.snapshot.generatedAt = refresher[p].snapshot.generatedAt
    BY Zenon DEF RefreshPcs
  <2> HIDE DEF rec
  <2> QED BY <2>1, <2>2, MovesGood, Zenon
<1>2. CASE RefreshMilestones(p)
  <2> DEFINE seen == refresher[p].snapshot
             rec == [pc |-> "publish",
                     snapshot |-> [generatedAt |-> seen.generatedAt,
                                   summary |-> seen.summary,
                                   groups |-> seen.groups,
                                   expansions |-> Expansions(TransactionView(p)),
                                   newCharacters |-> NewCharacters(TransactionView(p), Today)],
                     view |-> TransactionView(p)]
  <2>1. /\ refresher[p].pc # "idle" /\ Moves(p, rec)
        /\ UNCHANGED <<characters, stored, lock, refreshes, changes, service, request, held,
                       faults>>
    BY <1>2, Zenon DEF RefreshMilestones
  <2>2. rec.pc \in RefreshPcs /\ rec.snapshot.generatedAt = refresher[p].snapshot.generatedAt
    BY Zenon DEF RefreshPcs
  <2> HIDE DEF rec
  <2> QED BY <2>1, <2>2, MovesGood
<1> QED BY <1>1, <1>2, Zenon

(* The end of a refresh, with its row stored or not. *)
LEMMA EndsGood ==
    ASSUME IInv, NEW p \in Refreshers, RefreshPublish(p) \/ RefreshFails(p) PROVE Good
<1>1. /\ refresher[p].pc # "idle" /\ lock' = "free" /\ refresher' = [refresher EXCEPT ![p] = NoRefresh]
      /\ UNCHANGED <<characters, refreshes, changes, service, request, held>>
      /\ stored' = stored \/ stored' = refresher[p].snapshot
  BY Zenon DEF RefreshPublish, RefreshFails, Ends, Upserted
<1>2. FaultsOK'
  BY DEF RefreshPublish, RefreshFails, Fault, IInv, FaultsOK
<1>3. NoRefresh.pc = "idle" /\ NoRefresh.snapshot.generatedAt = 0
  BY Zenon DEF NoRefresh, None
<1>4. /\ refresher' = [q \in Refreshers |-> refresher'[q]]
      /\ refresher'[p] = NoRefresh /\ \A q \in Refreshers \ {p} : refresher'[q] = refresher[q]
  BY <1>1, Zenon DEF IInv, DatabaseTypes
<1>5. \A q \in Refreshers : refresher'[q].pc = "idle"
  BY <1>1, <1>3, <1>4, Zenon DEF IInv, Locked
<1>6. Gen(stored') \in 0 .. refreshes' /\ Gen(stored') >= Gen(stored) /\ refreshes' >= refreshes
  BY <1>1 DEF IInv, Locked, DatabaseTypes
<1>7. DatabaseTypes'
  <2>1. \A q \in Refreshers : /\ refresher'[q].pc \in RefreshPcs
                              /\ Gen(refresher'[q].snapshot) \in 0 .. refreshes'
    BY <1>1, <1>3, <1>4, <1>5 DEF IInv, DatabaseTypes, RefreshPcs
  <2> QED BY <1>1, <1>4, <1>6, <2>1, Zenon DEF IInv, DatabaseTypes
<1>8. Locked'
  BY <1>5, Zenon DEF Locked
<1> QED BY <1>1, <1>2, <1>6, <1>7, <1>8, DatabaseGood, Zenon

-----------------------------------------------------------------------------
(* The server process. *)

(* A step of the process leaves the database alone. *)
LEMMA ServerGood ==
    ASSUME IInv, UNCHANGED database, FaultsOK', ServiceTypes', RequestTypes', OneLoad', Ordered',
           Paced', Gen(snapshot') >= Gen(snapshot), \A r \in Requests : held'[r] >= held[r], Pace
    PROVE Good
<1>1. DatabaseTypes' /\ Locked'
  BY Zenon DEF IInv, DatabaseTypes, Locked, database
<1>2. Gen(stored') >= Gen(stored)
  BY DEF IInv, DatabaseTypes, database
<1> QED BY <1>1, <1>2, Zenon DEF Good, IInv, Forward

(* The client of r keeps its page or gets the process's copy. *)
Serves(r) == held' = held \/ held' = [held EXCEPT ![r] = snapshot.generatedAt]

(* Serving the copy keeps every page between its last one and the copy. *)
LEMMA ServesOK ==
    ASSUME IInv, NEW r \in Requests, Serves(r), snapshot' = snapshot
    PROVE /\ held' \in [Requests -> Nat]
          /\ \A s \in Requests : held'[s] >= held[s] /\ held'[s] <= Gen(snapshot')
<1>1. held \in [Requests -> Nat] /\ Gen(snapshot) \in Nat /\ \A s \in Requests : held[s] <= Gen(snapshot)
  BY Zenon DEF IInv, RequestTypes, ServiceTypes, Ordered
<1>2. CASE held' = held
  BY <1>1, <1>2
<1>3. CASE held' = [held EXCEPT ![r] = snapshot.generatedAt]
  BY <1>1, <1>3
<1> QED BY <1>2, <1>3, Zenon DEF Serves

(* One request becomes q. *)
LEMMA RequestOne ==
    ASSUME IInv, NEW r \in Requests, NEW q, RequestOK(q), request' = [request EXCEPT ![r] = q],
           refreshes' = refreshes
    PROVE /\ request' = [s \in Requests |-> request'[s]]
          /\ request'[r] = q /\ \A s \in Requests \ {r} : request'[s] = request[s]
          /\ \A s \in Requests : RequestOK(request[s])'
<1>1. /\ request' = [s \in Requests |-> request'[s]]
      /\ request'[r] = q /\ \A s \in Requests \ {r} : request'[s] = request[s]
  BY Zenon DEF IInv, RequestTypes
<1>2. \A s \in Requests : RequestOK(request[s])'
  BY <1>1, Zenon DEF IInv, RequestTypes, RequestOK
<1> QED BY <1>1, <1>2, Zenon

(* A request that loads nothing before or after its step. *)
LEMMA QuietGood ==
    ASSUME IInv, NEW r \in Requests, NEW q, RequestOK(q), q.pc \notin {"load", "finish"},
           ~Loads(r), q.expired => expired \/ request[r].expired,
           request' = [request EXCEPT ![r] = q], UNCHANGED <<database, service>>, FaultsOK',
           Serves(r)
    PROVE Good
<1>1. /\ UNCHANGED <<snapshot, expired, loading, reload, rested>>
      /\ UNCHANGED <<stored, refreshes>>
  BY Zenon DEF service, database
<1>2. /\ request' = [s \in Requests |-> request'[s]]
      /\ request'[r] = q /\ \A s \in Requests \ {r} : request'[s] = request[s]
      /\ \A s \in Requests : RequestOK(request[s])'
  BY <1>1, RequestOne, Zenon
<1>3. /\ held' \in [Requests -> Nat]
      /\ \A s \in Requests : held'[s] >= held[s] /\ held'[s] <= Gen(snapshot')
  BY <1>1, ServesOK, Zenon
<1>4. RequestTypes' /\ ServiceTypes'
  BY <1>1, <1>2, <1>3, Zenon DEF IInv, RequestTypes, ServiceTypes
<1>5. \A s \in Requests : Loads(s)' <=> Loads(s)
  BY <1>2, Zenon DEF Loads
<1>6. OneLoad'
  BY <1>1, <1>5, Zenon DEF IInv, OneLoad
<1>7. Ordered'
  <2>1. \A s \in Requests : request'[s].pc = "finish" => request'[s] = request[s]
    BY <1>2, Zenon
  <2> QED BY <1>1, <1>3, <2>1, Zenon DEF IInv, Ordered, LoadedOK
<1>8. Paced'
  BY <1>1, <1>2, Zenon DEF IInv, Paced
<1>9. Pace /\ Gen(snapshot') >= Gen(snapshot)
  BY <1>1 DEF Pace, IInv, ServiceTypes
<1> QED BY <1>3, <1>4, <1>6, <1>7, <1>8, <1>9, ServerGood, Zenon

(* A request that came back has seen nothing. *)
LEMMA IdleOK ==
    ASSUME IInv PROVE RequestOK(Idle) /\ Idle.pc = "idle" /\ Idle.expired = FALSE
<1>1. Gen(None) \in 0 .. refreshes
  BY DEF None, IInv, DatabaseTypes
<1> QED BY <1>1, Zenon DEF RequestOK, Idle, RequestPcs

(* A request that moves on keeps what it saw. *)
LEMMA ToOK ==
    ASSUME IInv, NEW r \in Requests, NEW pc \in RequestPcs
    PROVE /\ To(r, pc) = [request EXCEPT ![r] = [pc |-> pc, expired |-> request[r].expired,
                                                   loaded |-> request[r].loaded]]
          /\ RequestOK([pc |-> pc, expired |-> request[r].expired, loaded |-> request[r].loaded])
<1>1. request[r].expired \in BOOLEAN /\ Gen(request[r].loaded) \in 0 .. refreshes
  BY Zenon DEF IInv, RequestTypes, RequestOK
<1>2. To(r, pc) = [request EXCEPT ![r] = [pc |-> pc, expired |-> request[r].expired,
                                           loaded |-> request[r].loaded]]
  BY Zenon DEF To, IInv, RequestTypes
<1> QED BY <1>1, <1>2, Zenon DEF RequestOK

(* A request reads the clock, is served, waits, or goes away. *)
LEMMA RequestsGood ==
    ASSUME IInv, NEW r \in Requests,
           ReadClock(r) \/ Hit(r) \/ StaleServed(r) \/ Wait(r) \/ Cancelled(r)
    PROVE Good
<1>1. CASE ReadClock(r)
  <2> DEFINE q == [pc |-> "enter", expired |-> expired, loaded |-> None]
  <2>1. RequestOK(q) /\ q.pc = "enter" /\ q.expired = expired
    <3>1. Gen(None) \in 0 .. refreshes /\ expired \in BOOLEAN
      BY DEF None, IInv, DatabaseTypes, ServiceTypes
    <3> QED BY <3>1, Zenon DEF RequestOK, RequestPcs
  <2>2. /\ request' = [request EXCEPT ![r] = q] /\ ~Loads(r) /\ held' = held
        /\ UNCHANGED <<database, service>> /\ faults' = faults
    BY <1>1, Zenon DEF ReadClock, Loads
  <2> HIDE DEF q
  <2> QED BY <2>1, <2>2, QuietGood, Zenon DEF Serves, IInv, FaultsOK
<1>2. CASE Hit(r) \/ StaleServed(r) \/ Cancelled(r)
  <2>1. /\ request' = [request EXCEPT ![r] = Idle] /\ ~Loads(r) /\ UNCHANGED <<database, service>>
    BY <1>2, Zenon DEF Hit, StaleServed, Cancelled, Miss, Back, Loads
  <2>2. Serves(r)
    BY <1>2, Zenon DEF Hit, StaleServed, Cancelled, Answer, Serves
  <2>3. FaultsOK'
    BY <1>2 DEF Hit, StaleServed, Cancelled, Fault, IInv, FaultsOK
  <2> QED BY <2>1, <2>2, <2>3, IdleOK, QuietGood, Zenon
<1>3. CASE Wait(r)
  <2> DEFINE q == [pc |-> "wait", expired |-> request[r].expired, loaded |-> request[r].loaded]
  <2>1. q.pc = "wait" /\ q.expired = request[r].expired
    BY Zenon
  <2>2. request' = To(r, "wait") /\ ~Loads(r) /\ held' = held /\ UNCHANGED <<database, service>>
        /\ faults' = faults
    BY <1>3, Zenon DEF Wait, Miss, Loads
  <2>3. request' = [request EXCEPT ![r] = q] /\ RequestOK(q)
    BY <2>2, ToOK, Zenon DEF RequestPcs
  <2> HIDE DEF q
  <2> QED BY <2>1, <2>2, <2>3, QuietGood, Zenon DEF Serves, IInv, FaultsOK
<1> QED BY <1>1, <1>2, <1>3, Zenon

(* The first request to find the copy expired starts the reload: it is     *)
(* the expiry it saw, so the TTL has passed since the load before.         *)
LEMMA StartReloadGood ==
    ASSUME IInv, NEW r \in Requests, StartReload(r) PROVE Good
<1>1. /\ request[r].pc = "enter" /\ ~Fresh(r) /\ ~loading /\ snapshot # None /\ loading' = TRUE
      /\ reload' = [pc |-> "load", loaded |-> None]
      /\ request' = [request EXCEPT ![r] = Idle]
      /\ held' = [held EXCEPT ![r] = snapshot.generatedAt]
      /\ UNCHANGED <<database, snapshot, expired, rested, faults>>
  BY Zenon DEF StartReload, Miss, StartsLoading, Answer, Back
<1>2. reload'.pc = "load" /\ reload'.loaded = None /\ Gen(None) = 0 /\ UNCHANGED <<stored, refreshes>>
      /\ 0 \in 0 .. refreshes
  BY <1>1 DEF None, database, IInv, DatabaseTypes
<1>3. /\ request' = [s \in Requests |-> request'[s]]
      /\ request'[r] = Idle /\ \A s \in Requests \ {r} : request'[s] = request[s]
      /\ \A s \in Requests : RequestOK(request[s])'
  BY <1>1, <1>2, IdleOK, RequestOne, Zenon
<1>4. /\ held' \in [Requests -> Nat]
      /\ \A s \in Requests : held'[s] >= held[s] /\ held'[s] <= Gen(snapshot')
  BY <1>1, ServesOK, Zenon DEF Serves
<1>5. RequestTypes' /\ ServiceTypes' /\ FaultsOK'
  BY <1>1, <1>2, <1>3, <1>4, Zenon DEF IInv, RequestTypes, ServiceTypes, FaultsOK
<1>6. \A s \in Requests : ~Loads(s) /\ ~Loads(s)'
  <2>1. \A s \in Requests : ~Loads(s)
    BY <1>1, Zenon DEF IInv, OneLoad
  <2> QED BY <2>1, <1>3, IdleOK, Zenon DEF Loads
<1>7. OneLoad'
  BY <1>1, <1>2, <1>6, Zenon DEF OneLoad
<1>8. Ordered'
  <2>1. \A s \in Requests : request'[s].pc # "finish"
    BY <1>6, Zenon DEF Loads
  <2> QED BY <1>1, <1>2, <1>4, <2>1, Zenon DEF IInv, Ordered
<1>9. Paced'
  BY <1>1, Zenon DEF Paced
<1>10. rested
  <2>1. request[r].expired
    BY <1>1, Zenon DEF Fresh
  <2> QED BY <1>1, <2>1, Zenon DEF IInv, Paced
<1>11. Pace /\ Gen(snapshot') >= Gen(snapshot)
  BY <1>1, <1>10 DEF Pace, IInv, ServiceTypes
<1> QED BY <1>1, <1>4, <1>5, <1>7, <1>8, <1>9, <1>11, ServerGood, Zenon

(* Without a copy the first request loads the row itself. *)
LEMMA StartColdLoadGood ==
    ASSUME IInv, NEW r \in Requests, StartColdLoad(r) PROVE Good
<1> DEFINE q == [pc |-> "load", expired |-> request[r].expired, loaded |-> request[r].loaded]
<1>1. /\ ~loading /\ snapshot = None /\ loading' = TRUE /\ request' = To(r, "load")
      /\ UNCHANGED <<database, snapshot, expired, reload, rested, held, faults>>
  BY Zenon DEF StartColdLoad, Miss, StartsLoading
<1>2. request' = [request EXCEPT ![r] = q] /\ RequestOK(q) /\ q.pc = "load"
  BY <1>1, ToOK, Zenon DEF RequestPcs
<1> HIDE DEF q
<1>3. UNCHANGED <<stored, refreshes>>
  BY <1>1, Zenon DEF database
<1>4. /\ request' = [s \in Requests |-> request'[s]]
      /\ request'[r] = q /\ \A s \in Requests \ {r} : request'[s] = request[s]
      /\ \A s \in Requests : RequestOK(request[s])'
  BY <1>2, <1>3, RequestOne, Zenon
<1>5. RequestTypes' /\ ServiceTypes' /\ FaultsOK'
  BY <1>1, <1>3, <1>4, Zenon DEF IInv, RequestTypes, ServiceTypes, FaultsOK
<1>6. reload.pc = "idle" /\ \A s \in Requests : ~Loads(s)
  BY <1>1, Zenon DEF IInv, OneLoad
<1>7. \A s \in Requests : Loads(s)' <=> s = r
  BY <1>2, <1>4, <1>6, Zenon DEF Loads
<1>8. OneLoad'
  BY <1>1, <1>6, <1>7, Zenon DEF OneLoad
<1>9. Ordered'
  <2>1. \A s \in Requests : request'[s].pc # "finish"
    BY <1>2, <1>4, <1>6, Zenon DEF Loads
  <2> QED BY <1>1, <1>3, <1>6, <2>1, Zenon DEF IInv, Ordered
<1>10. Paced' /\ Pace /\ Gen(snapshot') >= Gen(snapshot) /\ \A s \in Requests : held'[s] >= held[s]
  BY <1>1 DEF Paced, Pace, IInv, ServiceTypes, RequestTypes
<1> QED BY <1>1, <1>5, <1>8, <1>9, <1>10, ServerGood, Zenon

(* What LoadCurrent brings. *)
LEMMA LoadCurrentOK ==
    ASSUME IInv, NEW s \in {stored, None}, LoadCurrent(s)
    PROVE LoadedOK(s) /\ Gen(s) \in 0 .. refreshes /\ FaultsOK'
<1>1. Gen(None) = 0 /\ Gen(stored) \in 0 .. refreshes /\ refreshes \in Nat /\ Gen(snapshot) \in Nat
      /\ Gen(snapshot) <= Gen(stored)
  BY DEF None, IInv, DatabaseTypes, ServiceTypes, Ordered
<1>2. FaultsOK'
  BY DEF LoadCurrent, Fault, IInv, FaultsOK
<1>3. CASE s = stored
  BY <1>1, <1>2, <1>3 DEF LoadedOK
<1>4. CASE s = None
  BY <1>1, <1>2, <1>4 DEF LoadedOK
<1> QED BY <1>3, <1>4, Zenon

(* The row is read, in the request or in the background. *)
LEMMA ColdLoadGood ==
    ASSUME IInv, NEW r \in Requests, ColdLoad(r) PROVE Good
<1>1. PICK s \in {stored, None} :
         /\ LoadCurrent(s)
         /\ request' = [request EXCEPT ![r] = [pc |-> "finish", expired |-> @.expired, loaded |-> s]]
  BY Zenon DEF ColdLoad
<1> DEFINE q == [pc |-> "finish", expired |-> request[r].expired, loaded |-> s]
<1>2. request[r].pc = "load" /\ UNCHANGED <<database, service, held>>
  BY Zenon DEF ColdLoad
<1>3. LoadedOK(s) /\ Gen(s) \in 0 .. refreshes /\ FaultsOK'
  BY <1>1, LoadCurrentOK, Zenon
<1>4. request' = [request EXCEPT ![r] = q]
  BY <1>1, Zenon DEF IInv, RequestTypes
<1>5. RequestOK(q) /\ q.pc = "finish" /\ q.loaded = s /\ q.expired = request[r].expired
  BY <1>3, Zenon DEF IInv, RequestTypes, RequestOK, RequestPcs
<1> HIDE DEF q
<1>6. UNCHANGED <<stored, refreshes, snapshot, expired, loading, reload, rested, held>>
  BY <1>2, Zenon DEF database, service
<1>7. /\ request' = [x \in Requests |-> request'[x]]
      /\ request'[r] = q /\ \A x \in Requests \ {r} : request'[x] = request[x]
      /\ \A x \in Requests : RequestOK(request[x])'
  BY <1>4, <1>5, <1>6, RequestOne, Zenon
<1>8. RequestTypes' /\ ServiceTypes'
  BY <1>6, <1>7, Zenon DEF IInv, RequestTypes, ServiceTypes
<1>9. \A x \in Requests : Loads(x)' <=> Loads(x)
  BY <1>2, <1>5, <1>7, Zenon DEF Loads
<1>10. OneLoad'
  BY <1>6, <1>9, Zenon DEF IInv, OneLoad
<1>11. Ordered'
  <2>1. \A x \in Requests : request'[x].pc = "finish" => LoadedOK(request'[x].loaded)
    BY <1>3, <1>5, <1>7, Zenon DEF IInv, Ordered
  <2> QED BY <1>6, <2>1, Zenon DEF IInv, Ordered, LoadedOK, None
<1>12. Paced'
  BY <1>5, <1>6, <1>7, Zenon DEF IInv, Paced
<1>13. Pace /\ Gen(snapshot') >= Gen(snapshot) /\ \A x \in Requests : held'[x] >= held[x]
  BY <1>6 DEF Pace, IInv, ServiceTypes, RequestTypes
<1> QED BY <1>2, <1>3, <1>8, <1>10, <1>11, <1>12, <1>13, ServerGood, Zenon

(* The background reload reads the row. *)
LEMMA BackgroundLoadGood ==
    ASSUME IInv, BackgroundLoad PROVE Good
<1>1. PICK s \in {stored, None} : LoadCurrent(s) /\ reload' = [pc |-> "finish", loaded |-> s]
  BY Zenon DEF BackgroundLoad
<1>2. /\ reload.pc = "load"
      /\ UNCHANGED <<database, snapshot, expired, loading, rested, request, held>>
  BY Zenon DEF BackgroundLoad
<1>3. LoadedOK(s) /\ Gen(s) \in 0 .. refreshes /\ FaultsOK'
  BY <1>1, LoadCurrentOK, Zenon
<1>4. reload'.pc = "finish" /\ reload'.loaded = s /\ UNCHANGED <<stored, refreshes>>
  BY <1>1, <1>2, Zenon DEF database
<1>5. RequestTypes' /\ ServiceTypes'
  BY <1>2, <1>3, <1>4, Zenon DEF IInv, RequestTypes, RequestOK, ServiceTypes
<1>6. OneLoad' /\ Paced'
  BY <1>2, <1>4, Zenon DEF IInv, OneLoad, Loads, Paced
<1>7. Ordered'
  BY <1>2, <1>3, <1>4, Zenon DEF IInv, Ordered, LoadedOK, None
<1>8. Pace /\ Gen(snapshot') >= Gen(snapshot) /\ \A x \in Requests : held'[x] >= held[x]
  BY <1>2 DEF Pace, IInv, ServiceTypes, RequestTypes
<1> QED BY <1>2, <1>3, <1>5, <1>6, <1>7, <1>8, ServerGood, Zenon

(* The end of a load: the copy is replaced by something no older, and when *)
(* there is a copy, nobody has seen it expire any more.                    *)
LEMMA FinishGood ==
    ASSUME IInv, NEW loaded, LoadedOK(loaded), Gen(loaded) \in 0 .. refreshes, NEW req,
           \A r \in Requests : RequestOK(req[r]) /\ req[r].pc \notin {"load", "finish"},
           finishReload(loaded, req), UNCHANGED <<database, faults>>,
           reload'.pc = "idle", Gen(reload'.loaded) \in 0 .. refreshes,
           held' \in [Requests -> Nat],
           \A r \in Requests : held'[r] = held[r] \/ (held'[r] = Gen(loaded) /\ loaded # None)
    PROVE Good
<1>1. /\ snapshot' = IF loaded # None THEN loaded ELSE snapshot
      /\ expired' = (expired /\ ~Stamps(loaded)) /\ loading' = FALSE /\ rested' = FALSE
      /\ request' = [r \in Requests |-> [pc |-> IF Wakes(r) THEN "woken" ELSE req[r].pc,
                                         expired |-> req[r].expired /\ ~Stamps(loaded),
                                         loaded |-> req[r].loaded]]
      /\ UNCHANGED <<stored, refreshes>>
  BY Zenon DEF finishReload, database
<1>2. refreshes \in Nat /\ Gen(snapshot) \in Nat /\ Gen(stored) \in Nat /\ Gen(loaded) \in Nat
  BY DEF IInv, DatabaseTypes, ServiceTypes
<1>3. Gen(snapshot') \in Nat /\ Gen(snapshot') >= Gen(snapshot) /\ Gen(snapshot') <= Gen(stored')
      /\ (loaded # None => Gen(snapshot') = Gen(loaded))
  BY <1>1, <1>2 DEF LoadedOK, IInv, Ordered
<1>4. \A r \in Requests : held'[r] >= held[r] /\ held'[r] <= Gen(snapshot')
  <2> TAKE r \in Requests
  <2>1. held[r] \in Nat /\ held[r] <= Gen(snapshot)
    BY Zenon DEF IInv, RequestTypes, Ordered
  <2>2. CASE held'[r] = held[r]
    BY <1>2, <1>3, <2>1, <2>2
  <2>3. CASE held'[r] = Gen(loaded) /\ loaded # None
    BY <1>2, <1>3, <2>1, <2>3
  <2> QED BY <2>2, <2>3, Zenon
<1>5. \A r \in Requests : /\ RequestOK(request[r])' /\ request'[r].pc \notin {"load", "finish"}
                          /\ request'[r].expired => ~Stamps(loaded)
  <2> TAKE r \in Requests
  <2> DEFINE e == req[r].expired /\ ~Stamps(loaded)
             pc == IF Wakes(r) THEN "woken" ELSE req[r].pc
  <2>1. request'[r] = [pc |-> pc, expired |-> e, loaded |-> req[r].loaded]
    BY <1>1, Zenon
  <2>2. e \in BOOLEAN /\ (e => ~Stamps(loaded))
    BY Zenon
  <2>3. pc \in RequestPcs /\ pc \notin {"load", "finish"} /\ Gen(req[r].loaded) \in 0 .. refreshes
    BY Zenon DEF RequestOK, RequestPcs
  <2> HIDE DEF e, pc
  <2>4. request'[r].pc = pc /\ request'[r].expired = e /\ request'[r].loaded = req[r].loaded
    BY <2>1
  <2>5. RequestOK(request[r])'
    BY <1>1, <2>1, <2>2, <2>3, <2>4, ZenonT(30) DEF RequestOK
  <2> QED BY <2>2, <2>3, <2>4, <2>5, Zenon
<1>6. RequestTypes'
  <2>1. request' = [r \in Requests |-> request'[r]]
    BY <1>1, Zenon
  <2> QED BY <1>5, <2>1, Zenon DEF RequestTypes
<1>7. ServiceTypes'
  <2>1. expired' \in BOOLEAN
    BY <1>1, Zenon
  <2>2. loading' \in BOOLEAN /\ rested' \in BOOLEAN
    BY <1>1, Zenon
  <2> QED BY <1>1, <1>3, <2>1, <2>2, Zenon DEF ServiceTypes
<1>8. OneLoad'
  BY <1>1, <1>5, Zenon DEF OneLoad, Loads
<1>9. Ordered'
  BY <1>3, <1>4, <1>5, Zenon DEF Ordered
<1>10. Paced'
  <2>1. ASSUME snapshot' # None PROVE Stamps(loaded)
    BY <1>1, <2>1, Zenon DEF Stamps, None
  <2>2. ASSUME Stamps(loaded) PROVE ~expired' /\ \A r \in Requests : ~request'[r].expired
    BY <1>1, <1>5, <2>2, ZenonT(30)
  <2> QED BY <2>1, <2>2, Zenon DEF Paced, None
<1>11. Pace /\ FaultsOK'
  BY <1>1, Zenon DEF Pace, IInv, FaultsOK
<1> QED BY <1>3, <1>4, <1>6, <1>7, <1>8, <1>9, <1>10, <1>11, ServerGood, Zenon

(* Only the loading request can be about to finish. *)
LEMMA ColdFinishGood ==
    ASSUME IInv, NEW r \in Requests, ColdFinish(r) PROVE Good
<1> DEFINE loaded == request[r].loaded
           req == Back(r)
<1>1. /\ request[r].pc = "finish" /\ finishReload(loaded, req)
      /\ UNCHANGED <<database, reload, faults>>
      /\ IF loaded # None THEN held' = [held EXCEPT ![r] = loaded.generatedAt] ELSE held' = held
  BY Zenon DEF ColdFinish, Answer
<1>2. LoadedOK(loaded) /\ Gen(loaded) \in 0 .. refreshes
  BY <1>1, Zenon DEF IInv, Ordered, RequestTypes, RequestOK
<1>3. \A s \in Requests : RequestOK(req[s]) /\ req[s].pc \notin {"load", "finish"}
  <2>1. req[r] = Idle /\ \A s \in Requests \ {r} : req[s] = request[s]
    BY Zenon DEF Back, IInv, RequestTypes
  <2>2. \A s \in Requests \ {r} : ~Loads(s)
    BY <1>1, Zenon DEF IInv, OneLoad, Loads
  <2> HIDE DEF req
  <2> QED BY <2>1, <2>2, IdleOK, Zenon DEF IInv, RequestTypes, Loads
<1>4. reload'.pc = "idle" /\ Gen(reload'.loaded) \in 0 .. refreshes
  BY <1>1, Zenon DEF IInv, OneLoad, Loads, ServiceTypes
<1>5. held \in [Requests -> Nat] /\ Gen(loaded) \in Nat
  BY <1>2 DEF IInv, RequestTypes, DatabaseTypes
<1> HIDE DEF loaded, req
<1>6. held' \in [Requests -> Nat]
  BY <1>1, <1>5, Zenon
<1>7. \A s \in Requests : held'[s] = held[s] \/ (held'[s] = Gen(loaded) /\ loaded # None)
  BY <1>1, <1>5, Zenon
<1> QED BY <1>1, <1>2, <1>3, <1>4, <1>6, <1>7, FinishGood, Zenon

(* The background reload ends; no request can be loading. *)
LEMMA BackgroundFinishGood ==
    ASSUME IInv, BackgroundFinish PROVE Good
<1> DEFINE loaded == reload.loaded
<1>1. /\ reload.pc = "finish" /\ finishReload(loaded, request) /\ reload' = NoReload
      /\ UNCHANGED <<database, held, faults>>
  BY Zenon DEF BackgroundFinish
<1>2. LoadedOK(loaded) /\ Gen(loaded) \in 0 .. refreshes
  BY <1>1, Zenon DEF IInv, Ordered, ServiceTypes
<1>3. \A s \in Requests : RequestOK(request[s]) /\ request[s].pc \notin {"load", "finish"}
  BY <1>1, Zenon DEF IInv, OneLoad, Loads, RequestTypes
<1>4. reload'.pc = "idle" /\ Gen(reload'.loaded) \in 0 .. refreshes
  BY <1>1 DEF NoReload, None, IInv, DatabaseTypes
<1>5. held' \in [Requests -> Nat] /\ \A s \in Requests : held'[s] = held[s]
  BY <1>1, Zenon DEF IInv, RequestTypes
<1> HIDE DEF loaded
<1> QED BY <1>1, <1>2, <1>3, <1>4, <1>5, FinishGood, Zenon

(* The TTL passes. *)
LEMMA TTLGood ==
    ASSUME IInv, TTLPasses PROVE Good
<1>1. /\ expired' = TRUE /\ rested' = TRUE
      /\ UNCHANGED <<database, snapshot, loading, reload, request, held, faults>>
      /\ UNCHANGED <<stored, refreshes>>
  BY Zenon DEF TTLPasses, database
<1>2. RequestTypes' /\ ServiceTypes' /\ FaultsOK'
  BY <1>1, Zenon DEF IInv, RequestTypes, RequestOK, ServiceTypes, FaultsOK
<1>3. OneLoad' /\ Ordered' /\ Paced'
  BY <1>1, Zenon DEF IInv, OneLoad, Loads, Ordered, LoadedOK, Paced
<1>4. Pace /\ Gen(snapshot') >= Gen(snapshot) /\ \A r \in Requests : held'[r] >= held[r]
  BY <1>1 DEF Pace, IInv, ServiceTypes, RequestTypes
<1> QED BY <1>1, <1>2, <1>3, <1>4, ServerGood, Zenon

-----------------------------------------------------------------------------
(* Every step keeps the invariant, the order and the pace. *)
LEMMA NextGood ==
    ASSUME IInv, [Next]_vars PROVE Good
<1>1. CASE UNCHANGED vars
  <2>1. UNCHANGED <<database, service, request, held, faults>>
    BY <1>1, Zenon DEF vars, database, service
  <2>2. DatabaseTypes' /\ Locked' /\ FaultsOK'
    BY <1>1, Zenon DEF vars, IInv, DatabaseTypes, Locked, FaultsOK
  <2>3. Gen(stored') >= Gen(stored) /\ refreshes' >= refreshes
    BY <1>1 DEF vars, IInv, DatabaseTypes
  <2> QED BY <2>1, <2>2, <2>3, DatabaseGood, Zenon
<1>2. ASSUME NEW p \in Refreshers, Refresh(p) \/ RefreshFails(p) PROVE Good
  BY <1>2, BeginGood, QueriesGood, EndsGood, Zenon DEF Refresh
<1>3. ASSUME NEW r \in Requests, Current(r) \/ Cancelled(r) PROVE Good
  BY <1>3, RequestsGood, StartReloadGood, StartColdLoadGood, ColdLoadGood, ColdFinishGood, Zenon
     DEF Current, Enter
<1> QED BY <1>1, <1>2, <1>3, CensusGood, BackgroundLoadGood, BackgroundFinishGood, TTLGood, Zenon
        DEF Next

(* The invariant holds in every reachable state. *)
LEMMA Inductive == Spec => []IInv
<1>1. IInv /\ [Next]_vars => IInv'
  BY NextGood, Zenon DEF Good
<1> QED BY <1>1, InitOK, PTL DEF Spec

(* The variables of the refresh command, the server and its requests stay  *)
(* within their types and the bounds of the instance.                      *)
THEOREM TypeCorrect == Spec => []TypeOK
<1>1. IInv => TypeOK
  <2> SUFFICES ASSUME IInv PROVE TypeOK
    BY Zenon
  <2>1. refreshes \in Nat /\ refreshes <= MaxRefreshes /\ MaxRefreshes \in Nat
    BY DEF IInv, DatabaseTypes
  <2>2. {stored.generatedAt, snapshot.generatedAt, reload.loaded.generatedAt, refreshes}
          \subseteq 0 .. MaxRefreshes
    BY <2>1 DEF IInv, DatabaseTypes, ServiceTypes, Ordered
  <2>3. {expired, loading, rested} \subseteq BOOLEAN
    BY Zenon DEF IInv, ServiceTypes
  <2>4. \A p \in Refreshers :
         /\ refresher[p].pc \in {"idle", "characters", "milestones", "publish"}
         /\ refresher[p].snapshot.generatedAt \in 0 .. MaxRefreshes
    BY <2>1 DEF IInv, DatabaseTypes, RefreshPcs
  <2>5. \A r \in Requests :
         /\ request[r].pc \in {"idle", "enter", "wait", "woken", "load", "finish"}
         /\ request[r].loaded.generatedAt \in 0 .. MaxRefreshes
    BY <2>1 DEF IInv, RequestTypes, RequestOK, RequestPcs
  <2>6. \A r \in Requests : held[r] \in 0 .. MaxRefreshes
    BY <2>1, <2>2 DEF IInv, RequestTypes, Ordered
  <2> QED BY <2>2, <2>3, <2>4, <2>5, <2>6, Zenon
          DEF TypeOK, IInv, DatabaseTypes, ServiceTypes, FaultsOK
<1> QED BY <1>1, Inductive, PTL

(* Concurrent reloads are coalesced: at most one load of the row is under  *)
(* way in the process, in a request or in the background, and exactly      *)
(* while `loading' is set (Current, finishReload), for any number of       *)
(* requests.                                                               *)
THEOREM CoalescedTheorem == Spec => []Coalesced
<1>1. IInv => Coalesced
  <2> SUFFICES ASSUME IInv PROVE Coalesced
    OBVIOUS
  <2> DEFINE L == {r \in Requests : request[r].pc \in {"load", "finish"}}
  <2>1. CASE L = {}
    <3>1. Cardinality(L) = 0
      BY <2>1, FS_EmptySet, Zenon
    <3>2. loading <=> reload.pc # "idle"
      BY <2>1, Zenon DEF IInv, OneLoad, Loads
    <3> HIDE DEF L
    <3>3. (IF reload.pc = "idle" THEN 0 ELSE 1) = (IF loading THEN 1 ELSE 0)
      BY <3>2, Zenon
    <3> QED BY <3>1, <3>3 DEF Coalesced, L
  <2>2. CASE L # {}
    <3>1. PICK r : r \in L
      BY <2>2, Zenon
    <3>2. L = {r}
      BY <3>1, Zenon DEF IInv, OneLoad, Loads
    <3>3. Cardinality(L) = 1
      BY <3>2, FS_Singleton, Zenon
    <3>4. loading /\ reload.pc = "idle"
      BY <3>1, Zenon DEF IInv, OneLoad, Loads
    <3> HIDE DEF L
    <3> QED BY <3>3, <3>4 DEF Coalesced, L
  <2> QED BY <2>1, <2>2, Zenon
<1> QED BY <1>1, Inductive, PTL

(* Neither the stored row, nor the process's copy, nor what one client is  *)
(* sent is ever replaced by an older generation (Refresh, finishReload,    *)
(* Current), whatever refreshes, reloads, failures and requests overlap.   *)
THEOREM NeverOlderTheorem == Spec => NeverOlder
<1>1. IInv /\ [Next]_vars =>
        [/\ stored'.generatedAt >= stored.generatedAt
         /\ snapshot'.generatedAt >= snapshot.generatedAt
         /\ \A r \in Requests : held'[r] >= held[r]]_vars
  BY NextGood, Zenon DEF Good, Forward
<1> QED BY <1>1, Inductive, PTL DEF Spec, NeverOlder

(* A load that starts while there is a copy starts at least a TTL after    *)
(* the end of the load before it, failed loads included (loadedAt).        *)
THEOREM ReloadPacedTheorem == Spec => ReloadPaced
<1>1. IInv /\ [Next]_vars => [~loading /\ loading' /\ snapshot # None => rested]_vars
  BY NextGood, Zenon DEF Good, Pace
<1> QED BY <1>1, Inductive, PTL DEF Spec, ReloadPaced

-----------------------------------------------------------------------------
(* What the pages' sums compute.                                             *)

HIDE StatsBounds DEF Gen

(* A nonempty set of naturals has a least element.                         *)
LEMMA Least ==
    ASSUME NEW T \in SUBSET Nat, T # {}
    PROVE  \E n \in T : \A m \in T : n <= m
<1>1. PICK n \in T : \A m \in T : <<m, n>> \notin OpToRel(<, Nat)
  BY WFMin, NatLessThanWellFounded, Zenon
<1>2. \A m \in T : ~(m < n)
  BY <1>1, Zenon DEF OpToRel
<1> QED BY <1>2

(* Induction over the naturals, for a set.                                 *)
LEMMA Induction ==
    ASSUME NEW G, 0 \in G, \A n \in Nat : n \in G => n + 1 \in G
    PROVE  Nat \subseteq G
<1> SUFFICES ASSUME Nat \ G # {} PROVE FALSE
  BY Zenon
<1>1. PICK n \in Nat \ G : \A m \in Nat \ G : n <= m
  BY Least, Zenon
<1>2. n - 1 \in Nat /\ n - 1 \notin Nat \ G
  BY <1>1
<1> QED BY <1>1, <1>2

(* SumCounts, unfolded: the recursive function the library folds with.     *)
Pick(s) == CHOOSE x \in s : TRUE
SumDef(it, s) == IF s = {} THEN 0 ELSE Pick(s).count + it[s \ {Pick(s)}]
IsSum(it, S) == it = [s \in SUBSET S |-> SumDef(it, s)]

(* The sum is the value of that function at the whole set.                 *)
LEMMA SumUnfolds ==
    ASSUME NEW S
    PROVE  SumCounts(S) = (CHOOSE it : IsSum(it, S))[S]
  BY Zenon DEF SumCounts, MapThenSumSet, MapThenFoldSet, IsSum, SumDef, Pick

(* The element the fold takes first is one of the set.                     *)
LEMMA PickOne == ASSUME NEW s, s # {} PROVE Pick(s) \in s
  BY Zenon DEF Pick

(* Taking one element out of a finite set makes it smaller by one.         *)
LEMMA Smaller ==
    ASSUME NEW s, IsFiniteSet(s), NEW x \in s
    PROVE  /\ IsFiniteSet(s \ {x}) /\ Cardinality(s) \in Nat /\ Cardinality(s \ {x}) \in Nat
           /\ Cardinality(s \ {x}) = Cardinality(s) - 1
<1>1. IsFiniteSet(s \ {x}) /\ Cardinality(s \ {x}) = Cardinality(s) - 1
  BY FS_RemoveElement, Zenon
<1> QED BY <1>1, FS_CardinalityType, Zenon

(* The recursion over the subsets of a finite set has a solution.          *)
LEMMA SumExists ==
    ASSUME NEW S, IsFiniteSet(S)
    PROVE  IsSum(CHOOSE it : IsSum(it, S), S)
<1> DEFINE Upto(f, n) == \A s \in SUBSET S : Cardinality(s) <= n => f[s] = SumDef(f, s)
           G == {n \in Nat : \E f : f = [s \in SUBSET S |-> f[s]] /\ Upto(f, n)}
<1>0. \A s \in SUBSET S : IsFiniteSet(s) /\ Cardinality(s) \in Nat /\ Cardinality(s) <= Cardinality(S)
  BY FS_Subset, FS_CardinalityType, Zenon
<1>1. 0 \in G
  <2> DEFINE f == [s \in SUBSET S |-> 0]
  <2>1. \A s \in SUBSET S : Cardinality(s) <= 0 => s = {}
    BY <1>0, FS_EmptySet
  <2>2. Upto(f, 0)
    BY <2>1, Zenon DEF SumDef
  <2>3. f = [s \in SUBSET S |-> f[s]]
    BY Zenon
  <2> QED BY <2>2, <2>3, Zenon
<1>2. ASSUME NEW n \in Nat, n \in G PROVE n + 1 \in G
  <2>1. PICK f : f = [s \in SUBSET S |-> f[s]] /\ Upto(f, n)
    BY <1>2, Zenon
  <2> DEFINE g == [s \in SUBSET S |-> SumDef(f, s)]
  <2>2. ASSUME NEW s \in SUBSET S, Cardinality(s) <= n + 1 PROVE g[s] = SumDef(g, s)
    <3>1. CASE s = {}
      BY <3>1, Zenon DEF SumDef
    <3>2. CASE s # {}
      <4> DEFINE t == s \ {Pick(s)}
      <4>1. t \in SUBSET S /\ Cardinality(t) <= n
        BY <1>0, <2>2, <3>2, PickOne, Smaller
      <4>2. f[t] = SumDef(f, t)
        BY <2>1, <4>1, Zenon
      <4>3. g[t] = f[t]
        BY <4>1, <4>2, Zenon
      <4>4. g[s] = Pick(s).count + f[t]
        BY <3>2, Zenon DEF SumDef
      <4>5. SumDef(g, s) = Pick(s).count + g[t]
        BY <3>2, Zenon DEF SumDef
      <4> QED BY <4>3, <4>4, <4>5, Zenon
    <3> QED BY <3>1, <3>2, Zenon
  <2>3. g = [s \in SUBSET S |-> g[s]]
    BY Zenon
  <2> HIDE DEF g
  <2>4. Upto(g, n + 1)
    BY <2>2, Zenon
  <2> HIDE DEF Upto
  <2> QED BY <2>3, <2>4
<1> HIDE DEF G
<1>3. Cardinality(S) \in G
  BY <1>0, <1>1, <1>2, Induction, Zenon
<1>4. PICK f : f = [s \in SUBSET S |-> f[s]] /\ Upto(f, Cardinality(S))
  BY <1>3, Zenon DEF G
<1>5. \A s \in SUBSET S : f[s] = SumDef(f, s)
  BY <1>0, <1>4, Zenon
<1>6. IsSum(f, S)
  BY <1>4, <1>5, Zenon DEF IsSum
<1> QED BY <1>6, Zenon

(* So the sum is computed by taking one row after the other.               *)
LEMMA SumRecursion ==
    ASSUME NEW S, IsFiniteSet(S)
    PROVE  \E it : /\ SumCounts(S) = it[S] /\ it[{}] = 0
                   /\ \A s \in SUBSET S : s # {} => it[s] = Pick(s).count + it[s \ {Pick(s)}]
<1> DEFINE it == CHOOSE it : IsSum(it, S)
<1>1. IsSum(it, S) /\ SumCounts(S) = it[S]
  BY SumExists, SumUnfolds, Zenon
<1> HIDE DEF it
<1>2. \A s \in SUBSET S : it[s] = SumDef(it, s)
  BY <1>1, Zenon DEF IsSum
<1>3. it[{}] = 0
  BY <1>2, Zenon DEF SumDef
<1> QED BY <1>1, <1>2, <1>3, Zenon DEF SumDef

(* The sum of one row is its count.                                        *)
LEMMA SumOfOne == ASSUME NEW y, y.count \in Nat PROVE SumCounts({y}) = y.count
<1>1. IsFiniteSet({y}) /\ {y} # {} /\ {y} \ {y} = {}
  BY FS_Singleton, Zenon
<1>2. Pick({y}) = y
  BY PickOne, Zenon
<1>3. PICK it : /\ SumCounts({y}) = it[{y}] /\ it[{}] = 0
                /\ it[{y}] = Pick({y}).count + it[{y} \ {Pick({y})}]
  BY <1>1, SumRecursion, Zenon
<1> QED BY <1>1, <1>2, <1>3

(* Rows that each count the members of V they stand for add up to V.       *)
LEMMA SumOfFibres ==
    ASSUME NEW V, IsFiniteSet(V), NEW f, f = [i \in V |-> f[i]],
           \A i \in V : f[i].count = Cardinality({j \in V : f[j] = f[i]})
    PROVE  SumCounts({f[i] : i \in V}) = Cardinality(V)
<1> DEFINE Img(W) == {f[i] : i \in W}
<1>0. \A W \in SUBSET V : IsFiniteSet(W) /\ Cardinality(W) \in Nat
  BY FS_Subset, FS_CardinalityType, Zenon
<1>1. IsFiniteSet(Img(V))
  <2>1. f \in Surjection(V, Img(V))
    BY Zenon DEF Surjection
  <2> QED BY <2>1, FS_Surjection, Zenon
<1>2. PICK it : /\ SumCounts(Img(V)) = it[Img(V)] /\ it[{}] = 0
                /\ \A s \in SUBSET Img(V) : s # {} => it[s] = Pick(s).count + it[s \ {Pick(s)}]
  <2> HIDE DEF Img
  <2> QED BY <1>1, SumRecursion, Zenon
<1> DEFINE Full(W) == \A i \in W, j \in V : f[j] = f[i] => j \in W
           B == {n \in Nat : \E W \in SUBSET V : /\ Full(W) /\ Cardinality(W) = n
                                                 /\ it[Img(W)] # Cardinality(W)}
<1>3. SUFFICES ASSUME B # {} PROVE FALSE
  BY <1>0, <1>2, Zenon
<1>4. PICK n \in B : \A m \in B : n <= m
  BY <1>3, Least, Zenon
<1>5. PICK W \in SUBSET V : /\ Full(W) /\ Cardinality(W) = n /\ it[Img(W)] # Cardinality(W)
  BY <1>4, Zenon
<1>6. Img(W) # {} /\ Img(W) \in SUBSET Img(V)
  <2>1. W # {}
    <3>1. Img({}) = {} /\ Cardinality({}) = 0
      BY FS_EmptySet, Zenon
    <3> HIDE DEF Img
    <3> QED BY <1>2, <1>5, <3>1, Zenon
  <2> QED BY <2>1, Zenon
<1>7. it[Img(W)] = Pick(Img(W)).count + it[Img(W) \ {Pick(Img(W))}]
  <2> HIDE DEF Img
  <2> QED BY <1>2, <1>6, Zenon
<1>8. PICK i \in W : Pick(Img(W)) = f[i]
  BY <1>6, PickOne, Zenon
<1> DEFINE F == {j \in V : f[j] = f[i]}
           X == W \ F
<1>9. F \subseteq W /\ i \in F /\ X \in SUBSET V /\ F \in SUBSET V
  BY <1>5, Zenon
<1>10. Img(X) = Img(W) \ {f[i]} /\ Full(X) /\ f[i].count = Cardinality(F)
  BY <1>5, <1>9
<1>11. Cardinality(X) = Cardinality(W) - Cardinality(F) /\ Cardinality(F) # 0
  <2>1. W \cap F = F /\ X = W \ F /\ F # {}
    BY <1>9, Zenon
  <2>2. IsFiniteSet(W) /\ IsFiniteSet(F)
    BY <1>0, <1>9, Zenon
  <2> HIDE DEF F, X
  <2>3. Cardinality(W \ F) = Cardinality(W) - Cardinality(W \cap F)
    BY <2>2, FS_Difference, Zenon
  <2>4. Cardinality(F) # 0
    BY <2>1, <2>2, FS_EmptySet, Zenon
  <2> QED BY <2>1, <2>3, <2>4, Zenon
<1>12. Cardinality(X) \in Nat /\ Cardinality(W) \in Nat /\ Cardinality(F) \in Nat
  BY <1>0, <1>9, Zenon
<1>13. it[Img(W)] = Cardinality(F) + it[Img(X)]
  BY <1>7, <1>8, <1>10, Zenon
<1> HIDE DEF F, X, Img, Full, B
<1>14. it[Img(X)] = Cardinality(X)
  <2>1. Cardinality(X) \notin B
    BY <1>4, <1>5, <1>11, <1>12
  <2> QED BY <1>9, <1>10, <1>12, <2>1, Zenon DEF B
<1> QED BY <1>5, <1>11, <1>12, <1>13, <1>14

-----------------------------------------------------------------------------
(* The series of new characters.                                             *)


(* The row of a world and a day in the series of new characters. *)
DayOf(view, world, day) ==
    [scope |-> ScopeAt("world", world), day |-> day,
     count |-> Cardinality({i \in InWorld(view, world) : view[i].joined = day})]

(* The scope of a world.                                                   *)
LEMMA WorldScope ==
    ASSUME NEW w
    PROVE  /\ ScopeAt("world", w) = [region |-> "", datacenter |-> "", world |-> w]
           /\ ScopeAt("world", w).world = w
  BY Zenon DEF ScopeAt, NoScope

(* A row is in the series of new characters exactly when some character    *)
(* of its world joined on its day, since the lookback.                     *)
LEMMA InSeries ==
    ASSUME NEW view, NEW today, NEW d
    PROVE  d \in NewCharacters(view, today) <=>
             \E w \in Worlds(view), i \in DOMAIN view :
                /\ i \in InWorld(view, w) /\ view[i].joined # NoDay
                /\ view[i].joined >= FirstDay(today) /\ d = DayOf(view, w, view[i].joined)
<1>1. \A w : InWorld(view, w) \subseteq DOMAIN view
  BY Zenon DEF InWorld
<1> DEFINE R == UNION {{<<w, e>> : e \in ReportedDays(view, w, today)} : w \in Worlds(view)}
<1>2. NewCharacters(view, today) = {DayOf(view, r[1], r[2]) : r \in R}
  BY Zenon DEF NewCharacters, DayOf
<1>3. \A r : r \in R <=> \E w \in Worlds(view) : \E e \in ReportedDays(view, w, today) : r = <<w, e>>
  OBVIOUS
<1> HIDE DEF R
<1>4. d \in NewCharacters(view, today) <=>
        \E w \in Worlds(view) : \E e \in ReportedDays(view, w, today) : d = DayOf(view, w, e)
  <2>1. ASSUME d \in NewCharacters(view, today)
        PROVE  \E w \in Worlds(view) : \E e \in ReportedDays(view, w, today) : d = DayOf(view, w, e)
    <3>1. PICK r \in R : d = DayOf(view, r[1], r[2])
      BY <1>2, <2>1, Zenon
    <3>2. PICK w \in Worlds(view) : \E e \in ReportedDays(view, w, today) : r = <<w, e>>
      BY <1>3, Zenon
    <3>3. PICK e \in ReportedDays(view, w, today) : r = <<w, e>>
      BY <3>2, Zenon
    <3> QED BY <3>1, <3>3, Zenon
  <2>2. ASSUME NEW w \in Worlds(view), NEW e \in ReportedDays(view, w, today), d = DayOf(view, w, e)
        PROVE  d \in NewCharacters(view, today)
    <3>1. <<w, e>> \in R
      BY <1>3, Zenon
    <3>2. DayOf(view, <<w, e>>[1], <<w, e>>[2]) = d
      BY <2>2, Zenon
    <3> QED BY <1>2, <3>1, <3>2, Zenon
  <2> QED BY <2>1, <2>2, Zenon
<1>5. \A w, e : e \in ReportedDays(view, w, today) <=>
         \E i \in InWorld(view, w) : /\ view[i].joined # NoDay
                                     /\ view[i].joined >= FirstDay(today) /\ e = view[i].joined
  BY Zenon DEF ReportedDays
<1> QED BY <1>1, <1>4, <1>5

(* A row of the series is that of some character.                          *)
LEMMA SeriesRow ==
    ASSUME NEW view, NEW today, NEW d \in NewCharacters(view, today)
    PROVE  \E w \in Worlds(view), i \in DOMAIN view :
              i \in InWorld(view, w) /\ view[i].joined # NoDay /\ d = DayOf(view, w, view[i].joined)
  BY InSeries

(* The rows of the series of the worlds S in a window of days, and the *)
(* characters with a key in S that joined in it. *)
RowsOf(view, today, S, from, to) ==
    {d \in NewCharacters(view, today) : d.scope.world \in S /\ d.day >= from /\ d.day <= to}
JoinedOf(view, key, S, from, to) ==
    {i \in DOMAIN view : key[i] \in S /\ view[i].joined # NoDay /\ view[i].joined \in from .. to}

(* Every character counted under a key in S is counted under that one only. *)
Keyed(view, key, S) ==
    /\ \A i \in DOMAIN view : key[i] \in S => i \in InWorld(view, key[i]) /\ key[i] \in Worlds(view)
    /\ \A w \in S, i \in DOMAIN view : i \in InWorld(view, w) => key[i] = w

(* The counts of those rows add up to those characters.                    *)
LEMMA WindowSum ==
    ASSUME NEW view, IsFiniteSet(DOMAIN view), \A i \in DOMAIN view : view[i].joined \in Int,
           NEW today \in Int, NEW from \in Int, NEW to \in Int, from >= FirstDay(today),
           NEW S, NEW key, Keyed(view, key, S)
    PROVE  SumCounts(RowsOf(view, today, S, from, to)) = Cardinality(JoinedOf(view, key, S, from, to))
<1> DEFINE V == {i \in DOMAIN view : key[i] \in S /\ view[i].joined # NoDay
                                       /\ view[i].joined \in from .. to}
           D == {d \in NewCharacters(view, today) :
                        d.scope.world \in S /\ d.day >= from /\ d.day <= to}
           f == [i \in V |-> DayOf(view, key[i], view[i].joined)]
<1> USE DEF Keyed
<1>0. FirstDay(today) \in Int
  BY WindowAssumption, SMTT(30) DEF FirstDay
<1>1. IsFiniteSet(V) /\ f = [i \in V |-> f[i]]
  BY FS_Subset, Zenon
<1>2. \A w, e : DayOf(view, w, e).scope.world = w /\ DayOf(view, w, e).day = e
  BY WorldScope, Zenon DEF DayOf
<1>3. D \subseteq {f[i] : i \in V}
  <2> SUFFICES ASSUME NEW d \in D PROVE \E i \in V : d = f[i]
    BY Zenon
  <2>1. PICK w \in Worlds(view), i \in DOMAIN view :
           i \in InWorld(view, w) /\ view[i].joined # NoDay /\ d = DayOf(view, w, view[i].joined)
    BY SeriesRow, SMTT(30)
  <2>2. w \in S /\ view[i].joined >= from /\ view[i].joined <= to
    BY <1>2, <2>1, SMTT(30)
  <2>3. key[i] = w
    BY <2>1, <2>2, Zenon
  <2> QED BY <2>1, <2>2, <2>3
<1>4. {f[i] : i \in V} \subseteq D
  <2> SUFFICES ASSUME NEW i \in V PROVE f[i] \in D
    BY Zenon
  <2>1. view[i].joined >= FirstDay(today)
    BY <1>0
  <2>2. f[i] \in NewCharacters(view, today)
    BY <2>1, InSeries, Zenon
  <2> QED BY <1>2, <2>2
<1>5. \A i \in V : f[i].count = Cardinality({j \in V : f[j] = f[i]})
  <2> SUFFICES ASSUME NEW i \in V
               PROVE  {j \in InWorld(view, key[i]) : view[j].joined = view[i].joined}
                        = {j \in V : f[j] = f[i]}
    BY Zenon DEF DayOf
  <2>1. \A j \in V : f[j] = f[i] <=> key[j] = key[i] /\ view[j].joined = view[i].joined
    BY <1>2
  <2>2. \A j : j \in InWorld(view, key[i]) => j \in DOMAIN view /\ key[j] = key[i]
    BY Zenon DEF InWorld
  <2>3. \A j \in V : key[j] = key[i] => j \in InWorld(view, key[i])
    BY Zenon
  <2>4. \A j \in DOMAIN view : key[j] = key[i] /\ view[j].joined = view[i].joined => j \in V
    BY Zenon
  <2> HIDE DEF f, V
  <2> QED BY <2>1, <2>2, <2>3, <2>4, Zenon
<1>6. D = {f[i] : i \in V}
  BY <1>3, <1>4, Zenon
<1> HIDE DEF V, D, f
<1>7. SumCounts({f[i] : i \in V}) = Cardinality(V)
  BY <1>1, <1>5, SumOfFibres
<1> QED BY <1>6, <1>7, Zenon DEF V, D, RowsOf, JoinedOf


(* The worlds of a scope, from the most specific name it has. *)
LEMMA WorldSetOf ==
    ASSUME NEW s, NEW v, v # ""
    PROVE  /\ s.world = v => worldSet(s) = {v} /\ s # NoScope
           /\ s.world = "" /\ s.datacenter = v => worldSet(s) = WorldsForDatacenter(v) /\ s # NoScope
           /\ s.world = "" /\ s.datacenter = "" /\ s.region = v
                => worldSet(s) = WorldsForRegion(v) /\ s # NoScope
<1>1. NoScope.region = "" /\ NoScope.datacenter = "" /\ NoScope.world = ""
  BY Zenon DEF NoScope
<1> QED BY <1>1, Zenon DEF worldSet

(* A row whose names are all known to the hierarchy, and none empty. *)
ProfileOK(c) ==
    /\ c.joined \in Int
    /\ c.world # "" /\ c.datacenter # "" /\ c.region # ""
    /\ c.world \in DOMAIN worldDatacenters /\ c.datacenter = worldDatacenters[c.world]
    /\ c.region = RegionForDatacenter(c.datacenter)

(* The worlds of a scope some character has are those of its characters.   *)
LEMMA ScopeWorlds ==
    ASSUME NEW view, \A i \in DOMAIN view : ProfileOK(view[i]),
           NEW level \in Levels, NEW k \in DOMAIN view
    PROVE  LET scope == ScopeAt(level, ValueAt(view[k], level))
           IN  /\ scope # NoScope
               /\ \A i \in DOMAIN view :
                    view[i].world \in worldSet(scope) <=>
                      ValueAt(view[i], level) = ValueAt(view[k], level)
<1> DEFINE value == ValueAt(view[k], level)
           scope == ScopeAt(level, value)
<1>1. CASE level = "world"
  <2>1. value = view[k].world /\ value # ""
    BY <1>1, Zenon DEF ValueAt, ProfileOK
  <2>2. scope = [region |-> "", datacenter |-> "", world |-> value]
    BY <1>1, WorldScope, Zenon
  <2> HIDE DEF scope, value
  <2>3. scope.region = "" /\ scope.datacenter = "" /\ scope.world = value
    BY <2>2, Zenon
  <2>4. worldSet(scope) = {value} /\ scope # NoScope
    BY <2>1, <2>3, WorldSetOf, Zenon
  <2> QED BY <1>1, <2>1, <2>4, Zenon DEF ValueAt, scope, value
<1>2. CASE level = "datacenter"
  <2>1. value = view[k].datacenter /\ value # ""
    BY <1>2, Zenon DEF ValueAt, ProfileOK
  <2>2. scope = [region |-> "", datacenter |-> value, world |-> ""]
    BY <1>2, Zenon DEF ScopeAt, NoScope
  <2> HIDE DEF scope, value
  <2>3. scope.region = "" /\ scope.datacenter = value /\ scope.world = ""
    BY <2>2, Zenon
  <2>4. worldSet(scope) = WorldsForDatacenter(value) /\ scope # NoScope
    BY <2>1, <2>3, WorldSetOf, Zenon
  <2> QED BY <1>2, <2>1, <2>4, Zenon DEF ValueAt, WorldsForDatacenter, ProfileOK, scope, value
<1>3. CASE level = "region"
  <2>1. value = view[k].region /\ value # ""
    BY <1>3, Zenon DEF ValueAt, ProfileOK
  <2>2. scope = [region |-> value, datacenter |-> "", world |-> ""]
    BY <1>3, Zenon DEF ScopeAt, NoScope
  <2> HIDE DEF scope, value
  <2>3. scope.region = value /\ scope.datacenter = "" /\ scope.world = ""
    BY <2>2, Zenon
  <2>4. worldSet(scope) = WorldsForRegion(value) /\ scope # NoScope
    BY <2>1, <2>3, WorldSetOf, Zenon
  <2> QED BY <1>3, <2>1, <2>4, Zenon DEF ValueAt, WorldsForRegion, ProfileOK, scope, value
<1> QED BY <1>1, <1>2, <1>3, Zenon DEF Levels

(* The rows of the series the page of a scope sums for a window.           *)
SelectedRows(view, today, scope, from, to) ==
    {d \in NewCharacters(view, today) : Selected(d, scope) /\ d.day >= from /\ d.day <= to}

(* They add up to the characters of the scope that joined in the window.   *)
LEMMA ScopeSum ==
    ASSUME NEW view, IsFiniteSet(DOMAIN view), \A i \in DOMAIN view : ProfileOK(view[i]),
           NEW level \in Levels \union {"global"}, NEW k \in DOMAIN view,
           NEW today \in Int, NEW from \in Int, NEW to \in Int, from >= FirstDay(today)
    PROVE  SumCounts(SelectedRows(view, today, ScopeAt(level, ValueAt(view[k], level)), from, to)) =
             Joined(view, level, ValueAt(view[k], level), from, to)
<1> DEFINE value == ValueAt(view[k], level)
           scope == ScopeAt(level, value)
           New == NewCharacters(view, today)
<1>0. /\ \A i \in DOMAIN view : view[i].joined \in Int /\ view[i].world # ""
      /\ \A d \in New : \E w \in Worlds(view) : d.scope = ScopeAt("world", w)
  <2>1. \A i \in DOMAIN view : view[i].joined \in Int /\ view[i].world # ""
    BY Zenon DEF ProfileOK
  <2>2. \A w, e : DayOf(view, w, e).scope = ScopeAt("world", w)
    BY Zenon DEF DayOf
  <2>3. \A d \in New : \E w \in Worlds(view) : d.scope = ScopeAt("world", w)
    BY <2>2, InSeries
  <2> QED BY <2>1, <2>3, Zenon
<1>1. CASE level = "global"
  <2> DEFINE key == [i \in DOMAIN view |-> ""]
             S == {""}
  <2>1. \A d \in New : Selected(d, scope) <=> d.scope.world \in S
    <3>1. scope = NoScope
      BY <1>1, Zenon DEF ScopeAt
    <3>2. \A w : ScopeAt("world", w) = NoScope <=> w = ""
      <4> SUFFICES ASSUME NEW w PROVE ScopeAt("world", w) = NoScope <=> w = ""
        BY Zenon
      <4>1. NoScope.world = "" /\ NoScope = [region |-> "", datacenter |-> "", world |-> ""]
        BY Zenon DEF NoScope
      <4> QED BY <4>1, WorldScope, Zenon
    <3>3. \A d \in New : d.scope = NoScope <=> d.scope.world = ""
      <4> SUFFICES ASSUME NEW d \in New PROVE d.scope = NoScope <=> d.scope.world = ""
        BY Zenon
      <4>1. PICK w \in Worlds(view) : d.scope = ScopeAt("world", w)
        BY <1>0, Zenon
      <4>2. ScopeAt("world", w).world = w
        BY WorldScope, Zenon
      <4>3. ScopeAt("world", w) = NoScope <=> w = ""
        BY <3>2, Zenon
      <4> HIDE DEF New
      <4> QED BY <4>1, <4>2, <4>3, Zenon
    <3> QED BY <3>1, <3>3, Zenon DEF Selected
  <2>2. \A i \in DOMAIN view : key[i] \in S => i \in InWorld(view, key[i]) /\ key[i] \in Worlds(view)
    BY Zenon DEF InWorld, Worlds
  <2>3. \A w \in S, i \in DOMAIN view : i \in InWorld(view, w) => key[i] = w
    BY Zenon
  <2>4. \A i \in DOMAIN view : ValueAt(view[i], level) = value /\ key[i] \in S
    BY <1>1, Zenon DEF ValueAt
  <2> HIDE DEF key, S, scope, value
  <2>5. SumCounts(RowsOf(view, today, S, from, to)) = Cardinality(JoinedOf(view, key, S, from, to))
    <3>1. Keyed(view, key, S)
      BY <2>2, <2>3, Zenon DEF Keyed
    <3>2. \A i \in DOMAIN view : view[i].joined \in Int
      BY <1>0, Zenon
    <3> HIDE DEF New
    <3> QED BY <3>1, <3>2, WindowSum
  <2>6. {d \in New : Selected(d, scope) /\ d.day >= from /\ d.day <= to} = RowsOf(view, today, S, from, to)
    BY <2>1, Zenon DEF RowsOf
  <2>7. JoinedOf(view, key, S, from, to)
          = {i \in DOMAIN view : /\ ValueAt(view[i], level) = value /\ view[i].joined # NoDay
                                 /\ view[i].joined \in from .. to}
    BY <2>4, Zenon DEF JoinedOf
  <2> QED BY <2>5, <2>6, <2>7, Zenon DEF Joined, SelectedRows, scope, value
<1>2. CASE level \in Levels
  <2> DEFINE key == [i \in DOMAIN view |-> view[i].world]
             S == worldSet(scope) \ {""}
  <2>1. /\ scope # NoScope
        /\ \A i \in DOMAIN view : view[i].world \in worldSet(scope) <=> ValueAt(view[i], level) = value
    BY <1>2, ScopeWorlds, Zenon
  <2>2. \A d \in New : Selected(d, scope) <=> d.scope.world \in S
    BY <2>1, Zenon DEF Selected
  <2>3. \A i \in DOMAIN view : key[i] \in S => i \in InWorld(view, key[i]) /\ key[i] \in Worlds(view)
    BY Zenon DEF InWorld, Worlds
  <2>4. \A w \in S, i \in DOMAIN view : i \in InWorld(view, w) => key[i] = w
    BY Zenon DEF InWorld
  <2>5. \A i \in DOMAIN view : key[i] \in S <=> ValueAt(view[i], level) = value
    BY <1>0, <2>1, Zenon
  <2> HIDE DEF key, S, scope, value
  <2>6. SumCounts(RowsOf(view, today, S, from, to)) = Cardinality(JoinedOf(view, key, S, from, to))
    <3>1. Keyed(view, key, S)
      BY <2>3, <2>4 DEF Keyed
    <3>2. \A i \in DOMAIN view : view[i].joined \in Int
      BY <1>0, Zenon
    <3> HIDE DEF New
    <3> QED BY <3>1, <3>2, WindowSum
  <2>7. {d \in New : Selected(d, scope) /\ d.day >= from /\ d.day <= to} = RowsOf(view, today, S, from, to)
    BY <2>2 DEF RowsOf
  <2>8. JoinedOf(view, key, S, from, to)
          = {i \in DOMAIN view : /\ ValueAt(view[i], level) = value /\ view[i].joined # NoDay
                                 /\ view[i].joined \in from .. to}
    BY <2>5, Zenon DEF JoinedOf
  <2> QED BY <2>6, <2>7, <2>8, Zenon DEF Joined, SelectedRows, scope, value
<1> QED BY <1>1, <1>2, Zenon

(* The two windows of a page, for every scope that some character has.     *)
ExactAt(s, view, level, value) ==
    LET shown == NewCharactersWindow(s, ScopeAt(level, value), Today)
    IN  /\ shown.current = Joined(view, level, value, Today - Window + 1, Today)
        /\ shown.previous = Joined(view, level, value, Today - 2 * Window + 1, Today - Window)

(* They are exact when the lookback covers them.                           *)
LEMMA WindowsOK ==
    ASSUME NEW view, IsFiniteSet(DOMAIN view), \A i \in DOMAIN view : ProfileOK(view[i]),
           Today \in Int, Lookback >= 2 * Window,
           NEW s, s.newCharacters = NewCharacters(view, Today),
           NEW level \in Levels \union {"global"}, NEW k \in DOMAIN view
    PROVE  ExactAt(s, view, level, ValueAt(view[k], level))
<1> DEFINE value == ValueAt(view[k], level)
           scope == ScopeAt(level, value)
           shown == NewCharactersWindow(s, scope, Today)
           New == NewCharacters(view, Today)
           a == Today - Window + 1
           b == Today - 2 * Window + 1
           c == Today - Window
<1>0. /\ a \in Int /\ b \in Int /\ c \in Int /\ a >= FirstDay(Today) /\ b >= FirstDay(Today)
      /\ a = Today - (Window - 1) /\ b = Today - (2 * Window - 1)
  BY WindowAssumption DEF FirstDay
<1>1. \A d \in New : d.day \in Int
  <2>1. \A w, e : DayOf(view, w, e).day = e
    BY Zenon DEF DayOf
  <2>2. \A i \in DOMAIN view : view[i].joined \in Int
    BY Zenon DEF ProfileOK
  <2> SUFFICES ASSUME NEW d \in New PROVE d.day \in Int
    BY Zenon
  <2>3. PICK w \in Worlds(view), i \in DOMAIN view : d = DayOf(view, w, view[i].joined)
    BY SeriesRow, SMTT(30)
  <2> QED BY <2>1, <2>2, <2>3, Zenon
<1>2. /\ shown.current = SumCounts({d \in {e \in New : Selected(e, scope)} :
                                       d.day >= Today - (Window - 1) /\ d.day <= Today})
      /\ shown.previous = SumCounts({d \in {e \in New : Selected(e, scope)} :
                            d.day >= Today - (2 * Window - 1) /\ d.day < Today - (Window - 1)})
  BY Zenon DEF NewCharactersWindow
<1>3. {d \in {e \in New : Selected(e, scope)} :
          d.day >= Today - (Window - 1) /\ d.day <= Today}
        = SelectedRows(view, Today, scope, a, Today)
  BY <1>0, Zenon DEF SelectedRows
<1>4. {d \in {e \in New : Selected(e, scope)} :
          d.day >= Today - (2 * Window - 1) /\ d.day < Today - (Window - 1)}
        = SelectedRows(view, Today, scope, b, c)
  <2>1. \A d \in New : d.day < Today - (Window - 1) <=> d.day <= c
    BY <1>1, WindowAssumption
  <2> HIDE DEF scope, c
  <2> QED BY <1>0, <2>1, Zenon DEF SelectedRows
<1>5. SumCounts(SelectedRows(view, Today, scope, a, Today))
        = Joined(view, level, value, a, Today)
  <2> HIDE DEF a, New
  <2>1. a \in Int /\ Today \in Int /\ a >= FirstDay(Today)
    BY <1>0, Zenon
  <2> QED BY <2>1, ScopeSum, Zenon
<1>6. SumCounts(SelectedRows(view, Today, scope, b, c))
        = Joined(view, level, value, b, c)
  <2> HIDE DEF b, c
  <2> QED BY <1>0, ScopeSum
<1> HIDE DEF New, scope, value, shown, a, b, c
<1>7. shown.current = Joined(view, level, value, a, Today) /\ shown.previous = Joined(view, level, value, b, c)
  BY <1>2, <1>3, <1>4, <1>5, <1>6, Zenon
<1> QED BY <1>7, Zenon DEF ExactAt, scope, value, shown, a, b, c
-----------------------------------------------------------------------------
(* The populations, and the snapshot of one moment.                          *)

(* The keys of the population rows and of the breakdown rows. *)
PopulationKeys(view) == {<<l, view[i][l]>> : l \in Levels, i \in DOMAIN view}
BreakdownKeys(view) ==
    {<<l, ValueAt(view[i], l), d, KeyOf(view[i], d)>> :
       l \in Levels \union {"global"}, d \in Dimensions, i \in DOMAIN view}
PopulationRow(view, r) ==
    Group(view, r[1], NoScope, r[1], <<r[2]>>, {i \in DOMAIN view : view[i][r[1]] = r[2]})
BreakdownRow(view, r) ==
    Group(view, r[1], ScopeAt(r[1], r[2]), r[3], r[4],
          {i \in DOMAIN view : ValueAt(view[i], r[1]) = r[2] /\ KeyOf(view[i], r[3]) = r[4]})

(* Where the rows of a snapshot come from. *)
LEMMA RowsOfGroups ==
    ASSUME NEW view
    PROVE  /\ Populations(view) = {PopulationRow(view, r) :
                                     r \in PopulationKeys(view) \ {<<"world", "">>}}
           /\ Breakdowns(view) = {BreakdownRow(view, r) :
                                    r \in {q \in BreakdownKeys(view) : q[1] = "world" => q[2] # ""}}
<1>1. Populations(view) = {PopulationRow(view, r) : r \in PopulationKeys(view) \ {<<"world", "">>}}
  BY SMTT(30) DEF Populations, PopulationRow, PopulationKeys
<1>2. Breakdowns(view) = {BreakdownRow(view, r) :
                            r \in {q \in BreakdownKeys(view) : q[1] = "world" => q[2] # ""}}
  BY DEF Breakdowns, BreakdownRow, BreakdownKeys
<1> QED BY <1>1, <1>2, Zenon

(* The population keys are the names the characters have at each level.    *)
LEMMA PopulationKey ==
    ASSUME NEW view, NEW r
    PROVE  r \in PopulationKeys(view) <=> \E l \in Levels, i \in DOMAIN view : r = <<l, view[i][l]>>
  BY DEF PopulationKeys

(* A breakdown is by a dimension, of the name a character has at a level.  *)
LEMMA BreakdownKey ==
    ASSUME NEW view, NEW r \in BreakdownKeys(view)
    PROVE  /\ \E l \in Levels \union {"global"}, i \in DOMAIN view : r[1] = l /\ r[2] = ValueAt(view[i], l)
           /\ r[3] \in Dimensions /\ r = <<r[1], r[2], r[3], r[4]>>
<1>1. \E l \in Levels \union {"global"}, d \in Dimensions, i \in DOMAIN view :
        r = <<l, ValueAt(view[i], l), d, KeyOf(view[i], d)>>
  BY DEF BreakdownKeys
<1> QED BY <1>1

WorldGroup(view, w) ==
    Group(view, "world", NoScope, "world", <<w>>, {i \in DOMAIN view : view[i].world = w})

(* The row of a world is the only one with its dimension and its key. *)
LEMMA WorldRow ==
    ASSUME NEW view, NEW w \in Worlds(view), w # "", NEW h
    PROVE  h \in Groups(view) /\ h.dimension = "world" /\ h.key = <<w>> <=>
             h = WorldGroup(view, w)
<1> DEFINE g == WorldGroup(view, w)
           r == <<"world", w>>
<1>1. r \in PopulationKeys(view) /\ r \notin {<<"world", "">>}
  <2>1. PICK k \in DOMAIN view : view[k].world = w
    BY Zenon DEF Worlds
  <2>2. view[k]["world"] = w /\ "world" \in Levels
    BY <2>1, Zenon DEF Levels
  <2> QED BY <2>2, PopulationKey, Zenon
<1>2. PopulationRow(view, r) = g
  BY Zenon DEF PopulationRow, WorldGroup
<1>3. g.dimension = "world" /\ g.key = <<w>>
  BY Zenon DEF Group, WorldGroup
<1>4. \A q : /\ PopulationRow(view, q).dimension = q[1] /\ PopulationRow(view, q).key = <<q[2]>>
             /\ BreakdownRow(view, q).dimension = q[3]
  BY Zenon DEF PopulationRow, BreakdownRow, Group
<1> HIDE DEF g
<1>5. g \in Groups(view)
  BY <1>1, <1>2, RowsOfGroups, Zenon DEF Groups
<1>6. ASSUME h \in Groups(view), h.dimension = "world", h.key = <<w>> PROVE h = g
  <2>1. h \notin Breakdowns(view)
    <3>1. SUFFICES ASSUME h \in Breakdowns(view) PROVE FALSE
      BY Zenon
    <3>2. PICK q \in BreakdownKeys(view) : h = BreakdownRow(view, q)
      BY <3>1, RowsOfGroups, Zenon
    <3>3. q[3] = "world"
      BY <1>4, <1>6, <3>2, Zenon
    <3> QED BY <3>3, BreakdownKey, Zenon DEF Dimensions
  <2>2. PICK q \in PopulationKeys(view) : h = PopulationRow(view, q)
    <3>1. h \in Populations(view)
      BY <1>6, <2>1, Zenon DEF Groups
    <3> DEFINE K == PopulationKeys(view) \ {<<"world", "">>}
    <3>2. Populations(view) = {PopulationRow(view, q) : q \in K}
      BY RowsOfGroups, Zenon
    <3>3. K \subseteq PopulationKeys(view)
      BY Zenon
    <3> HIDE DEF K
    <3> QED BY <3>1, <3>2, <3>3, Zenon
  <2>3. PICK l \in Levels, i \in DOMAIN view : q = <<l, view[i][l]>>
    BY PopulationKey, Zenon
  <2>4. q[1] = "world" /\ q[2] = w
    <3>1. h.dimension = q[1] /\ h.key = <<q[2]>>
      BY <1>4, <2>2, Zenon
    <3>2. <<q[2]>> = <<w>>
      BY <1>6, <3>1, Zenon
    <3> QED BY <1>6, <3>1, <3>2, Zenon
  <2>5. q = r
    BY <2>3, <2>4, Zenon
  <2> QED BY <1>2, <2>2, <2>5, Zenon
<1> QED BY <1>3, <1>5, <1>6, Zenon DEF g

(* The population row of a world, summed as the pages sum it, is the number *)
(* of the world's characters in the view it was counted from. *)
LEMMA Population ==
    ASSUME NEW view, IsFiniteSet(DOMAIN view), NEW s,
           s.summary = Summary(view), s.groups = Groups(view), NEW w \in Worlds(view)
    PROVE  PopulationOf(s, w) = Cardinality(InWorld(view, w))
<1>1. CASE w = ""
  <2>1. s.summary.total = Cardinality(DOMAIN view)
    BY DEF Summary
  <2> QED BY <1>1, <2>1, Zenon DEF PopulationOf, InWorld
<1>2. CASE w # ""
  <2> DEFINE ids == {i \in DOMAIN view : view[i].world = w}
             g == WorldGroup(view, w)
             H == {h \in s.groups : h.dimension = "world" /\ h.key = <<w>>}
  <2>2. IsFiniteSet(ids) /\ Cardinality(ids) \in Nat
    BY FS_Subset, FS_CardinalityType, Zenon
  <2>6. g.total = Cardinality(ids)
    BY Zenon DEF Group, WorldGroup
  <2>7. \A h : h \in H <=> h = g
    <3> SUFFICES ASSUME NEW h PROVE h \in H <=> h = g
      BY Zenon
    <3>1. h \in Groups(view) /\ h.dimension = "world" /\ h.key = <<w>> <=> h = g
      BY <1>2, WorldRow, Zenon
    <3> HIDE DEF g
    <3> QED BY <3>1, Zenon
  <2> DEFINE D == {[count |-> h.total] : h \in H}
             y == [count |-> Cardinality(ids)]
  <2> HIDE DEF H, g
  <2>9. D = {y}
    BY <2>6, <2>7, Zenon
  <2>13. SumCounts(D) = Cardinality(ids)
    <3>1. y.count = Cardinality(ids)
      BY Zenon
    <3> HIDE DEF D, y
    <3> QED BY <2>2, <2>9, <3>1, SumOfOne, Zenon
  <2>14. PopulationOf(s, w) = SumCounts(D)
    BY <1>2, Zenon DEF PopulationOf, H
  <2> QED BY <1>2, <2>13, <2>14, Zenon DEF InWorld
<1> QED BY <1>1, <1>2, Zenon

(* The parts of a snapshot agree with each other.                          *)
Agree(s) ==
    /\ \A e \in s.expansions : e.count <= PopulationOf(s, e.scope.world)
    /\ \A d \in s.newCharacters : d.count <= PopulationOf(s, d.scope.world)

(* No world counts more through an expansion, or new on one day, than it   *)
(* has characters, when all are counted from one view.                     *)
LEMMA OneViewAgrees ==
    ASSUME NEW view, IsFiniteSet(DOMAIN view), NEW s,
           s.summary = Summary(view), s.groups = Groups(view),
           s.expansions = Expansions(view), s.newCharacters = NewCharacters(view, Today)
    PROVE  Agree(s)
<1>1. \A w : IsFiniteSet(InWorld(view, w))
  BY FS_Subset, Zenon DEF InWorld
<1>2. ASSUME NEW e \in s.expansions PROVE e.count <= PopulationOf(s, e.scope.world)
  <2> DEFINE R == UNION {{<<w, x>> : x \in UNION {view[i].expansions : i \in InWorld(view, w)}} :
                            w \in Worlds(view)}
             Done(w, x) == {i \in InWorld(view, w) : x \in view[i].expansions}
             Row(w, x) == [scope |-> ScopeAt("world", w), expansion |-> x,
                           count |-> Cardinality(Done(w, x))]
  <2>1. PICK r \in R : e = Row(r[1], r[2])
    BY Zenon DEF Expansions
  <2>2. PICK w \in Worlds(view) :
           r \in {<<w, x>> : x \in UNION {view[i].expansions : i \in InWorld(view, w)}}
    BY Zenon
  <2>3. PICK x : r = <<w, x>>
    BY <2>2, Zenon
  <2>4. e.count = Cardinality(Done(w, x)) /\ e.scope = ScopeAt("world", w)
    BY <2>1, <2>3, Zenon
  <2>5. Done(w, x) \subseteq InWorld(view, w)
    BY Zenon
  <2>6. Cardinality(Done(w, x)) <= Cardinality(InWorld(view, w))
    <3> HIDE DEF Done
    <3> QED BY <1>1, <2>5, FS_Subset, Zenon
  <2>7. PopulationOf(s, w) = Cardinality(InWorld(view, w))
    BY Population, Zenon
  <2> HIDE DEF Done
  <2> QED BY <2>4, <2>6, <2>7, WorldScope, Zenon
<1>3. ASSUME NEW d \in s.newCharacters PROVE d.count <= PopulationOf(s, d.scope.world)
  <2>1. PICK w \in Worlds(view), i \in DOMAIN view : d = DayOf(view, w, view[i].joined)
    BY SeriesRow, SMTT(30)
  <2> DEFINE those == {j \in InWorld(view, w) : view[j].joined = view[i].joined}
  <2>2. d.count = Cardinality(those) /\ d.scope = ScopeAt("world", w)
    BY <2>1, Zenon DEF DayOf
  <2>3. those \subseteq InWorld(view, w)
    BY Zenon
  <2> HIDE DEF those
  <2>4. Cardinality(those) <= Cardinality(InWorld(view, w))
    BY <1>1, <2>3, FS_Subset, Zenon
  <2>5. PopulationOf(s, w) = Cardinality(InWorld(view, w))
    BY Population, Zenon
  <2> QED BY <2>2, <2>4, <2>5, WorldScope, Zenon
<1> QED BY <1>2, <1>3, Zenon DEF Agree

(* A view: finitely many of the characters, each with a row it may have. *)
ViewOK(view) ==
    /\ IsFiniteSet(DOMAIN view)
    /\ \A i \in DOMAIN view : i \in Ids /\ view[i] \in Profiles[i]

(* How far the snapshot of a refresh is computed from its view. *)
Computed(rec) ==
    /\ rec.pc \in {"milestones", "publish"} =>
         ViewOK(rec.view) /\ rec.snapshot.summary = Summary(rec.view) /\ rec.snapshot.groups = Groups(rec.view)
    /\ rec.pc = "publish" =>
         /\ rec.snapshot.expansions = Expansions(rec.view)
         /\ rec.snapshot.newCharacters = NewCharacters(rec.view, Today)

(* Every snapshot under way is computed from its view, the stored one from *)
(* one.                                                                    *)
Faithful ==
    /\ ViewOK(characters)
    /\ \A p \in Refreshers : Computed(refresher[p])
    /\ stored # None => Agree(stored)

(* No character, no refresh and no row to begin with.                      *)
LEMMA InitFaithful == Init => Faithful
<1> SUFFICES ASSUME Init PROVE Faithful
  BY Zenon
<1>1. DOMAIN characters = {} /\ stored = None
  BY DEF Init
<1>2. ViewOK(characters)
  BY <1>1, FS_EmptySet, Zenon DEF ViewOK
<1>3. \A p \in Refreshers : refresher[p].pc = "idle"
  BY Zenon DEF Init, NoRefresh
<1> QED BY <1>1, <1>2, <1>3, Zenon DEF Faithful, Computed

(* The census writes a character; what a refresh has read stays.           *)
LEMMA CensusFaithful == ASSUME Faithful, CensusWrites PROVE Faithful'
<1>1. UNCHANGED <<stored, refresher>>
  BY Zenon DEF CensusWrites
<1>2. PICK i \in Ids :
         \/ \E p \in Profiles[i] : characters' = WithCharacter(i, p)
         \/ characters' = [j \in DOMAIN characters \ {i} |-> characters[j]]
  BY Zenon DEF CensusWrites
<1>3. IsFiniteSet(DOMAIN characters) /\ \A j \in DOMAIN characters : j \in Ids /\ characters[j] \in Profiles[j]
  BY Zenon DEF Faithful, ViewOK
<1>4. IsFiniteSet(DOMAIN characters \union {i}) /\ IsFiniteSet(DOMAIN characters \ {i})
  BY <1>3, FS_AddElement, FS_Subset, Zenon
<1>5. ViewOK(characters')
  <2>1. CASE \E p \in Profiles[i] : characters' = WithCharacter(i, p)
    BY <1>3, <1>4, <2>1, Zenon DEF ViewOK, WithCharacter
  <2>2. CASE characters' = [j \in DOMAIN characters \ {i} |-> characters[j]]
    BY <1>3, <1>4, <2>2, Zenon DEF ViewOK
  <2> QED BY <1>2, <2>1, <2>2, Zenon
<1>6. (stored' # None => Agree(stored'))
  BY <1>1, Zenon DEF Faithful
<1> QED BY <1>1, <1>5, <1>6, Zenon DEF Faithful, ViewOK, Computed, Agree, PopulationOf

(* A refresh moves on with a record computed from its view.                *)
LEMMA MovesFaithful ==
    ASSUME Faithful, DatabaseTypes, NEW p \in Refreshers, NEW rec, Moves(p, rec), Computed(rec),
           UNCHANGED characters, stored' = stored \/ (stored' # None => Agree(stored'))
    PROVE  Faithful'
<1>1. \A q \in Refreshers : Computed(refresher'[q])
  <2>1. \A q \in Refreshers : refresher'[q] = IF q = p THEN rec ELSE refresher[q]
    BY Zenon DEF Moves, DatabaseTypes
  <2> QED BY <2>1, Zenon DEF Faithful
<1>2. stored' # None => Agree(stored')
  BY Zenon DEF Faithful
<1> QED BY <1>1, <1>2, Zenon DEF Faithful, ViewOK, Computed, Agree, PopulationOf

(* The refresh counts everything from the view of its first query.         *)
LEMMA RefreshFaithful ==
    ASSUME Faithful, DatabaseTypes, NEW p \in Refreshers, Refresh(p) \/ RefreshFails(p)
    PROVE  Faithful'
<1>0. Computed(refresher[p]) /\ Computed(NoRefresh)
  BY Zenon DEF Faithful, Computed, NoRefresh
<1>1. CASE RefreshBegin(p)
  <2> DEFINE rec == [pc |-> "characters", snapshot |-> [generatedAt |-> refreshes + 1], view |-> <<>>]
  <2>1. Moves(p, rec) /\ UNCHANGED <<characters, stored>>
    BY <1>1, Zenon DEF RefreshBegin
  <2>2. Computed(rec)
    BY Zenon DEF Computed
  <2> HIDE DEF rec
  <2> QED BY <2>1, <2>2, MovesFaithful, Zenon
<1>2. CASE RefreshCharacters(p)
  <2> DEFINE rec == [pc |-> "milestones",
                     snapshot |-> [generatedAt |-> refresher[p].snapshot.generatedAt,
                                   summary |-> Summary(characters), groups |-> Groups(characters)],
                     view |-> characters]
  <2>1. Moves(p, rec) /\ UNCHANGED <<characters, stored>>
    BY <1>2, Zenon DEF RefreshCharacters
  <2>2. Computed(rec)
    BY Zenon DEF Computed, Faithful
  <2> HIDE DEF rec
  <2> QED BY <2>1, <2>2, MovesFaithful, SMTT(30)
<1>3. CASE RefreshMilestones(p)
  <2> DEFINE seen == refresher[p].snapshot
             view == refresher[p].view
             rec == [pc |-> "publish",
                     snapshot |-> [generatedAt |-> seen.generatedAt, summary |-> seen.summary,
                                   groups |-> seen.groups, expansions |-> Expansions(view),
                                   newCharacters |-> NewCharacters(view, Today)],
                     view |-> view]
  <2>1. Moves(p, rec) /\ UNCHANGED <<characters, stored>> /\ refresher[p].pc = "milestones"
    BY <1>3, Zenon DEF RefreshMilestones, TransactionView
  <2>2. Computed(rec)
    BY <1>0, <2>1, Zenon DEF Computed
  <2> HIDE DEF rec
  <2> QED BY <2>1, <2>2, MovesFaithful, Zenon
<1>4. ASSUME refresher[p].pc = "publish" PROVE Agree(refresher[p].snapshot)
  BY <1>0, <1>4, OneViewAgrees, Zenon DEF Computed, ViewOK
<1>5. ASSUME refresher[p].pc = "publish", stored' = Upserted(p) PROVE stored' # None => Agree(stored')
  BY <1>4, <1>5, Zenon DEF Upserted, Faithful
<1>6. CASE RefreshPublish(p)
  <2>1. Moves(p, NoRefresh) /\ characters' = characters /\ refresher[p].pc = "publish" /\ stored' = Upserted(p)
    BY <1>6, Zenon DEF RefreshPublish, Ends, Moves
  <2> QED BY <1>0, <1>5, <2>1, MovesFaithful, Zenon
<1>7. CASE RefreshFails(p)
  <2>1. Moves(p, NoRefresh) /\ characters' = characters
    BY <1>7, Zenon DEF RefreshFails, Ends, Moves
  <2>2. stored' = stored \/ (refresher[p].pc = "publish" /\ stored' = Upserted(p))
    BY <1>7, Zenon DEF RefreshFails
  <2> QED BY <1>0, <1>5, <2>1, <2>2, MovesFaithful, Zenon
<1> QED BY <1>1, <1>2, <1>3, <1>6, <1>7, Zenon DEF Refresh

(* Every step keeps the snapshots faithful; the server's change nothing.   *)
LEMMA NextFaithful == ASSUME Faithful, DatabaseTypes, [Next]_vars PROVE Faithful'
<1>1. ASSUME UNCHANGED database PROVE Faithful'
  <2>1. UNCHANGED <<characters, stored, refresher>>
    BY <1>1, Zenon DEF database
  <2> QED BY <2>1, Zenon DEF Faithful, ViewOK, Computed, Agree, PopulationOf
<1>2. CASE UNCHANGED vars
  <2>1. UNCHANGED database
    BY <1>2, Zenon DEF vars, database
  <2> QED BY <1>1, <2>1, Zenon
<1>3. ASSUME NEW r \in Requests, Current(r) \/ Cancelled(r) PROVE UNCHANGED database
  BY <1>3, Zenon DEF Current, Enter, ReadClock, Hit, StaleServed, Wait, StartReload, StartColdLoad,
              ColdLoad, ColdFinish, Cancelled
<1>4. ASSUME BackgroundLoad \/ BackgroundFinish \/ TTLPasses PROVE UNCHANGED database
  BY <1>4, Zenon DEF BackgroundLoad, BackgroundFinish, TTLPasses
<1> QED BY <1>1, <1>2, <1>3, <1>4, CensusFaithful, RefreshFaithful, Zenon DEF Next

(* So it holds in every reachable state.                                   *)
LEMMA FaithfulAlways == Spec => []Faithful
<1>1. IInv /\ Faithful /\ [Next]_vars => Faithful'
  BY NextFaithful, Zenon DEF IInv
<1> QED BY <1>1, InitFaithful, Inductive, PTL DEF Spec

(* The parts of the stored snapshot are of one moment (readCharacterStats  *)
(* and readMilestoneStats in one repeatable-read transaction): no world has*)
(* more characters through an expansion, or new on one day, than it has    *)
(* characters, whatever the census writes between the two queries, for any *)
(* number of refreshes, characters and faults.                             *)
THEOREM OneMomentTheorem == Spec => []OneMoment
<1>1. Faithful => OneMoment
  BY Zenon DEF Faithful, OneMoment, Agree
<1> QED BY <1>1, FaithfulAlways, PTL

(* The hierarchy knows every world a character may be stored on, under the *)
(* names the row carries, and the lookback covers both windows (60 and 30  *)
(* days in the code).                                                      *)
KnownProfiles ==
    /\ Today \in Int /\ Lookback >= 2 * Window
    /\ \A i \in Ids : \A c \in Profiles[i] : ProfileOK(c)

(* What the pages show as new characters is exact (NewCharactersWindow over*)
(* the series of readMilestoneStats): for every scope the two windows count*)
(* the characters stored under it that joined in them, for any hierarchy   *)
(* that knows the stored worlds and any lookback that covers the windows.  *)
THEOREM WindowsTheorem == ASSUME KnownProfiles PROVE Spec => []WindowsExact
<1>1. ASSUME Faithful, NEW p \in Refreshers, refresher[p].pc = "publish",
             NEW l \in Levels \union {"global"}, NEW k \in DOMAIN refresher[p].view
      PROVE  ExactAt(refresher[p].snapshot, refresher[p].view, l, ValueAt(refresher[p].view[k], l))
  <2> DEFINE view == refresher[p].view
             snap == refresher[p].snapshot
  <2>1. ViewOK(view) /\ snap.newCharacters = NewCharacters(view, Today)
    BY <1>1, Zenon DEF Faithful, Computed
  <2>2. k \in DOMAIN view
    BY <1>1, Zenon
  <2> SUFFICES ExactAt(snap, view, l, ValueAt(view[k], l))
    BY Zenon
  <2> HIDE DEF view, snap
  <2>3. IsFiniteSet(DOMAIN view) /\ \A i \in DOMAIN view : ProfileOK(view[i])
    BY <2>1, Zenon DEF ViewOK, KnownProfiles
  <2>4. Today \in Int /\ Lookback >= 2 * Window
    BY Zenon DEF KnownProfiles
  <2> QED BY <1>1, <2>1, <2>2, <2>3, <2>4, WindowsOK, Zenon
<1>2. Faithful => WindowsExact
  <2> SUFFICES ASSUME Faithful, NEW p \in Refreshers, refresher[p].pc = "publish",
                      NEW s \in {<<l, ValueAt(refresher[p].view[i], l)>> :
                                   l \in Levels \union {"global"}, i \in DOMAIN refresher[p].view}
               PROVE  ExactAt(refresher[p].snapshot, refresher[p].view, s[1], s[2])
    BY SMTT(30) DEF WindowsExact, ExactAt
  <2>1. PICK l \in Levels \union {"global"}, k \in DOMAIN refresher[p].view :
           s[1] = l /\ s[2] = ValueAt(refresher[p].view[k], l)
    BY SMTT(30)
  <2>2. ExactAt(refresher[p].snapshot, refresher[p].view, l, ValueAt(refresher[p].view[k], l))
    BY <1>1, SMTT(30)
  <2> QED BY <2>1, <2>2, SMTT(30)
<1> QED BY <1>2, FaithfulAlways, PTL
-----------------------------------------------------------------------------
(* Which snapshots are valid.                                                *)

(* What a scope names at each level. *)
LEMMA ScopeFields ==
    ASSUME NEW l \in Levels \union {"global"}, NEW v
    PROVE  /\ ScopeAt(l, v).region = (IF l = "region" THEN v ELSE "")
           /\ ScopeAt(l, v).datacenter = (IF l = "datacenter" THEN v ELSE "")
           /\ ScopeAt(l, v).world = (IF l = "world" THEN v ELSE "")
<1> DEFINE s == ScopeAt(l, v)
<1>1. CASE l = "global"
  BY <1>1, Zenon DEF ScopeAt, NoScope
<1>2. CASE l = "region"
  <2>1. s = [region |-> v, datacenter |-> "", world |-> ""]
    BY <1>2, Zenon DEF ScopeAt, NoScope
  <2> HIDE DEF s
  <2>2. s.region = v /\ s.datacenter = "" /\ s.world = ""
    BY <2>1, Zenon
  <2> QED BY <1>2, <2>2, Zenon DEF s
<1>3. CASE l = "datacenter"
  <2>1. s = [region |-> "", datacenter |-> v, world |-> ""]
    BY <1>3, Zenon DEF ScopeAt, NoScope
  <2> HIDE DEF s
  <2>2. s.region = "" /\ s.datacenter = v /\ s.world = ""
    BY <2>1, Zenon
  <2> QED BY <1>3, <2>2, Zenon DEF s
<1>4. CASE l = "world"
  <2>1. s = [region |-> "", datacenter |-> "", world |-> v]
    BY <1>4, Zenon DEF ScopeAt, NoScope
  <2> HIDE DEF s
  <2>2. s.region = "" /\ s.datacenter = "" /\ s.world = v
    BY <2>1, Zenon
  <2> QED BY <1>4, <2>2, Zenon DEF s
<1> QED BY <1>1, <1>2, <1>3, <1>4, Zenon DEF Levels

(* A level with a name, or the global one without.                         *)
Named(l, v) ==
    l \in Levels \union {"global"} /\ (l # "global" => v # "") /\ (l = "global" => v = "")

(* A scope says which level and name it is for.                            *)
LEMMA ScopesDiffer ==
    ASSUME NEW l, NEW m, NEW v, NEW x, Named(l, v), Named(m, x), ScopeAt(l, v) = ScopeAt(m, x)
    PROVE  l = m /\ v = x
<1> DEFINE s == ScopeAt(l, v)
<1>1. l \in Levels \union {"global"} /\ m \in Levels \union {"global"}
  BY Zenon DEF Named
<1>2. /\ s.region = (IF l = "region" THEN v ELSE "")
      /\ s.datacenter = (IF l = "datacenter" THEN v ELSE "")
      /\ s.world = (IF l = "world" THEN v ELSE "")
  BY <1>1, ScopeFields, Zenon
<1>3. /\ ScopeAt(m, x).region = (IF m = "region" THEN x ELSE "")
      /\ ScopeAt(m, x).datacenter = (IF m = "datacenter" THEN x ELSE "")
      /\ ScopeAt(m, x).world = (IF m = "world" THEN x ELSE "")
  BY <1>1, ScopeFields, Zenon
<1> QED BY <1>1, <1>2, <1>3, Zenon DEF Levels, Named

(* Every row of a snapshot comes from a key. *)
LEMMA RowSources ==
    ASSUME NEW view
    PROVE  /\ \A f \in Populations(view) : \E q \in PopulationKeys(view) : f = PopulationRow(view, q)
           /\ \A f \in Breakdowns(view) : \E q \in BreakdownKeys(view) : f = BreakdownRow(view, q)
<1>3. \A f \in Populations(view) : \E q \in PopulationKeys(view) : f = PopulationRow(view, q)
  <2> DEFINE K == PopulationKeys(view) \ {<<"world", "">>}
  <2>1. Populations(view) = {PopulationRow(view, q) : q \in K} /\ K \subseteq PopulationKeys(view)
    BY RowsOfGroups, Zenon
  <2> HIDE DEF K
  <2> QED BY <2>1, Zenon
<1>4. \A f \in Breakdowns(view) : \E q \in BreakdownKeys(view) : f = BreakdownRow(view, q)
  <2> DEFINE K == {q \in BreakdownKeys(view) : q[1] = "world" => q[2] # ""}
  <2>1. Breakdowns(view) = {BreakdownRow(view, q) : q \in K} /\ K \subseteq BreakdownKeys(view)
    BY RowsOfGroups, Zenon
  <2> HIDE DEF K
  <2> QED BY <2>1, Zenon
<1> QED BY <1>3, <1>4, Zenon

(* No two rows of one snapshot are about the same group. *)
LEMMA GroupsDistinct ==
    ASSUME NEW view, \A i \in DOMAIN view : ProfileOK(view[i]),
           NEW g \in Groups(view), NEW h \in Groups(view), SameGroup(g, h)
    PROVE  g = h
<1>1. \A q : /\ PopulationRow(view, q).dimension = q[1] /\ PopulationRow(view, q).key = <<q[2]>>
             /\ BreakdownRow(view, q).dimension = q[3] /\ BreakdownRow(view, q).key = q[4]
             /\ BreakdownRow(view, q).scope = ScopeAt(q[1], q[2])
  BY Zenon DEF PopulationRow, BreakdownRow, Group
<1>2. g.scope = h.scope /\ g.dimension = h.dimension /\ g.key = h.key
  BY Zenon DEF SameGroup
<1>3. \A f \in Populations(view) : \E q \in PopulationKeys(view) : f = PopulationRow(view, q)
  BY RowSources, Zenon
<1>4. \A f \in Breakdowns(view) : \E q \in BreakdownKeys(view) : f = BreakdownRow(view, q)
  BY RowSources, Zenon
<1>5. \A f \in Populations(view) : f.dimension \in Levels
  <2> SUFFICES ASSUME NEW f \in Populations(view) PROVE f.dimension \in Levels
    BY Zenon
  <2>1. PICK q \in PopulationKeys(view) : f = PopulationRow(view, q)
    BY <1>3, Zenon
  <2>2. PICK l \in Levels, i \in DOMAIN view : q = <<l, view[i][l]>>
    BY PopulationKey, Zenon
  <2> QED BY <1>1, <2>1, <2>2, Zenon
<1>6. \A f \in Breakdowns(view) : f.dimension \in Dimensions
  <2> SUFFICES ASSUME NEW f \in Breakdowns(view) PROVE f.dimension \in Dimensions
    OBVIOUS
  <2>1. PICK q \in BreakdownKeys(view) : f = BreakdownRow(view, q)
    BY <1>4
  <2>2. q[3] \in Dimensions
    BY BreakdownKey, Zenon
  <2> QED BY <1>1, <2>1, <2>2, Zenon
<1>7. Levels \cap Dimensions = {}
  BY Zenon DEF Levels, Dimensions
<1>8. CASE g \in Populations(view)
  <2>1. h \in Populations(view)
    BY <1>2, <1>5, <1>6, <1>7, <1>8, Zenon DEF Groups
  <2>2. PICK q \in PopulationKeys(view) : g = PopulationRow(view, q)
    BY <1>3, <1>8, Zenon
  <2>3. PICK r \in PopulationKeys(view) : h = PopulationRow(view, r)
    BY <1>3, <2>1, Zenon
  <2>4. PICK l \in Levels, i \in DOMAIN view : q = <<l, view[i][l]>>
    BY PopulationKey, Zenon
  <2>5. PICK m \in Levels, j \in DOMAIN view : r = <<m, view[j][m]>>
    BY PopulationKey, Zenon
  <2>6. q[1] = r[1] /\ <<q[2]>> = <<r[2]>>
    BY <1>1, <1>2, <2>2, <2>3, Zenon
  <2>7. q = r
    BY <2>4, <2>5, <2>6, Zenon
  <2> QED BY <2>2, <2>3, <2>7, Zenon
<1>9. CASE g \in Breakdowns(view)
  <2>1. h \in Breakdowns(view)
    BY <1>2, <1>5, <1>6, <1>7, <1>9, Zenon DEF Groups
  <2>2. PICK q \in BreakdownKeys(view) : g = BreakdownRow(view, q)
    BY <1>4, <1>9
  <2>3. PICK r \in BreakdownKeys(view) : h = BreakdownRow(view, r)
    BY <1>4, <2>1
  <2>4. ASSUME NEW k \in BreakdownKeys(view)
        PROVE  k = <<k[1], k[2], k[3], k[4]>> /\ Named(k[1], k[2])
    <3>1. PICK l \in Levels \union {"global"}, i \in DOMAIN view : k[1] = l /\ k[2] = ValueAt(view[i], l)
      BY BreakdownKey, Zenon
    <3>2. Named(l, ValueAt(view[i], l))
      BY Zenon DEF Named, ProfileOK, ValueAt, Levels
    <3> QED BY <3>1, <3>2, BreakdownKey, Zenon
  <2>5. /\ q = <<q[1], q[2], q[3], q[4]>> /\ Named(q[1], q[2])
        /\ r = <<r[1], r[2], r[3], r[4]>> /\ Named(r[1], r[2])
    BY <2>4, Zenon
  <2>6. q[3] = r[3] /\ q[4] = r[4] /\ ScopeAt(q[1], q[2]) = ScopeAt(r[1], r[2])
    BY <1>1, <1>2, <2>2, <2>3, Zenon
  <2>7. q[1] = r[1] /\ q[2] = r[2]
    BY <2>5, <2>6, ScopesDiffer
  <2>8. q = r
    BY <2>5, <2>6, <2>7, Zenon
  <2> QED BY <2>2, <2>3, <2>8, Zenon
<1> QED BY <1>8, <1>9, Zenon DEF Groups

(* The snapshot of a view whose names are all known is valid. *)
LEMMA KnownValid ==
    ASSUME NEW view, IsFiniteSet(DOMAIN view), \A i \in DOMAIN view : ProfileOK(view[i]), NEW s,
           s.summary = Summary(view), s.groups = Groups(view),
           s.expansions = Expansions(view), s.newCharacters = NewCharacters(view, Today)
    PROVE  ValidateUIStatsSnapshot(s)
<1>1. ASSUME NEW A, NEW B, IsFiniteSet(A), B \subseteq A PROVE Cardinality(B) <= Cardinality(A)
  BY <1>1, FS_Subset, Zenon
<1>2. s.summary.active <= s.summary.total /\ s.summary.maxLevel <= s.summary.total
  <2> DEFINE C == {i \in DOMAIN view : view[i].capped}
             T == Active(view, DOMAIN view)
  <2>1. s.summary.active = Cardinality(T) /\ s.summary.maxLevel = Cardinality(C)
        /\ s.summary.total = Cardinality(DOMAIN view)
    BY DEF Summary
  <2>2. C \subseteq DOMAIN view /\ T \subseteq DOMAIN view
    BY Zenon DEF Active
  <2> HIDE DEF C, T
  <2>3. Cardinality(C) <= Cardinality(DOMAIN view) /\ Cardinality(T) <= Cardinality(DOMAIN view)
    BY <1>1, <2>2, Zenon
  <2> QED BY <2>1, <2>3, Zenon
<1>3. ASSUME NEW g \in Groups(view) PROVE g.active <= g.total
  <2>1. ASSUME NEW ids \in SUBSET DOMAIN view, NEW l, NEW sc, NEW d, NEW key, g = Group(view, l, sc, d, key, ids)
        PROVE  g.active <= g.total
    <3>1. g.total = Cardinality(ids) /\ g.active = Cardinality(Active(view, ids))
      BY <2>1, Zenon DEF Group
    <3>2. IsFiniteSet(ids) /\ Active(view, ids) \subseteq ids
      BY FS_Subset, Zenon DEF Active
    <3> QED BY <1>1, <3>1, <3>2, Zenon
  <2>2. CASE g \in Populations(view)
    <3>1. PICK q : g = PopulationRow(view, q)
      BY <2>2, RowSources, Zenon
    <3>2. {i \in DOMAIN view : view[i][q[1]] = q[2]} \in SUBSET DOMAIN view
      BY Zenon
    <3> QED BY <2>1, <3>1, <3>2, ZenonT(30) DEF PopulationRow
  <2>3. CASE g \in Breakdowns(view)
    <3>1. PICK q : g = BreakdownRow(view, q)
      BY <2>3, RowSources, Zenon
    <3>2. {i \in DOMAIN view : ValueAt(view[i], q[1]) = q[2] /\ KeyOf(view[i], q[3]) = q[4]} \in SUBSET DOMAIN view
      BY Zenon
    <3> QED BY <2>1, <3>1, <3>2, ZenonT(30) DEF BreakdownRow
  <2> QED BY <2>2, <2>3, Zenon DEF Groups
<1>4. ASSUME NEW e \in s.expansions, NEW f \in s.expansions, e.scope = f.scope, e.expansion = f.expansion
      PROVE  e = f
  <2> DEFINE R == UNION {{<<w, x>> : x \in UNION {view[i].expansions : i \in InWorld(view, w)}} :
                            w \in Worlds(view)}
             Row(w, x) == [scope |-> ScopeAt("world", w), expansion |-> x,
                           count |-> Cardinality({i \in InWorld(view, w) : x \in view[i].expansions})]
  <2>1. s.expansions = {Row(r[1], r[2]) : r \in R}
    BY Zenon DEF Expansions
  <2>2. \A w, x : Row(w, x).scope.world = w /\ Row(w, x).expansion = x
    BY WorldScope, Zenon
  <2> HIDE DEF R, Row
  <2>3. PICK q \in R : e = Row(q[1], q[2])
    BY <2>1, Zenon
  <2>4. PICK r \in R : f = Row(r[1], r[2])
    BY <2>1, Zenon
  <2>5. q[1] = r[1] /\ q[2] = r[2]
    BY <1>4, <2>2, <2>3, <2>4, SMTT(30)
  <2> QED BY <2>3, <2>4, <2>5, Zenon
<1>5. ASSUME NEW d \in s.newCharacters, NEW e \in s.newCharacters, d.scope = e.scope, d.day = e.day
      PROVE  d = e
  <2>1. PICK w \in Worlds(view), i \in DOMAIN view : d = DayOf(view, w, view[i].joined)
    BY SeriesRow, SMTT(30)
  <2>2. PICK x \in Worlds(view), j \in DOMAIN view : e = DayOf(view, x, view[j].joined)
    BY SeriesRow
  <2>3. \A a, b : DayOf(view, a, b).scope.world = a /\ DayOf(view, a, b).day = b
    BY WorldScope, Zenon DEF DayOf
  <2>4. d.scope.world = w /\ d.day = view[i].joined
    BY <2>1, <2>3, ZenonT(30)
  <2>5. e.scope.world = x /\ e.day = view[j].joined
    BY <2>2, <2>3
  <2>6. w = x /\ view[i].joined = view[j].joined
    BY <1>5, <2>4, <2>5, Zenon
  <2> QED BY <2>1, <2>2, <2>6, Zenon
<1>6. \A g, h \in s.groups : SameGroup(g, h) => g = h
  BY GroupsDistinct, Zenon
<1> QED BY <1>2, <1>3, <1>4, <1>5, <1>6, Zenon DEF ValidateUIStatsSnapshot

(* A refresh computes a snapshot that ValidateUIStatsSnapshot accepts as   *)
(* long as the hierarchy knows every stored world under the names its rows *)
(* carry: only a row the hierarchy does not know, such as the unknown      *)
(* datacenter of the violation run, can make the refresh fail for ever.    *)
THEOREM AcceptedTheorem == ASSUME KnownProfiles PROVE Spec => []RefreshAccepted
<1>1. ASSUME Faithful PROVE RefreshAccepted
  <2> SUFFICES ASSUME NEW p \in Refreshers, refresher[p].pc = "publish"
               PROVE  ValidateUIStatsSnapshot(refresher[p].snapshot)
    BY Zenon DEF RefreshAccepted
  <2>1. /\ ViewOK(refresher[p].view)
        /\ refresher[p].snapshot.summary = Summary(refresher[p].view)
        /\ refresher[p].snapshot.groups = Groups(refresher[p].view)
        /\ refresher[p].snapshot.expansions = Expansions(refresher[p].view)
        /\ refresher[p].snapshot.newCharacters = NewCharacters(refresher[p].view, Today)
    BY <1>1, Zenon DEF Faithful, Computed
  <2>2. IsFiniteSet(DOMAIN refresher[p].view) /\ \A i \in DOMAIN refresher[p].view : ProfileOK(refresher[p].view[i])
    BY <2>1, Zenon DEF ViewOK, KnownProfiles
  <2> QED BY <2>1, <2>2, KnownValid, Zenon
<1>2. Faithful => RefreshAccepted
  BY <1>1, Zenon
<1> QED BY <1>2, FaithfulAlways, PTL
=============================================================================
