----------------------------- MODULE Discovery -----------------------------
(***************************************************************************)
(* Proxy discovery: commands stream candidates from the providers through  *)
(* a rotating HTTP client, look each one up and publish the unknown ones;  *)
(* consumers insert them; scanners give the rows their health evidence.    *)
(* Commands and consumers race on the same addresses, streams break off in *)
(* the middle, confirmations get lost and deliveries come again.           *)
(***************************************************************************)
EXTENDS Naturals, FiniteSets, SequencesExt

CONSTANTS
    Tuples,       \* addresses: protocol, ip and port
    Providers,    \* the providers in configured order, a sequence
    Kind(_),      \* "stream" (proxyscrape, pubproxy), "paged" (geonode) or "text"
    Units(_),     \* a provider's lists: its one stream, its pages, its urls
    PageLimit,    \* records asked for per page
    Reported(_, _), \* what a provider's page says: its number of records and the total
    Known,        \* addresses already stored and scanned
    Commands,     \* running discover commands
    Consumers,    \* new-proxy consumers
    Limit,        \* --limit, 0 for none
    Proxies,      \* rows a discovery request may go through
    MaxAttempts,  \* of the rotating client
    MaxFaults

None == <<>>

ASSUME DiscoveryAssumption == Limit \in Nat /\ MaxAttempts \in Nat \ {0} /\ Known \subseteq Tuples
ASSUME TuplesAssumption == None \notin Tuples
ASSUME ProvidersAssumption == Len(Providers) \in Nat \ {0} /\ DOMAIN Providers = 1 .. Len(Providers)
ASSUME ListsAssumption ==
    \A i \in DOMAIN Providers :
        /\ Kind(Providers[i]) \in {"stream", "paged", "text"}
        /\ Units(Providers[i]) \in Seq(Seq(Tuples))
        /\ Kind(Providers[i]) = "stream" => Len(Units(Providers[i])) = 1
(* The page after the last one is empty, so a list ends with a short page. *)
ASSUME PagesAssumption ==
    PageLimit \in Nat /\ \A i \in DOMAIN Providers : Kind(Providers[i]) = "paged" =>
        LET p == Providers[i] IN
        /\ \A u \in DOMAIN Units(p) : Reported(p, u).count \in Nat /\ Reported(p, u).total \in Nat
        /\ Len(Units(p)) > 0 /\ Reported(p, Len(Units(p))).count < PageLimit

VARIABLES
    cmd,      \* what each discover command is doing
    rows,     \* the proxies table
    queue,    \* new-proxy messages; identical ones are one element
    held,     \* the delivery of each consumer, looked up and not found
    faults

vars == <<cmd, rows, queue, held, faults>>

Fault == faults < MaxFaults /\ faults' = faults + 1
NoFault == UNCHANGED faults

-----------------------------------------------------------------------------
(* The rotating client: GetStream draws proxies of the pool at random and  *)
(* rotates away from those the provider refuses.                           *)

RandomActive(pool, excluded) == pool \ excluded

RandomActiveExcluding(pool, tried) == RandomActive(pool, tried)

(* The proxies tried in turn, until the attempts or the pool run out.      *)
Draws(pool) ==
    LET n == IF Cardinality(pool) < MaxAttempts THEN Cardinality(pool) ELSE MaxAttempts
    IN {d \in [1 .. n -> pool] :
           \A i \in 1 .. n : d[i] \in RandomActiveExcluding(pool, {d[j] : j \in 1 .. i - 1})}

(* An empty pool is the only case that goes direct.                        *)
GetStream(pool, refused) ==
    IF pool = {} THEN {"direct"}
    ELSE {IF \E i \in DOMAIN d : d[i] \notin refused THEN "ok" ELSE "error" : d \in Draws(pool)}

Outcomes == UNION {GetStream(pool, refused) : pool \in SUBSET Proxies, refused \in SUBSET Proxies}

-----------------------------------------------------------------------------
Start(n) == [pc |-> "next", prov |-> n, left |-> DOMAIN Units(Providers[n]), todo |-> None,
             cut |-> FALSE, fetched |-> FALSE]

Init ==
    /\ cmd = [d \in Commands |-> [at |-> Start(1), published |-> 0, errors |-> 0,
                                  claims |-> {}, quiet |-> {}, session |-> "open"]]
    /\ rows = [t \in Tuples |-> IF t \in Known THEN "scanned" ELSE "none"]
    /\ queue = {}
    /\ held = [c \in Consumers |-> None]
    /\ faults = 0

Done == [pc |-> "done", prov |-> 0, left |-> {}, todo |-> None, cut |-> FALSE, fetched |-> FALSE]

(* publishDiscoveredProxies goes on with the next provider, failed or not. *)
NextProvider(c) == IF c.at.prov = Len(Providers) THEN Done ELSE Start(c.at.prov + 1)

Failed(c) == [c EXCEPT !.errors = @ + 1, !.at = NextProvider(c)]
Succeeded(c) == [c EXCEPT !.at = NextProvider(c)]
Pulls(d) == cmd[d].at.pc = "next" /\ cmd[d].at.todo = None
KindOf(c) == Kind(Providers[c.at.prov])

(* A list has been read to its end, or to where it broke off.              *)
UnitEnds(d) ==
    LET c == cmd[d] IN
    /\ Pulls(d) /\ (c.at.left = {} \/ c.at.cut)
    /\ cmd' = [cmd EXCEPT ![d] =
           IF c.at.cut /\ KindOf(c) # "text" THEN Failed(c)
           ELSE IF c.at.left # {} THEN [c EXCEPT !.at.cut = FALSE]
           ELSE IF KindOf(c) = "text" /\ ~c.at.fetched THEN Failed(c)
           ELSE Succeeded(c)]
    /\ UNCHANGED <<rows, queue, held, faults>>

(* What a list that breaks off has emitted by then.                        *)
Broken(list) == {SubSeq(list, 1, n) : n \in 0 .. Len(list)}

Requests(d, kind) == Pulls(d) /\ cmd[d].at.left # {} /\ ~cmd[d].at.cut /\ KindOf(cmd[d]) = kind

List(c, u) == Units(Providers[c.at.prov])[u]

Reads(c, left, todo, cut) == [c EXCEPT !.at.left = left, !.at.todo = todo, !.at.cut = cut]

(* The provider is remembered as one that ended before its list began.     *)
Silent(c) == [c EXCEPT !.quiet = @ \cup {c.at.prov}]

(* proxyscrape and pubproxy: the records of one response are emitted while *)
(* it is decoded.  A body that ends inside the list is an error, but one   *)
(* that ends before the list's key, between two fields, is taken for a     *)
(* response without a list.                                                *)
FetchStream(d) ==
    LET c == cmd[d] IN
    /\ Requests(d, "stream")
    /\ \E outcome \in Outcomes :
         \/ /\ outcome # "error" /\ NoFault
            /\ cmd' = [cmd EXCEPT ![d] = Reads(c, {}, List(c, 1), FALSE)]
         \/ /\ outcome # "error" /\ Fault
            /\ \E read \in Broken(List(c, 1)) : cmd' = [cmd EXCEPT ![d] = Reads(c, {}, read, TRUE)]
         \/ /\ outcome # "error" /\ Fault
            /\ cmd' = [cmd EXCEPT ![d] = Succeeded(Silent(c))]
         \/ /\ outcome = "error" /\ Fault
            /\ cmd' = [cmd EXCEPT ![d] = Failed(c)]
    /\ UNCHANGED <<rows, queue, held>>

(* Mutant: the page number is never increased.                             *)
NextPages_Same(left, page, report) ==
    IF report.count < PageLimit \/ page * PageLimit >= report.total THEN {} ELSE left

(* A short page, or a total that is reached, ends the list.                *)
NextPages(left, page, report) ==
    IF report.count < PageLimit \/ page * PageLimit >= report.total THEN {} ELSE left \ {page}

(* geonode: a page is decoded completely before any record is emitted.     *)
FetchPage(d) ==
    LET c == cmd[d]
        page == CHOOSE u \in c.at.left : \A v \in c.at.left : u <= v
        report == Reported(Providers[c.at.prov], page)
    IN /\ Requests(d, "paged")
       /\ \/ /\ NoFault
             /\ cmd' = [cmd EXCEPT ![d] =
                    Reads(c, NextPages(c.at.left, page, report), List(c, page), FALSE)]
          \/ /\ Fault
             /\ cmd' = [cmd EXCEPT ![d] = Failed(c)]
       /\ UNCHANGED <<rows, queue, held>>

(* textproxy: the urls come in any order, and one that fails or breaks off *)
(* does not keep the others from being read.                               *)
FetchText(d) ==
    LET c == cmd[d] IN
    /\ Requests(d, "text")
    /\ \E u \in c.at.left :
         \/ /\ NoFault
            /\ cmd' = [cmd EXCEPT ![d] = Reads(c, c.at.left \ {u}, List(c, u), FALSE)]
         \/ /\ Fault
            /\ \E read \in Broken(List(c, u)) :
                 cmd' = [cmd EXCEPT ![d] = Reads(c, c.at.left \ {u}, read, TRUE)]
    /\ UNCHANGED <<rows, queue, held>>

-----------------------------------------------------------------------------
(* The emit callback: look the address up, publish it if it is unknown.    *)
Emits(d) == cmd[d].at.pc = "next" /\ cmd[d].at.todo # None
Exists(t) == rows[t] # "none"
Passed(c) == [c EXCEPT !.at.pc = "next", !.at.todo = Tail(@), !.at.fetched = TRUE]

Lookup(d) ==
    LET c == cmd[d] IN
    /\ Emits(d)
    /\ cmd' = [cmd EXCEPT ![d] = IF Exists(Head(c.at.todo)) THEN Passed(c)
                                 ELSE [c EXCEPT !.at.pc = "publish"]]
    /\ UNCHANGED <<rows, queue, held, faults>>

(* Mutant: a failed lookup counts as "already known".                      *)
LookupFails_Skips(d) ==
    /\ Emits(d) /\ Fault
    /\ cmd' = [cmd EXCEPT ![d] = Passed(@)]
    /\ UNCHANGED <<rows, queue, held>>

(* A failed lookup ends the provider, whatever its kind.                   *)
LookupFails(d) ==
    /\ Emits(d) /\ Fault
    /\ cmd' = [cmd EXCEPT ![d] = Failed(@)]
    /\ UNCHANGED <<rows, queue, held>>

Publishes(d) == cmd[d].at.pc = "publish"

(* Mutant: the limit is noticed one publication late.                      *)
Counted_Late(c, t) ==
    LET counted == [c EXCEPT !.published = @ + 1, !.claims = @ \cup {t}, !.session = "open"]
    IN IF Limit > 0 /\ counted.published > Limit THEN [counted EXCEPT !.at = Done] ELSE Passed(counted)

Counted(c, t) ==
    LET counted == [c EXCEPT !.published = @ + 1, !.claims = @ \cup {t}, !.session = "open"]
    IN IF Limit > 0 /\ counted.published >= Limit THEN [counted EXCEPT !.at = Done] ELSE Passed(counted)

(* publishConfirmed: a closed connection is replaced first; the message is *)
(* counted once the broker has confirmed it.                               *)
Publish(d) ==
    LET t == Head(cmd[d].at.todo) IN
    /\ Publishes(d) /\ cmd[d].session # "channel"
    /\ queue' = queue \cup {t}
    /\ cmd' = [cmd EXCEPT ![d] = Counted(@, t)]
    /\ UNCHANGED <<rows, held, faults>>

(* Mutant: the confirmation is not waited for.                             *)
PublishFails_Counted(d) ==
    LET t == Head(cmd[d].at.todo) IN
    /\ Publishes(d)
    /\ Fault
    /\ \E stored \in {{}, {t}} : queue' = queue \cup stored
    /\ cmd' = [cmd EXCEPT ![d] = Counted(@, t)]
    /\ UNCHANGED <<rows, held>>

(* The reconnect fails, the broker refuses or returns the message, or the  *)
(* confirmation is lost after the message was stored.  A channel that was  *)
(* closed alone is never replaced: every publish on it fails.              *)
PublishFails(d) ==
    LET t == Head(cmd[d].at.todo) IN
    /\ Publishes(d)
    /\ IF cmd[d].session = "channel" THEN NoFault ELSE Fault
    /\ \E stored \in {{}, {t}} : /\ cmd[d].session # "open" => stored = {}
                                 /\ queue' = queue \cup stored
    /\ cmd' = [cmd EXCEPT ![d] = Failed(@)]
    /\ UNCHANGED <<rows, held>>

(* The broker closes the channel, or the connection with it.               *)
SessionLost(d) ==
    /\ cmd[d].at.pc # "done" /\ cmd[d].session = "open"
    /\ Fault
    /\ \E lost \in {"channel", "connection"} : cmd' = [cmd EXCEPT ![d].session = lost]
    /\ UNCHANGED <<rows, queue, held>>

-----------------------------------------------------------------------------
(* The new-proxy consumer: ProcessNewProxy.                                *)
(* Mutant: the insert resets the row it finds.                             *)
InsertIfAbsent_Resets(t) == rows' = [rows EXCEPT ![t] = "new"]

InsertIfAbsent(t) == rows' = [rows EXCEPT ![t] = IF @ = "none" THEN "new" ELSE @]

(* Delivered and looked up; a known address is acknowledged at once.       *)
Deliver(c, t) ==
    /\ held[c] = None /\ t \in queue
    /\ queue' = queue \ {t}
    /\ held' = [held EXCEPT ![c] = IF Exists(t) THEN None ELSE t]
    /\ UNCHANGED <<cmd, rows, faults>>

Insert(c) ==
    /\ held[c] # None
    /\ InsertIfAbsent(held[c])
    /\ held' = [held EXCEPT ![c] = None]
    /\ UNCHANGED <<cmd, queue, faults>>

(* A statement fails or the consumer dies; the delivery comes again.       *)
InsertFails(c) ==
    /\ held[c] # None /\ Fault
    /\ queue' = queue \cup {held[c]}
    /\ held' = [held EXCEPT ![c] = None]
    /\ UNCHANGED <<cmd, rows>>

Scan(t) ==
    /\ rows[t] = "new"
    /\ rows' = [rows EXCEPT ![t] = "scanned"]
    /\ UNCHANGED <<cmd, queue, held, faults>>

-----------------------------------------------------------------------------
Discover(d) ==
    \/ UnitEnds(d) \/ FetchStream(d) \/ FetchPage(d) \/ FetchText(d)
    \/ Lookup(d) \/ LookupFails(d) \/ Publish(d) \/ PublishFails(d)

Consume(c) == (\E t \in Tuples : Deliver(c, t)) \/ Insert(c)

Next ==
    \/ \E d \in Commands : Discover(d) \/ SessionLost(d)
    \/ \E c \in Consumers : Consume(c) \/ InsertFails(c)
    \/ \E t \in Tuples : Scan(t)

Spec == Init /\ [][Next]_vars

FairSpec == Spec /\ \A d \in Commands : WF_vars(Discover(d))
                 /\ \A c \in Consumers : WF_vars(Consume(c))

-----------------------------------------------------------------------------
(* The address is stored or on its way to the store.                       *)
Safe(t) == Exists(t) \/ t \in queue \/ \E c \in Consumers : held[c] = t

(* The lists a provider tells of: a page is one of them when every page    *)
(* before it was full and gave a total that goes beyond.                   *)
Announced(p) ==
    {u \in DOMAIN Units(p) : Kind(p) = "paged" =>
        \A v \in DOMAIN Units(p) : v < u => /\ Reported(p, v).count >= PageLimit
                                           /\ Reported(p, v).total > v * PageLimit}

Listed(p) == UNION {ToSet(Units(p)[u]) : u \in Announced(p)}

(* The variables have the shapes the commands and the schema give them.    *)
TypeOK ==
    /\ rows \in [Tuples -> {"none", "new", "scanned"}]
    /\ queue \subseteq Tuples
    /\ \A d \in Commands : /\ cmd[d].published \in Nat
                           /\ cmd[d].errors \in 0 .. Len(Providers)
                           /\ cmd[d].session \in {"open", "channel", "connection"}
                           /\ Limit > 0 => cmd[d].published <= Limit

(* What a command counts as published reaches the store: a confirmation    *)
(* lost on the way, a broken session or a redelivery never turns a counted *)
(* address into a lost one.                                                *)
PublishedIsDurable == \A d \in Commands : \A t \in cmd[d].claims : Safe(t)

(* A command that ends without a provider failure and below its limit has  *)
(* left no address behind that its JSON providers told of, although other  *)
(* commands and consumers change the table between the lookup and the      *)
(* publish.  Two losses it does not notice: a provider whose response      *)
(* ended before its list began, and the pages after a short page or after  *)
(* a total that is too small.                                              *)
Covered ==
    \A d \in Commands :
        cmd[d].at = Done /\ cmd[d].errors = 0 /\ (Limit = 0 \/ cmd[d].published < Limit) =>
            \A i \in DOMAIN Providers \ cmd[d].quiet :
                Kind(Providers[i]) # "text" => \A t \in Listed(Providers[i]) : Safe(t)

(* Discovering an address again never takes away the evidence the scanners *)
(* have stored for it, however the lookups of two consumers interleave.    *)
EvidenceKept == [][\A t \in Tuples : rows[t] = "scanned" => rows'[t] = "scanned"]_rows

(* Every discover command comes to its end.                                *)
CommandEnds == \A d \in Commands : <>(cmd[d].at = Done)
=============================================================================
