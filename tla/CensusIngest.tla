---------------------------- MODULE CensusIngest ----------------------------
(***************************************************************************)
(* The census pipeline: publishers queue jobs, workers run the id-sweep,   *)
(* character-census and achievement-census handlers, each of which asks    *)
(* the Lodestone about a character and writes what it saw to the store.    *)
(* The Lodestone changes on its own, a request and the write of its answer *)
(* are separate steps, and a delivery that fails anywhere is redelivered   *)
(* with the statements it already executed left in place.                  *)
(***************************************************************************)
EXTENDS Lodestone, SequencesExt

CONSTANTS
    Characters,   \* ids the sweep covers, 1 .. N
    Milestones,   \* tracked achievement ids, 1 .. M
    Workers,      \* consumer goroutines
    Events(_),    \* the event types a consumer subscribes to
    Limit,        \* --limit of the publish commands
    Publishers,   \* the publish commands that are run: a set of event types
    Changing,     \* the ids whose pages change while the pipeline runs
    MaxChanges,   \* how often the Lodestone changes
    MaxFaults     \* failed requests, statements, publishes and crashes

ASSUME IngestAssumption ==
    /\ Characters \subseteq Nat /\ Characters # {} /\ Limit \in Nat \ {0}
    /\ Milestones \subseteq Nat /\ 1 \in Milestones

VARIABLES
    truth,     \* the Lodestone: page, achievement privacy, milestones earned
    rows,      \* characters and character_milestones
    order,     \* stored ids by last_census_at, oldest first
    queue,     \* queued jobs; identical messages are one element
    wk,        \* what each worker is doing
    paused,    \* the provider limiter holds every request back
    troubled,  \* history: ids whose page was ever not public
    changes, faults

vars == <<truth, rows, order, queue, wk, paused, troubled, changes, faults>>

Public == {"v1", "v2"}                       \* two readable profiles
Pages == Public \cup {"hidden", "unreadable", "restricted", "absent"}
NoRow == [page |-> "none", deleted |-> FALSE, private |-> FALSE, milestones |-> {}, latest |-> 0]

Sweep == [type |-> "id-sweep", id |-> 0]
CharacterCensusJob(c) == [type |-> "character-census", id |-> c]
AchievementCensusJob(c) == [type |-> "achievement-census", id |-> c]
Jobs == {Sweep} \cup {CharacterCensusJob(c) : c \in Characters}
                \cup {AchievementCensusJob(c) : c \in Characters}

BuildDependentCharacterJobs(c) == {AchievementCensusJob(c)}

First(S) == CHOOSE c \in S : \A d \in S : c <= d

Idle == [pc |-> "idle", job |-> Sweep, at |-> 0, next |-> {}, page |-> "none",
         missing |-> {}, latest |-> 0]

Init ==
    /\ truth = [c \in Characters |-> [page |-> "v1", private |-> FALSE, earned |-> 1]]
    /\ rows = [c \in Characters |-> NoRow]
    /\ order = <<>>
    /\ queue = {Sweep}
    /\ wk = [w \in Workers |-> Idle]
    /\ paused = FALSE
    /\ troubled = {}
    /\ changes = 0
    /\ faults = 0

Fault == faults < MaxFaults /\ faults' = faults + 1
NoFault == UNCHANGED faults

-----------------------------------------------------------------------------
(* The Lodestone as the requests see it.                                   *)
Genuine == {"200", "403", "404"}

ProfileStatus(t) ==
    CASE t.page = "absent" -> "404" [] t.page = "restricted" -> "403" [] OTHER -> "200"

AchievementStatus(t) ==
    IF t.page = "absent" THEN "404"
    ELSE IF t.page = "restricted" \/ t.private THEN "403" ELSE "200"

(* Every outcome of doRequest on a page whose true status is s: a genuine  *)
(* answer is the true one, anything else is a fault on the way.            *)
Answers == [s \in Genuine |->
    {doRequest(rs) : rs \in {as \in Attempts : \A i \in DOMAIN as : as[i] \in Genuine => as[i] = s}}]

(* One request: the limiter is waited for, the answer may pause it.        *)
Ask(answer) ==
    /\ ~paused
    /\ paused' = answer.paused
    /\ IF answer.status \in Genuine THEN NoFault ELSE Fault

-----------------------------------------------------------------------------
(* The store.                                                              *)

(* Mutant: last_census_at is written by the INSERT only.                   *)
Upsert_KeepsPlace(c, page) ==
    /\ rows' = [rows EXCEPT ![c] = [@ EXCEPT !.page = page, !.deleted = FALSE]]
    /\ order' = IF Contains(order, c) THEN order ELSE Append(order, c)

(* Mutant: the upsert inserts a second row.                                *)
Upsert_Inserts(c, page) ==
    /\ rows' = [rows EXCEPT ![c] = [@ EXCEPT !.page = page, !.deleted = FALSE]]
    /\ order' = Append(order, c)

Upsert(c, page) ==
    /\ rows' = [rows EXCEPT ![c] = [@ EXCEPT !.page = page, !.deleted = FALSE]]
    /\ order' = Append(RemoveFirst(order, c), c)

MarkDeleted(c) ==
    /\ rows' = [rows EXCEPT ![c].deleted = TRUE]
    /\ UNCHANGED order

hiddenRace(page) == page = "hidden"

(* A profile without a race is refused; its row keeps what it has.         *)
UpsertCharacter(c, page) ==
    IF hiddenRace(page) THEN UNCHANGED <<rows, order>> ELSE Upsert(c, page)

ListStale(limit) == SubSeq(order, 1, IF limit < Len(order) THEN limit ELSE Len(order))

UpsertCharacterMilestones(c, found) == rows' = [rows EXCEPT ![c].milestones = @ \cup found]

UpdateAchievementSummary(c, latest) ==
    rows' = [rows EXCEPT ![c] = [@ EXCEPT !.private = FALSE, !.latest = latest]]

SetAchievementsPrivate(c) == rows' = [rows EXCEPT ![c].private = TRUE]

missingMilestoneIDs(known) == Milestones \ known

-----------------------------------------------------------------------------
(* The runner.                                                             *)
(* A worker that is idle starts the job it is handed; one inside a sweep   *)
(* is at the id it has come to.                                            *)
Started(w, job) ==
    [Idle EXCEPT !.pc = "fetch", !.job = job,
                 !.at = IF job = Sweep THEN First(Characters) ELSE job.id]

Take(w, job) == wk[w].pc = "idle" /\ job \in queue /\ job.type \in Events(w)

(* The handler returned an error: the delivery goes back to the queue.     *)
Redeliver(w, job) ==
    /\ queue' = queue \cup {job}
    /\ wk' = [wk EXCEPT ![w] = Idle]

Ack(w) == wk' = [wk EXCEPT ![w] = Idle]

(* A statement fails, or the process dies; nothing done so far is undone.  *)
Abandon(w) ==
    /\ wk[w].pc # "idle"
    /\ Fault
    /\ Redeliver(w, wk[w].job)
    /\ UNCHANGED <<truth, rows, order, paused, troubled, changes>>

-----------------------------------------------------------------------------
(* id-sweep and character-census.                                          *)

(* The loop of the sweep goes on, or the handler returns its chained jobs. *)
Advance(w, at, chained) ==
    LET next == at.next \cup chained
        rest == {c \in Characters : c > at.at}
    IN wk' = [wk EXCEPT ![w] =
           IF at.job = Sweep /\ rest # {}
           THEN [at EXCEPT !.pc = "fetch", !.at = First(rest), !.next = next, !.page = "none"]
           ELSE IF next # {} THEN [at EXCEPT !.pc = "chain", !.next = next, !.page = "none"]
                             ELSE Idle]

(* One FetchCharacter of the handler, at the position at.                  *)
FetchAt(w, at) ==
    LET t == truth[at.at] IN
    \E answer \in Answers[ProfileStatus(t)] :
      /\ Ask(answer)
      /\ LET seen == FetchCharacter(answer, t.page) IN
         IF seen = "error" THEN Redeliver(w, at.job)
         ELSE /\ IF seen = "absent" /\ at.job = Sweep
                 THEN Advance(w, at, {})
                 ELSE wk' = [wk EXCEPT ![w] = [at EXCEPT !.pc = "store", !.page = seen]]
              /\ queue' = queue \ {at.job}
      /\ UNCHANGED <<truth, rows, order, troubled, changes>>

Fetch(w, job) == job.type # "achievement-census" /\ Take(w, job) /\ FetchAt(w, Started(w, job))
FetchNext(w) == wk[w].pc = "fetch" /\ FetchAt(w, wk[w])

(* What a stored profile chains; a hidden one chains nothing.              *)
storeLodestone(c, page) == IF hiddenRace(page) THEN {} ELSE BuildDependentCharacterJobs(c)

(* storeLodestone, finishLodestone or MarkCharacterDeleted.                *)
Store(w) ==
    LET c == wk[w].at IN
    /\ wk[w].pc = "store"
    /\ IF wk[w].page = "absent" THEN MarkDeleted(c) /\ Ack(w)
       ELSE UpsertCharacter(c, wk[w].page) /\ Advance(w, wk[w], storeLodestone(c, wk[w].page))
    /\ UNCHANGED <<truth, queue, paused, troubled, changes, faults>>

(* The chained jobs are published one by one, then the delivery is acked.  *)
Chain(w) ==
    LET job == CHOOSE j \in wk[w].next : \A k \in wk[w].next : j.id <= k.id
        left == wk[w].next \ {job}
    IN /\ wk[w].pc = "chain"
       /\ queue' = queue \cup {job}
       /\ wk' = [wk EXCEPT ![w] = IF left = {} THEN Idle ELSE [@ EXCEPT !.next = left]]
       /\ UNCHANGED <<truth, rows, order, paused, troubled, changes, faults>>

(* Mutant: the error is logged and the delivery acknowledged.              *)
ChainFails_Acked(w) ==
    /\ wk[w].pc = "chain"
    /\ Fault
    /\ Ack(w)
    /\ UNCHANGED <<truth, rows, order, queue, paused, troubled, changes>>

ChainFails(w) ==
    /\ wk[w].pc = "chain"
    /\ Fault
    /\ Redeliver(w, wk[w].job)
    /\ UNCHANGED <<truth, rows, order, paused, troubled, changes>>

-----------------------------------------------------------------------------
(* achievement-census.                                                     *)

(* ListCharacterMilestones and the request for the list.  A failed query   *)
(* is logged and nothing is known then; a failed request ends the delivery *)
(* whatever was known.                                                     *)
AskKnowing(c, known, answer) ==
    \/ known = rows[c].milestones /\ Ask(answer)
    \/ known = {} /\ Fault /\ ~paused /\ paused' = answer.paused /\ answer.status \in Genuine

List(w, job) ==
    LET t == truth[job.id]
    IN /\ job.type = "achievement-census" /\ Take(w, job)
       /\ \E answer \in Answers[AchievementStatus(t)], known \in SUBSET Milestones :
            LET missing == missingMilestoneIDs(known) IN
            /\ AskKnowing(job.id, known, answer)
            /\ CASE FetchList(answer) = "error" -> Redeliver(w, job)
                 [] FetchList(answer) = "list" ->
                      /\ wk' = [wk EXCEPT ![w] = [Started(w, job) EXCEPT
                             !.pc = IF missing = {} THEN "summary" ELSE "details",
                             !.missing = missing,
                             !.latest = extractLatestAchievement(1 .. t.earned)]]
                      /\ queue' = queue \ {job}
                 [] OTHER ->
                      /\ wk' = [wk EXCEPT ![w] = [Started(w, job) EXCEPT !.pc = FetchList(answer)]]
                      /\ queue' = queue \ {job}
       /\ UNCHANGED <<truth, rows, order, troubled, changes>>

(* The detail requests; what they found replaces missing.                  *)
Details(w) ==
    LET t == truth[wk[w].at]
        found == EarnedPrefix(wk[w].missing, 1 .. t.earned)
    IN /\ wk[w].pc = "details"
       /\ \E answer \in Answers[AchievementStatus(t)] :
            /\ Ask(answer)
            /\ CASE checkSingleAchievement(answer) = "error" -> Redeliver(w, wk[w].job)
                 [] checkSingleAchievement(answer) = "private" ->
                      /\ wk' = [wk EXCEPT ![w] = [@ EXCEPT !.pc = "private", !.missing = {}, !.latest = 0]]
                      /\ UNCHANGED queue
                 [] OTHER ->
                      /\ wk' = [wk EXCEPT ![w] = [@ EXCEPT
                             !.pc = IF found = {} THEN "summary" ELSE "milestones",
                             !.missing = found]]
                      /\ UNCHANGED queue
       /\ UNCHANGED <<truth, rows, order, troubled, changes>>

(* ProcessMilestoneResults, one statement a step.                          *)
StoreMilestones(w) ==
    /\ wk[w].pc = "milestones"
    /\ UpsertCharacterMilestones(wk[w].at, wk[w].missing)
    /\ wk' = [wk EXCEPT ![w] = [@ EXCEPT !.pc = "summary", !.missing = {}]]
    /\ UNCHANGED <<truth, order, queue, paused, troubled, changes, faults>>

(* The last statement of the handler, then the acknowledgement.            *)
Conclude(w) ==
    LET c == wk[w].at IN
    /\ CASE wk[w].pc = "summary" -> UpdateAchievementSummary(c, wk[w].latest) /\ UNCHANGED order
         [] wk[w].pc = "private" -> SetAchievementsPrivate(c) /\ UNCHANGED order
         [] wk[w].pc = "notfound" -> MarkDeleted(c)
         [] OTHER -> FALSE
    /\ Ack(w)
    /\ UNCHANGED <<truth, queue, paused, troubled, changes, faults>>

-----------------------------------------------------------------------------
(* publish character-census, a cron job; its publishes can stop halfway.   *)
PublishCharacterCensus ==
    LET stale == ListStale(Limit) IN
    "character-census" \in Publishers /\ \E n \in DOMAIN stale :
      /\ IF n = Len(stale) THEN NoFault ELSE Fault
      /\ queue' = queue \cup {CharacterCensusJob(stale[i]) : i \in 1 .. n}
      /\ queue' # queue
      /\ UNCHANGED <<truth, rows, order, wk, paused, troubled, changes>>

(* publish achievement-census: the lowest ids that are not deleted.        *)
PublishAchievementCensus ==
    LET live == {c \in Characters : rows[c].page # "none" /\ ~rows[c].deleted}
        listed == {c \in live : Cardinality({d \in live : d < c}) < Limit}
    IN "achievement-census" \in Publishers /\ \E n \in listed :
         /\ IF \A c \in listed : c <= n THEN NoFault ELSE Fault
         /\ queue' = queue \cup {AchievementCensusJob(c) : c \in {d \in listed : d <= n}}
         /\ queue' # queue
         /\ UNCHANGED <<truth, rows, order, wk, paused, troubled, changes>>

PauseEnds ==
    /\ paused
    /\ paused' = FALSE
    /\ UNCHANGED <<truth, rows, order, queue, wk, troubled, changes, faults>>

(* The Lodestone changes: a page, an achievement, or their visibility.     *)
Change(c) ==
    /\ c \in Changing /\ changes < MaxChanges
    /\ changes' = changes + 1
    /\ \/ \E page \in Pages \ {truth[c].page} : truth' = [truth EXCEPT ![c].page = page]
       \/ truth[c].earned + 1 \in Milestones /\ truth' = [truth EXCEPT ![c].earned = @ + 1]
       \/ truth' = [truth EXCEPT ![c].private = ~@]
    /\ troubled' = IF truth'[c].page \in Public THEN troubled ELSE troubled \cup {c}
    /\ UNCHANGED <<rows, order, queue, wk, paused, faults>>

Start(job) == \E w \in Workers : Fetch(w, job) \/ List(w, job)

Continue(w) ==
    FetchNext(w) \/ Store(w) \/ Chain(w) \/ Details(w) \/ StoreMilestones(w) \/ Conclude(w)

Next ==
    \/ \E job \in Jobs : Start(job)
    \/ \E w \in Workers : Continue(w) \/ ChainFails(w) \/ Abandon(w)
    \/ PublishCharacterCensus \/ PublishAchievementCensus \/ PauseEnds
    \/ \E c \in Characters : Change(c)

Spec == Init /\ [][Next]_vars

(* Consumers keep running what they hold and a queue delivers in order, so *)
(* no job waits for ever; the cron job keeps firing; a pause runs out.     *)
FairSpec ==
    /\ Spec
    /\ \A w \in Workers : WF_vars(Continue(w))
    /\ \A job \in Jobs : SF_vars(Start(job))
    /\ WF_vars(PublishCharacterCensus)
    /\ WF_vars(PauseEnds)

-----------------------------------------------------------------------------
Outstanding(job) == job \in queue \/ \E w \in Workers : wk[w].pc # "idle" /\ wk[w].job = job

(* What the row of c should say.  A restricted page (403) is left open:    *)
(* the client takes it for an absent one and the row is marked deleted,    *)
(* docs/census.md lists it among the hidden profiles whose row is kept.    *)
Matches(c) ==
    LET t == truth[c]
        r == rows[c]
    IN /\ t.page \in Public => /\ r.page = t.page
                               /\ ~r.deleted
                               /\ r.private = t.private
                               /\ ~t.private => /\ r.milestones = 1 .. t.earned
                                                /\ r.latest = t.earned
       /\ t.page = "absent" => r.deleted

(* The variables have the shapes the handlers and the schema give them.    *)
TypeOK ==
    /\ truth \in [Characters -> [page : Pages, private : BOOLEAN, earned : Milestones]]
    /\ rows \in [Characters -> [page : Public \cup {"none"}, deleted : BOOLEAN, private : BOOLEAN,
                                milestones : SUBSET Milestones, latest : Nat]]
    /\ Range(order) = {c \in Characters : rows[c].page # "none"} /\ IsInjective(order)
    /\ queue \subseteq Jobs
    /\ \A w \in Workers : wk[w].job \in Jobs /\ wk[w].next \subseteq Jobs
    /\ paused \in BOOLEAN

(* The sweep handler's rule "Never skip an id on anything but a genuine    *)
(* 404": a character whose page was public all along is stored or its      *)
(* sweep is still owed, whatever failed, was retried or was redelivered.   *)
SweepComplete == \A c \in Characters \ troubled : rows[c].page # "none" \/ Outstanding(Sweep)

(* The chain character -> achievement-census is not lost: a stored public  *)
(* character has an achievement result, or one is queued or running, or    *)
(* the delivery that will chain it is still owed, although the profile is  *)
(* committed before the chained job is published.                          *)
ChainKept ==
    \A c \in Characters \ troubled :
        rows[c].page # "none" =>
            \/ rows[c].private \/ rows[c].latest # 0
            \/ \E job \in {Sweep, CharacterCensusJob(c), AchievementCensusJob(c)} : Outstanding(job)

(* A character is marked deleted only if the Lodestone really stopped      *)
(* showing it at some time: no challenge, timeout or rate limit, and no    *)
(* answer applied late, kills a character that was public all along.       *)
NoFalseDeath == \A c \in Characters \ troubled : ~rows[c].deleted

(* The store never records a milestone or a latest achievement that the    *)
(* character has not earned.                                               *)
NothingInvented ==
    \A c \in Characters : rows[c].milestones \subseteq 1 .. truth[c].earned
                       /\ rows[c].latest <= truth[c].earned

(* As long as fewer than Limit other rows are stuck at the head of the     *)
(* re-census order, a stored character ends up as the Lodestone shows it,  *)
(* although answers are written late and out of order by several workers.  *)
Stuck == {c \in Characters : truth[c].page \notin Public}

Converges ==
    \A c \in Characters :
        (<>[](Cardinality(Stuck \ {c}) < Limit)) => <>[](rows[c].page # "none" => Matches(c))

(* "a deleted character that reappears on the Lodestone is therefore       *)
(* re-probed and Upsert clears its deleted_at": ListStale orders by        *)
(* last_census_at, which MarkDeleted and a hidden or unreadable profile    *)
(* leave alone, so Limit rows that are gone, hidden or unreadable keep the *)
(* head of the order for ever.                                             *)
Resurrected ==
    \A c \in Characters : [](rows[c].deleted /\ truth[c].page \in Public =>
        <>(~rows[c].deleted \/ truth[c].page \notin Public))
=============================================================================
