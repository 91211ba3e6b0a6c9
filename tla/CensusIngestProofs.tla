------------------------ MODULE CensusIngestProofs ------------------------
(***************************************************************************)
(* Proofs about CensusIngest, for every set of characters, milestones and  *)
(* workers, every subscription and every number of faults and changes: a   *)
(* sweep leaves nobody out, the chain to achievement-census is kept, only  *)
(* a character the Lodestone stopped showing is marked deleted, no         *)
(* achievement is invented, and the re-census order lists every stored     *)
(* character once.                                                         *)
(***************************************************************************)
EXTENDS CensusIngest, SequenceTheorems, WellFoundedInduction, TLAPS

(* What is stored, what has an achievement result, and what still has an   *)
(* achievement-census job to give it one.                                  *)
Stored(c) == rows[c].page # "none"
Done(c) == rows[c].private \/ rows[c].latest # 0
Settled(c) == Done(c) \/ Outstanding(AchievementCensusJob(c))

Truth == [page : Pages, private : BOOLEAN, earned : Nat]
Row == [page : Public \cup {"none"}, deleted : BOOLEAN, private : BOOLEAN,
        milestones : SUBSET Nat, latest : Nat]
Chained == {AchievementCensusJob(c) : c \in Characters}
Worker == [pc : {"idle", "fetch", "store", "chain", "details", "milestones", "summary",
                 "private", "notfound"},
           job : Jobs, at : Nat, next : SUBSET Chained, page : Pages \cup {"none"},
           missing : SUBSET Nat, latest : Nat]

WorldTypes ==
    /\ truth \in [Characters -> Truth]
    /\ rows \in [Characters -> Row]
    /\ troubled \subseteq Characters

(* A character outside troubled is and was public; what its row says is    *)
(* then no death, and never more than the Lodestone shows.                 *)
WorldOK(c) ==
    /\ truth[c].earned >= 1
    /\ c \notin troubled => truth[c].page \in Public /\ ~rows[c].deleted
    /\ rows[c].milestones \subseteq 1 .. truth[c].earned
    /\ rows[c].latest <= truth[c].earned

(* What a worker carries between two of its steps is backed by what the    *)
(* Lodestone showed: an absence or a notfound by trouble, a milestone and  *)
(* a latest achievement by what was earned.                                *)
WorkerOK(m) ==
    /\ m.pc # "idle" => /\ m.at \in Characters
                        /\ m.job \in {Sweep, CharacterCensusJob(m.at), AchievementCensusJob(m.at)}
    /\ m.pc \in {"fetch", "store", "chain"} => m.job # AchievementCensusJob(m.at)
    /\ m.pc \in {"details", "milestones", "summary", "private", "notfound"} =>
           m.job = AchievementCensusJob(m.at)
    /\ m.pc = "store" => /\ m.page \in Public \cup {"hidden", "absent"}
                         /\ m.at \notin troubled => m.page \in Public
                         /\ m.page = "absent" => m.job # Sweep
    /\ m.pc = "chain" => m.next # {}
    /\ m.pc = "notfound" => m.at \in troubled
    /\ m.pc = "milestones" => m.missing \subseteq 1 .. truth[m.at].earned
    /\ m.pc \in {"details", "milestones", "summary"} => m.latest \in 1 .. truth[m.at].earned

(* The characters the handler of a worker is through with.                 *)
Passed(m, c) ==
    \/ m.job = Sweep /\ (m.pc = "chain" \/ (m.pc \in {"fetch", "store"} /\ c < m.at))
    \/ m.job = CharacterCensusJob(c) /\ m.pc = "chain"

(* They are stored, and their chained job is held by the worker, or is on  *)
(* its way, or has run.                                                    *)
Ledger(m) ==
    \A c \in Characters \ troubled :
        Passed(m, c) => Stored(c) /\ (AchievementCensusJob(c) \in m.next \/ Settled(c))

(* Nobody is forgotten.                                                    *)
Owed ==
    \A c \in Characters \ troubled :
        /\ ~Stored(c) => Outstanding(Sweep)
        /\ Stored(c) => \/ Settled(c)
                        \/ Outstanding(Sweep)
                        \/ Outstanding(CharacterCensusJob(c))

IInv ==
    /\ WorldTypes
    /\ \A c \in Characters : WorldOK(c)
    /\ wk \in [Workers -> Worker]
    /\ \A w \in Workers : WorkerOK(wk[w]) /\ Ledger(wk[w])
    /\ Owed

-----------------------------------------------------------------------------
(* A nonempty set of naturals has a least element, so the next id of the   *)
(* sweep and the next chained job are well defined.                        *)
LEMMA Least ==
    ASSUME NEW S, S \subseteq Nat, S # {}
    PROVE  \E m \in S : \A n \in S : m <= n
<1> DEFINE R == OpToRel(<, Nat)
<1>1. IsWellFoundedOn(R, Nat)
  BY NatLessThanWellFounded, Zenon
<1>2. \A x, y \in Nat : y < x => <<y, x>> \in R
  BY Zenon DEF OpToRel
<1> HIDE DEF R
<1>3. \E x \in S : \A y \in S : ~(<<y, x>> \in R)
  BY <1>1, WFMin, Zenon
<1>4. PICK x \in S : \A y \in S : ~(<<y, x>> \in R)
  BY <1>3, Zenon
<1>5. \A y \in S : ~(y < x)
  BY <1>2, <1>4, Zenon
<1>6. \A y \in S : x <= y
  BY <1>5
<1> QED
  BY <1>6, Zenon
(* The next id of the sweep.                                               *)
LEMMA FirstOK ==
    ASSUME NEW S, S \subseteq Nat, S # {}
    PROVE  First(S) \in S /\ \A d \in S : First(S) <= d
  BY Least, Zenon DEF First

-----------------------------------------------------------------------------
(* doRequest hands out a genuine status only if it is the page's own: a    *)
(* retry, a challenge or a failed attempt never turns into another one.    *)
LEMMA AnswerTrue ==
    ASSUME NEW s \in Genuine, NEW answer \in Answers[s], answer.error = "none"
    PROVE  answer.status \in Genuine => answer.status = s
<1>1. PICK rs \in Attempts : /\ \A i \in DOMAIN rs : rs[i] \in Genuine => rs[i] = s
                             /\ answer = doRequest(rs)
  BY Zenon DEF Answers
<1> DEFINE decisive == {i \in DOMAIN rs : ~Retried(rs[i])}
           last == IF decisive = {} THEN Len(rs) ELSE CHOOSE i \in decisive :
                                                       \A j \in decisive : i <= j
<1>2. answer.error = ErrorOf(rs[last])
  BY <1>1, Zenon DEF doRequest
<1>3. answer.status = StatusOf(rs[last])
  BY <1>1, <1>2, Zenon DEF doRequest
<1>4. DOMAIN rs = 1 .. MaxRetries + 1 /\ Len(rs) = MaxRetries + 1 /\ \A i \in DOMAIN rs : rs[i] \in Responses
  <2>1. rs \in [1 .. MaxRetries + 1 -> Responses] /\ MaxRetries + 1 \in Nat
    BY <1>1, MaxRetriesAssumption DEF Attempts
  <2>2. rs \in Seq(Responses)
    BY <2>1
  <2> QED
    BY <2>1, <2>2
<1>5. last \in DOMAIN rs
  <2>1. CASE decisive = {}
    BY <2>1, <1>4, MaxRetriesAssumption
  <2>2. CASE decisive # {}
    <3>1. decisive \subseteq Nat
      BY <1>4
    <3>2. \E i \in decisive : \A j \in decisive : i <= j
      BY <3>1, <2>2, Least, Zenon
    <3> QED
      BY <2>2, <3>2, Zenon
  <2> QED
    BY <2>1, <2>2, Zenon
<1> HIDE DEF last, decisive
<1>6. rs[last] \in Responses /\ (rs[last] \in Genuine => rs[last] = s)
  BY <1>1, <1>4, <1>5, Zenon
<1>7. ASSUME ErrorOf(rs[last]) = "none" PROVE rs[last] \in {"403", "404", "500", "200"}
  BY <1>6, <1>7, Zenon DEF ErrorOf, Responses, Failures, Statuses, Rejected, WrapProxyDial,
                    isCloudflareChallenge, StatusOf
<1>8. rs[last] \in {"403", "404", "500", "200"}
  BY <1>2, <1>7, Zenon
<1>9. answer.status = rs[last]
  BY <1>3, <1>8, Zenon DEF StatusOf
<1> QED
  BY <1>6, <1>9, Zenon

(* FetchCharacter shows a profile only as it is, and an absence only if    *)
(* the page is not public.                                                 *)
LEMMA FetchTrue ==
    ASSUME NEW t \in Truth, NEW answer \in Answers[ProfileStatus(t)],
           FetchCharacter(answer, t.page) # "error"
    PROVE  LET seen == FetchCharacter(answer, t.page) IN
           /\ seen \in Public \cup {"hidden", "absent"}
           /\ t.page \in Public => seen \in Public
<1>1. t.page \in Pages
  BY Zenon DEF Truth
<1>2. ProfileStatus(t) \in Genuine
  BY Zenon DEF ProfileStatus, Genuine
<1>3. answer.error = "none" /\ answer.status \in {"404", "403", "200"}
  BY Zenon DEF FetchCharacter, NotFoundStatus
<1>4. answer.status = ProfileStatus(t)
  BY <1>2, <1>3, AnswerTrue, Zenon DEF Genuine
<1>5. CASE answer.status = "200"
  <2>1. t.page \notin {"absent", "restricted"}
    BY <1>4, <1>5, Zenon DEF ProfileStatus
  <2>2. FetchCharacter(answer, t.page) = parseCharacterProfile(t.page)
    BY <1>3, <1>5, Zenon DEF FetchCharacter, NotFoundStatus
  <2> QED
    BY <1>1, <2>1, <2>2, Zenon DEF parseCharacterProfile, Pages, Public
<1>6. CASE answer.status # "200"
  <2>1. t.page \in {"absent", "restricted"}
    BY <1>1, <1>4, <1>6, Zenon DEF ProfileStatus
  <2>2. FetchCharacter(answer, t.page) = "absent"
    BY <1>3, <1>6, Zenon DEF FetchCharacter, NotFoundStatus
  <2> QED
    BY <2>1, <2>2, Zenon DEF Public
<1> QED
  BY <1>5, <1>6, Zenon

(* The achievement list is missing only for a page that is gone.           *)
LEMMA ListTrue ==
    ASSUME NEW t \in Truth, NEW answer \in Answers[AchievementStatus(t)]
    PROVE  /\ FetchList(answer) \in {"error", "notfound", "private", "list"}
           /\ FetchList(answer) = "notfound" => t.page \notin Public
<1>1. FetchList(answer) \in {"error", "notfound", "private", "list"}
  BY Zenon DEF FetchList
<1>2. ASSUME FetchList(answer) = "notfound" PROVE t.page \notin Public
  <2>1. answer.error = "none" /\ answer.status = "404"
    BY <1>2, Zenon DEF FetchList
  <2>2. AchievementStatus(t) \in Genuine
    BY Zenon DEF AchievementStatus, Genuine
  <2>3. AchievementStatus(t) = "404"
    BY <2>1, <2>2, AnswerTrue, Zenon DEF Genuine
  <2>4. t.page = "absent"
    BY <2>3, Zenon DEF AchievementStatus
  <2> QED
    BY <2>4, Zenon DEF Public
<1> QED
  BY <1>1, <1>2, Zenon

(* The newest achievement of a character who has earned any is one of      *)
(* them, and the milestone loop finds earned ones only.                    *)
LEMMA EarnedOnly ==
    ASSUME NEW n \in Nat, n >= 1
    PROVE  /\ extractLatestAchievement(1 .. n) \in 1 .. n
           /\ \A missing \in SUBSET Nat : EarnedPrefix(missing, 1 .. n) \subseteq 1 .. n
<1>1. n \in 1 .. n /\ \A m \in 1 .. n : m <= n
  OBVIOUS
<1>2. \E m \in 1 .. n : \A k \in 1 .. n : k <= m
  BY <1>1, Zenon
<1>3. extractLatestAchievement(1 .. n) = CHOOSE m \in 1 .. n : \A k \in 1 .. n : k <= m
  BY <1>1, Zenon DEF extractLatestAchievement
<1>4. extractLatestAchievement(1 .. n) \in 1 .. n
  BY <1>2, <1>3, Zenon
<1>5. ASSUME NEW missing \in SUBSET Nat, NEW m \in EarnedPrefix(missing, 1 .. n) PROVE m \in 1 .. n
  <2>1. m \in missing /\ \A k \in missing : k <= m => k \in 1 .. n
    BY Zenon DEF EarnedPrefix
  <2>2. m <= m
    BY <2>1
  <2> QED
    BY <2>1, <2>2, Zenon
<1> QED
  BY <1>4, <1>5, Zenon
-----------------------------------------------------------------------------
(* A job that has left the queue and every worker has done its work.       *)
Finished(j) ==
    \A c \in Characters \ troubled :
        /\ j = Sweep => Stored(c) /\ Settled(c)
        /\ j = CharacterCensusJob(c) => Settled(c)
        /\ j = AchievementCensusJob(c) => Done(c)

(* What every step of a worker guarantees: the Lodestone and the other     *)
(* workers are left alone, nothing stored is lost, a job disappears only   *)
(* when it is finished, and the worker's own books are in order.           *)
Grows == \A c \in Characters : (Stored(c) => Stored(c)') /\ (Done(c) => Done(c)')
Handed == \A j \in Jobs : Outstanding(j) => Outstanding(j)' \/ Finished(j)'
World == WorldTypes /\ \A c \in Characters : WorldOK(c)
Mine(w) == wk[w] \in Worker /\ WorkerOK(wk[w]) /\ Ledger(wk[w])

Good(w) ==
    /\ UNCHANGED <<truth, troubled>>
    /\ wk' = [wk EXCEPT ![w] = wk'[w]]
    /\ World' /\ Grows /\ Handed /\ Mine(w)'

(* The jobs of a character are jobs, and of three different kinds.         *)
LEMMA JobFacts ==
    /\ Sweep \in Jobs
    /\ \A c \in Characters :
         /\ CharacterCensusJob(c) \in Jobs /\ AchievementCensusJob(c) \in Jobs
         /\ CharacterCensusJob(c) # Sweep /\ AchievementCensusJob(c) # Sweep
         /\ AchievementCensusJob(c) \in Chained
    /\ \A c, d : /\ CharacterCensusJob(c) # AchievementCensusJob(d)
                 /\ (CharacterCensusJob(c) = CharacterCensusJob(d)) => c = d
                 /\ (AchievementCensusJob(c) = AchievementCensusJob(d)) => c = d
                 /\ AchievementCensusJob(c).id = c /\ CharacterCensusJob(c).id = c
                 /\ AchievementCensusJob(c) # Sweep /\ CharacterCensusJob(c) # Sweep
    /\ \A c : /\ AchievementCensusJob(c).type = "achievement-census"
              /\ CharacterCensusJob(c).type # "achievement-census"
    /\ Sweep.type # "achievement-census"
  BY Zenon DEF Jobs, Sweep, CharacterCensusJob, AchievementCensusJob, Chained

(* A settled character stays settled.                                      *)
LEMMA StaysSettled ==
    ASSUME Grows, Handed, NEW c \in Characters, c \notin troubled', Settled(c)
    PROVE  Settled(c)'
<1>1. CASE Done(c)
  BY <1>1, Zenon DEF Grows, Settled
<1>2. CASE Outstanding(AchievementCensusJob(c))
  <2>1. Outstanding(AchievementCensusJob(c))' \/ Finished(AchievementCensusJob(c))'
    BY <1>2, JobFacts, Zenon DEF Handed
  <2>2. Finished(AchievementCensusJob(c))' => Done(c)'
    BY Zenon DEF Finished
  <2> QED
    BY <2>1, <2>2, Zenon DEF Settled
<1> QED
  BY <1>1, <1>2, Zenon DEF Settled

(* A good step keeps the invariant.                                        *)
LEMMA GoodKeeps ==
    ASSUME IInv, NEW w \in Workers, Good(w)
    PROVE  IInv'
<1>1. /\ wk \in [Workers -> Worker] /\ wk' = [wk EXCEPT ![w] = wk'[w]]
      /\ UNCHANGED <<truth, troubled>> /\ World' /\ Grows /\ Handed /\ Mine(w)'
  BY Zenon DEF IInv, Good
<1>2. wk' \in [Workers -> Worker]
  <2>1. wk'[w] \in Worker
    BY <1>1, Zenon DEF Mine
  <2> QED
    BY <1>1, <2>1, Zenon
<1>3. ASSUME NEW v \in Workers PROVE WorkerOK(wk[v])' /\ Ledger(wk[v])'
  <2>1. CASE v = w
    BY <1>1, <2>1, Zenon DEF Mine
  <2>2. CASE v # w
    <3>1. wk'[v] = wk[v]
      BY <1>1, <2>2, Zenon
    <3>2. WorkerOK(wk[v]) /\ Ledger(wk[v])
      BY Zenon DEF IInv
    <3>3. WorkerOK(wk[v])'
      BY <1>1, <3>1, <3>2, Zenon DEF WorkerOK
    <3>4. ASSUME NEW c \in Characters \ troubled', Passed(wk[v], c)'
          PROVE  Stored(c)' /\ (AchievementCensusJob(c) \in wk'[v].next \/ Settled(c)')
      <4>1. Passed(wk[v], c)
        BY <3>1, <3>4, Zenon DEF Passed
      <4>2. Stored(c) /\ (AchievementCensusJob(c) \in wk[v].next \/ Settled(c))
        BY <1>1, <3>2, <4>1, Zenon DEF Ledger
      <4>3. Stored(c)'
        BY <1>1, <4>2, Zenon DEF Grows
      <4>4. Settled(c) => Settled(c)'
        BY <1>1, StaysSettled, Zenon
      <4> QED
        BY <3>1, <4>2, <4>3, <4>4, Zenon
    <3>5. Ledger(wk[v])'
      BY <3>4, Zenon DEF Ledger
    <3> QED
      BY <3>3, <3>5, Zenon
  <2> QED
    BY <2>1, <2>2, Zenon
<1>4. Owed'
  <2> SUFFICES ASSUME NEW c \in Characters, c \notin troubled'
               PROVE  /\ ~Stored(c)' => Outstanding(Sweep)'
                      /\ Stored(c)' => \/ Settled(c)'
                                       \/ Outstanding(Sweep)'
                                       \/ Outstanding(CharacterCensusJob(c))'
    BY Zenon DEF Owed
  <2>1. /\ ~Stored(c) => Outstanding(Sweep)
        /\ Stored(c) => Settled(c) \/ Outstanding(Sweep) \/ Outstanding(CharacterCensusJob(c))
    BY <1>1, Zenon DEF IInv, Owed
  <2>2. Settled(c) => Settled(c)'
    BY <1>1, StaysSettled, Zenon
  <2>3. Stored(c) => Stored(c)'
    BY <1>1, Zenon DEF Grows
  <2>4. Outstanding(Sweep) => Outstanding(Sweep)' \/ (Stored(c)' /\ Settled(c)')
    <3>1. Outstanding(Sweep) => Outstanding(Sweep)' \/ Finished(Sweep)'
      BY <1>1, JobFacts, Zenon DEF Handed
    <3>2. Finished(Sweep)' => Stored(c)' /\ Settled(c)'
      BY Zenon DEF Finished
    <3> QED
      BY <3>1, <3>2, Zenon
  <2>5. Outstanding(CharacterCensusJob(c)) => Outstanding(CharacterCensusJob(c))' \/ Settled(c)'
    <3>1. Outstanding(CharacterCensusJob(c)) =>
              Outstanding(CharacterCensusJob(c))' \/ Finished(CharacterCensusJob(c))'
      BY <1>1, JobFacts, Zenon DEF Handed
    <3>2. Finished(CharacterCensusJob(c))' => Settled(c)'
      BY Zenon DEF Finished
    <3> QED
      BY <3>1, <3>2, Zenon
  <2> QED
    BY <2>1, <2>2, <2>3, <2>4, <2>5, Zenon
<1> QED
  BY <1>1, <1>2, <1>3, <1>4, Zenon DEF IInv, World
-----------------------------------------------------------------------------
(* A worker turns to record n, and only job d, which it held or took from  *)
(* the queue, can leave the queue: no other job is lost.                   *)
Turns(w, n, d) ==
    /\ wk' = [wk EXCEPT ![w] = n]
    /\ wk[w].pc = "idle" \/ wk[w].job = d
    /\ \A j \in Jobs : j \in queue /\ j # d => j \in queue'

(* A worker that turns to another job loses nobody else's.                 *)
LEMMA OthersKept ==
    ASSUME wk \in [Workers -> Worker], NEW w \in Workers, NEW n, NEW d, Turns(w, n, d),
           NEW j \in Jobs, j # d, Outstanding(j)
    PROVE  Outstanding(j)'
<1>1. CASE j \in queue
  BY <1>1, Zenon DEF Turns, Outstanding
<1>2. CASE j \notin queue
  <2>1. PICK v \in Workers : wk[v].pc # "idle" /\ wk[v].job = j
    BY <1>2, Zenon DEF Outstanding
  <2>2. v # w
    BY <2>1, Zenon DEF Turns
  <2>3. wk'[v] = wk[v]
    BY <2>2, Zenon DEF Turns
  <2> QED
    BY <2>1, <2>3, Zenon DEF Outstanding
<1> QED
  BY <1>1, <1>2, Zenon

(* Nor is d, if the worker holds it, or it is queued, or it is finished.   *)
LEMMA AllHanded ==
    ASSUME wk \in [Workers -> Worker], NEW w \in Workers, NEW n, NEW d, Turns(w, n, d),
           (n.pc # "idle" /\ n.job = d) \/ d \in queue' \/ Finished(d)'
    PROVE  Handed
<1> SUFFICES ASSUME NEW j \in Jobs, Outstanding(j)
             PROVE  Outstanding(j)' \/ Finished(j)'
  BY Zenon DEF Handed
<1>1. CASE j # d
  BY <1>1, OthersKept, Zenon
<1>2. CASE j = d
  <2>1. wk'[w] = n
    BY Zenon DEF Turns
  <2>2. CASE n.pc # "idle" /\ n.job = d
    BY <1>2, <2>1, <2>2, Zenon DEF Outstanding
  <2>3. CASE d \in queue'
    BY <1>2, <2>3, Zenon DEF Outstanding
  <2> QED
    BY <1>2, <2>2, <2>3, Zenon
<1> QED
  BY <1>1, <1>2, Zenon

(* The fields of an idle worker.                                           *)
LEMMA IdleFacts ==
    /\ Idle \in Worker
    /\ Idle.pc = "idle" /\ Idle.job = Sweep /\ Idle.at = 0 /\ Idle.next = {}
    /\ Idle.page = "none" /\ Idle.missing = {} /\ Idle.latest = 0
  BY JobFacts, Zenon DEF Idle, Worker

(* An idle worker owes nothing.                                            *)
LEMMA IdleMine ==
    ASSUME wk \in [Workers -> Worker], NEW w \in Workers, wk' = [wk EXCEPT ![w] = Idle]
    PROVE  Mine(w)'
<1>1. wk'[w] = Idle
  BY Zenon
<1>2. wk'[w] \in Worker /\ wk'[w].pc = "idle"
  BY <1>1, IdleFacts, Zenon
<1>3. WorkerOK(wk[w])'
  BY <1>2, Zenon DEF WorkerOK
<1>4. Ledger(wk[w])'
  BY <1>2, Zenon DEF Ledger, Passed
<1> QED
  BY <1>2, <1>3, <1>4, Zenon DEF Mine

(* A step that leaves the store alone.                                     *)
LEMMA StoreAlone ==
    ASSUME IInv, UNCHANGED <<truth, rows, troubled>>
    PROVE  World' /\ Grows /\ \A c \in Characters : (Stored(c)' <=> Stored(c)) /\ (Done(c)' <=> Done(c))
<1>1. WorldTypes'
  BY Zenon DEF IInv, WorldTypes
<1>2. \A c \in Characters : WorldOK(c)'
  BY Zenon DEF IInv, WorldOK
<1> QED
  BY <1>1, <1>2, Zenon DEF World, Grows, Stored, Done

(* A delivery that fails goes back to the queue: nothing is lost.          *)
LEMMA RedeliverGood ==
    ASSUME IInv, NEW w \in Workers, NEW job, Redeliver(w, job),
           wk[w].pc = "idle" \/ wk[w].job = job, UNCHANGED <<truth, rows, troubled>>
    PROVE  Good(w)
<1>1. wk \in [Workers -> Worker]
  BY Zenon DEF IInv
<1> DEFINE n == Idle
<1>2. Turns(w, n, job)
  BY Zenon DEF Turns, Redeliver
<1>3. job \in queue'
  BY Zenon DEF Redeliver
<1>4. wk' = [wk EXCEPT ![w] = n]
  BY Zenon DEF Redeliver
<1>5. Mine(w)'
  BY <1>1, <1>4, IdleMine, Zenon
<1> HIDE DEF n
<1>6. Handed
  BY <1>1, <1>2, <1>3, AllHanded, Zenon
<1>7. wk' = [wk EXCEPT ![w] = wk'[w]]
  BY <1>1, <1>4, Zenon
<1> QED
  BY <1>5, <1>6, <1>7, StoreAlone, Zenon DEF Good
(* A worker that goes on, chains or ends after the character it was at     *)
(* keeps its books, and ends only with a finished job.                     *)
LEMMA AdvanceGood ==
    ASSUME IInv, NEW w \in Workers, NEW at \in Worker, at.at \in Characters,
           at.pc \in {"fetch", "store"}, at.job \in {Sweep, CharacterCensusJob(at.at)},
           Ledger(at), NEW chained \in SUBSET Chained, Advance(w, at, chained),
           UNCHANGED <<truth, troubled>>, World', Grows,
           wk[w].pc = "idle" \/ wk[w].job = at.job,
           \A j \in Jobs : j \in queue /\ j # at.job => j \in queue',
           at.at \notin troubled => AchievementCensusJob(at.at) \in chained /\ Stored(at.at)'
    PROVE  Good(w)
<1> DEFINE next == at.next \cup chained
           rest == {c \in Characters : c > at.at}
           f == [at EXCEPT !.pc = "fetch", !.at = First(rest), !.next = next, !.page = "none"]
           g == [at EXCEPT !.pc = "chain", !.next = next, !.page = "none"]
           n == IF at.job = Sweep /\ rest # {} THEN f ELSE IF next # {} THEN g ELSE Idle
<1>1. wk \in [Workers -> Worker] /\ wk' = [wk EXCEPT ![w] = n]
  BY Zenon DEF IInv, Advance
<1>2. next \in SUBSET Chained
  BY Zenon DEF Worker
<1>3. g \in Worker /\ g.pc = "chain" /\ g.job = at.job /\ g.at = at.at /\ g.next = next
  <2>1. at.at \in Nat
    BY Zenon DEF Worker
  <2> HIDE DEF next
  <2> QED
    BY <1>2, <2>1, Zenon DEF Worker
<1>4. ASSUME rest # {}
      PROVE  /\ First(rest) \in Characters /\ First(rest) \in rest /\ \A d \in rest : First(rest) <= d
             /\ f \in Worker /\ f.pc = "fetch" /\ f.job = at.job /\ f.at = First(rest) /\ f.next = next
  <2>1. rest \subseteq Nat
    BY IngestAssumption, Zenon
  <2>2. First(rest) \in rest /\ \A d \in rest : First(rest) <= d
    <3> HIDE DEF rest
    <3> QED
      BY <1>4, <2>1, FirstOK, Zenon
  <2>3. First(rest) \in Characters /\ First(rest) \in Nat
    BY <2>1, <2>2, Zenon
  <2> HIDE DEF next, rest
  <2>4. f \in Worker /\ f.pc = "fetch" /\ f.job = at.job /\ f.at = First(rest) /\ f.next = next
    BY <1>2, <2>3, Zenon DEF Worker
  <2> QED
    BY <2>2, <2>3, <2>4, Zenon
<1> DEFINE Through(c) == (at.job = Sweep /\ c <= at.at) \/ at.job = CharacterCensusJob(c)
<1>5. Turns(w, n, at.job)
  BY <1>1, Zenon DEF Turns
<1>6. ASSUME NEW c \in Characters, c \notin troubled, Through(c)
      PROVE  Stored(c)' /\ (AchievementCensusJob(c) \in next \/ Settled(c)')
  <2>1. CASE c = at.at
    BY <1>6, <2>1, Zenon
  <2>2. CASE c # at.at
    <3>1. at.job = Sweep /\ c < at.at
      BY <1>6, <2>2, JobFacts, IngestAssumption, SMTT(30) DEF Worker
    <3>2. Passed(at, c)
      BY <3>1, Zenon DEF Passed
    <3>3. Stored(c) /\ (AchievementCensusJob(c) \in at.next \/ Settled(c))
      BY <1>6, <3>2, Zenon DEF Ledger
    <3>4. Stored(c)' /\ (Done(c) => Done(c)')
      BY <3>3, Zenon DEF Grows
    <3>5. ASSUME Outstanding(AchievementCensusJob(c)) PROVE Outstanding(AchievementCensusJob(c))'
      <4>1. AchievementCensusJob(c) \in Jobs /\ AchievementCensusJob(c) # at.job
        BY <3>1, JobFacts, Zenon
      <4> HIDE DEF n
      <4> QED
        BY <1>1, <1>5, <3>5, <4>1, OthersKept, Zenon
    <3> QED
      BY <3>3, <3>4, <3>5, Zenon DEF Settled
  <2> QED
    BY <2>1, <2>2, Zenon
<1>10. ASSUME ~(at.job = Sweep /\ rest # {}), NEW c \in Characters,
              at.job = Sweep \/ at.job = CharacterCensusJob(c)
       PROVE  Through(c)
  <2>1. CASE at.job = Sweep
    <3>1. ~(c > at.at)
      BY <1>10, <2>1, Zenon
    <3>2. c \in Nat /\ at.at \in Nat
      BY IngestAssumption, Zenon
    <3>3. c <= at.at
      BY <3>1, <3>2
    <3> QED
      BY <2>1, <3>3, Zenon
  <2>2. CASE at.job # Sweep
    BY <1>10, <2>2, Zenon
  <2> QED
    BY <2>1, <2>2, Zenon
<1> HIDE DEF f, g, next
<1>7. CASE at.job = Sweep /\ rest # {}
  <2>1. n = f
    BY <1>7, Zenon
  <2>2. wk'[w] = f
    BY <1>1, <2>1, Zenon
  <2>3. WorkerOK(wk[w])'
    BY <1>4, <1>7, <2>2 DEF WorkerOK, Sweep, AchievementCensusJob
  <2>4. ASSUME NEW c \in Characters, c \notin troubled', Passed(wk[w], c)'
        PROVE  Stored(c)' /\ (AchievementCensusJob(c) \in wk'[w].next \/ Settled(c)')
    <3>1. c < First(rest)
      BY <1>4, <1>7, <2>2, <2>4, Zenon DEF Passed, Sweep, CharacterCensusJob
    <3>2. c \in Nat /\ at.at \in Nat
      BY IngestAssumption
    <3>3. c \notin rest
      <4>1. First(rest) \in Nat
        BY <1>4, <1>7, IngestAssumption, Zenon
      <4>2. c \in rest => First(rest) <= c
        BY <1>4, <1>7, Zenon
      <4> QED
        BY <3>1, <3>2, <4>1, <4>2, SMTT(30)
    <3>4. Through(c)
      BY <1>7, <3>2, <3>3
    <3> QED
      BY <1>4, <1>6, <1>7, <2>2, <2>4, <3>4, Zenon
  <2>5. Mine(w)'
    BY <1>4, <1>7, <2>2, <2>3, <2>4, Zenon DEF Mine, Ledger
  <2>6. Handed
    <3>1. n.pc # "idle" /\ n.job = at.job
      BY <1>4, <1>7, <2>1, Zenon
    <3> HIDE DEF n
    <3> QED
      BY <1>1, <1>5, <3>1, AllHanded, Zenon
  <2> HIDE DEF n
  <2> QED
    BY <1>1, <2>5, <2>6, Zenon DEF Good
<1>8. CASE ~(at.job = Sweep /\ rest # {}) /\ next # {}
  <2>1. n = g
    BY <1>8, Zenon
  <2>2. wk'[w] = g
    BY <1>1, <2>1, Zenon
  <2>3. WorkerOK(wk[w])'
    BY <1>3, <1>8, <2>2 DEF WorkerOK, Sweep, AchievementCensusJob, CharacterCensusJob
  <2>4. ASSUME NEW c \in Characters, c \notin troubled', Passed(wk[w], c)'
        PROVE  Stored(c)' /\ (AchievementCensusJob(c) \in wk'[w].next \/ Settled(c)')
    <3>1. at.job = Sweep \/ at.job = CharacterCensusJob(c)
      BY <1>3, <2>2, <2>4, Zenon DEF Passed
    <3>2. Through(c)
      BY <1>8, <1>10, <3>1, Zenon
    <3> QED
      BY <1>3, <1>6, <2>2, <2>4, <3>2, Zenon
  <2>5. Mine(w)'
    BY <1>3, <2>2, <2>3, <2>4, Zenon DEF Mine, Ledger
  <2>6. Handed
    <3>1. n.pc # "idle" /\ n.job = at.job
      BY <1>3, <2>1, Zenon
    <3> HIDE DEF n
    <3> QED
      BY <1>1, <1>5, <3>1, AllHanded, SMTT(30)
  <2> HIDE DEF n
  <2> QED
    BY <1>1, <2>5, <2>6 DEF Good
<1>9. CASE ~(at.job = Sweep /\ rest # {}) /\ next = {}
  <2>1. n = Idle
    BY <1>9, Zenon
  <2>2. wk' = [wk EXCEPT ![w] = Idle]
    BY <1>1, <2>1, Zenon
  <2>3. Mine(w)'
    BY <1>1, <2>2, IdleMine, Zenon
  <2>4. ASSUME NEW c \in Characters, c \notin troubled', at.job = Sweep \/ at.job = CharacterCensusJob(c)
        PROVE  Stored(c)' /\ Settled(c)'
    <3>1. Through(c)
      BY <1>9, <1>10, <2>4, Zenon
    <3> QED
      BY <1>6, <1>9, <2>4, <3>1, Zenon
  <2>5. Finished(at.job)'
    BY <2>4, JobFacts DEF Finished
  <2>6. Handed
    <3> HIDE DEF n
    <3> QED
      BY <1>1, <1>5, <2>5, AllHanded, Zenon
  <2> HIDE DEF n
  <2> QED
    BY <1>1, <2>3, <2>6 DEF Good
<1> QED
  BY <1>7, <1>8, <1>9, Zenon
-----------------------------------------------------------------------------
(* A write to one row keeps the store in order if the new row tells no     *)
(* false death and nothing that was not earned, and takes nothing back.    *)
LEMMA RowWritten ==
    ASSUME IInv, NEW c \in Characters, NEW r \in Row, rows' = [rows EXCEPT ![c] = r],
           UNCHANGED <<truth, troubled>>,
           c \notin troubled => ~r.deleted,
           r.milestones \subseteq 1 .. truth[c].earned, r.latest <= truth[c].earned,
           Stored(c) => r.page # "none", Done(c) => r.private \/ r.latest # 0
    PROVE  World' /\ Grows
<1>1. WorldTypes /\ \A d \in Characters : WorldOK(d)
  BY Zenon DEF IInv
<1>2. rows'[c] = r /\ \A d \in Characters : d # c => rows'[d] = rows[d]
  BY <1>1, Zenon DEF WorldTypes
<1>3. WorldTypes'
  BY <1>1, Zenon DEF WorldTypes
<1>4. ASSUME NEW d \in Characters PROVE WorldOK(d)'
  <2>1. CASE d = c
    BY <1>1, <1>2, <2>1, Zenon DEF WorldOK
  <2>2. CASE d # c
    BY <1>1, <1>2, <2>2, Zenon DEF WorldOK
  <2> QED
    BY <2>1, <2>2, Zenon
<1>5. Grows
  BY <1>2, Zenon DEF Grows, Stored, Done
<1> QED
  BY <1>3, <1>4, <1>5, Zenon DEF World

(* A worker that asks about the character it is at, whether it has just    *)
(* taken the job or is inside a sweep.                                     *)
LEMMA FetchAtGood ==
    ASSUME IInv, NEW w \in Workers, NEW at \in Worker, at.pc = "fetch", WorkerOK(at), Ledger(at),
           wk[w].pc = "idle" \/ wk[w].job = at.job, FetchAt(w, at)
    PROVE  Good(w)
<1>1. /\ at.at \in Characters /\ at.job \in {Sweep, CharacterCensusJob(at.at)}
      /\ wk \in [Workers -> Worker]
  BY Zenon DEF WorkerOK, IInv
<1>2. /\ truth[at.at] \in Truth
      /\ at.at \notin troubled => truth[at.at].page \in Public
  BY <1>1, Zenon DEF IInv, WorldTypes, WorldOK
<1> DEFINE t == truth[at.at]
<1>3. PICK answer \in Answers[ProfileStatus(t)] :
        /\ LET seen == FetchCharacter(answer, t.page) IN
           IF seen = "error" THEN Redeliver(w, at.job)
           ELSE /\ IF seen = "absent" /\ at.job = Sweep
                   THEN Advance(w, at, {})
                   ELSE wk' = [wk EXCEPT ![w] = [at EXCEPT !.pc = "store", !.page = seen]]
                /\ queue' = queue \ {at.job}
        /\ UNCHANGED <<truth, rows, order, troubled, changes>>
  BY Zenon DEF FetchAt
<1> DEFINE seen == FetchCharacter(answer, t.page)
<1>4. UNCHANGED <<truth, rows, troubled>> /\ World' /\ Grows
  BY <1>3, StoreAlone, Zenon
<1>5. seen # "error" => /\ seen \in Public \cup {"hidden", "absent"}
                        /\ at.at \notin troubled => seen \in Public
  BY <1>2, <1>3, FetchTrue, Zenon
<1> HIDE DEF seen
<1>6. CASE seen = "error"
  <2>1. Redeliver(w, at.job)
    BY <1>3, <1>6, Zenon DEF seen
  <2> QED
    BY <1>4, <2>1, RedeliverGood, Zenon
<1>7. CASE seen # "error" /\ seen = "absent" /\ at.job = Sweep
  <2>1. Advance(w, at, {}) /\ queue' = queue \ {at.job}
    BY <1>3, <1>7, Zenon DEF seen
  <2>2. at.at \in troubled
    BY <1>5, <1>7, Zenon DEF Public
  <2>3. \A j \in Jobs : j \in queue /\ j # at.job => j \in queue'
    BY <2>1, Zenon
  <2> DEFINE chained == {}
  <2>4. chained \in SUBSET Chained /\ Advance(w, at, chained)
    BY <2>1, Zenon
  <2> HIDE DEF chained
  <2> QED
    BY <1>1, <1>4, <2>2, <2>3, <2>4, AdvanceGood, Zenon
<1>8. CASE seen # "error" /\ ~(seen = "absent" /\ at.job = Sweep)
  <2> DEFINE n == [at EXCEPT !.pc = "store", !.page = seen]
  <2>1. wk' = [wk EXCEPT ![w] = n] /\ queue' = queue \ {at.job}
    BY <1>3, <1>8, Zenon DEF seen
  <2>2. /\ n \in Worker /\ n.pc = "store" /\ n.page = seen /\ n.job = at.job /\ n.at = at.at
        /\ n.next = at.next
    BY <1>5, <1>8, Zenon DEF Worker, Pages
  <2> HIDE DEF n
  <2>3. wk'[w] = n /\ wk' = [wk EXCEPT ![w] = wk'[w]]
    BY <1>1, <2>1, Zenon
  <2>4. Turns(w, n, at.job)
    BY <2>1, Zenon DEF Turns
  <2>5. Handed
    BY <1>1, <2>2, <2>4, AllHanded, Zenon
  <2>6. WorkerOK(wk[w])'
    BY <1>1, <1>4, <1>5, <1>8, <2>2, <2>3, JobFacts, Zenon DEF WorkerOK
  <2>7. ASSUME NEW c \in Characters, c \notin troubled', Passed(wk[w], c)'
        PROVE  Stored(c)' /\ (AchievementCensusJob(c) \in wk'[w].next \/ Settled(c)')
    <3>1. Passed(at, c)
      BY <2>2, <2>3, <2>7, Zenon DEF Passed
    <3>2. Stored(c) /\ (AchievementCensusJob(c) \in at.next \/ Settled(c))
      BY <1>4, <2>7, <3>1, Zenon DEF Ledger
    <3>3. Settled(c) => Settled(c)'
      BY <1>4, <2>5, <2>7, StaysSettled, Zenon
    <3>4. Stored(c)'
      BY <1>4, <3>2, Zenon DEF Grows
    <3> QED
      BY <2>2, <2>3, <3>2, <3>3, <3>4, Zenon
  <2>8. Mine(w)'
    BY <2>2, <2>3, <2>6, <2>7, Zenon DEF Mine, Ledger
  <2> QED
    BY <1>4, <2>3, <2>5, <2>8, Zenon DEF Good
<1> QED
  BY <1>6, <1>7, <1>8, Zenon
(* A job that has just been taken starts at the first id, or at its own.   *)
LEMMA StartedFacts ==
    ASSUME NEW w, NEW job \in Jobs
    PROVE  LET s == Started(w, job) IN
           /\ s \in Worker /\ s.pc = "fetch" /\ s.job = job /\ s.next = {} /\ s.at \in Characters
           /\ s.missing = {} /\ s.latest = 0 /\ s.page = "none"
           /\ job = Sweep => \A c \in Characters : s.at <= c
           /\ job # Sweep => s.at = job.id
           /\ job \in {Sweep, CharacterCensusJob(s.at), AchievementCensusJob(s.at)}
<1> DEFINE a == IF job = Sweep THEN First(Characters) ELSE job.id
           s == [Idle EXCEPT !.pc = "fetch", !.job = job, !.at = a]
<1>1. First(Characters) \in Characters /\ \A d \in Characters : First(Characters) <= d
  BY FirstOK, IngestAssumption, Zenon
<1>2. /\ a \in Characters
      /\ job \in {Sweep, CharacterCensusJob(a), AchievementCensusJob(a)}
  BY <1>1, JobFacts DEF Jobs
<1>3. (job = Sweep => \A c \in Characters : a <= c) /\ (job # Sweep => a = job.id)
  BY <1>1, Zenon
<1> HIDE DEF a
<1>4. a \in Nat
  BY <1>2, IngestAssumption, Zenon
<1>5. /\ s \in Worker /\ s.pc = "fetch" /\ s.job = job /\ s.next = {} /\ s.at = a
      /\ s.missing = {} /\ s.latest = 0 /\ s.page = "none"
  BY <1>4, Zenon DEF Idle, Worker
<1>6. Started(w, job) = s
  BY Zenon DEF Started, a
<1> HIDE DEF s
<1> QED
  BY <1>2, <1>3, <1>5, <1>6, Zenon

(* A worker takes an id-sweep or a character-census job.                   *)
LEMMA FetchGood ==
    ASSUME IInv, NEW w \in Workers, NEW job \in Jobs, Fetch(w, job)
    PROVE  Good(w)
<1> DEFINE at == Started(w, job)
<1>1. wk[w].pc = "idle" /\ FetchAt(w, at) /\ job.type # "achievement-census"
  BY Zenon DEF Fetch, Take
<1>2. /\ at \in Worker /\ at.pc = "fetch" /\ at.job = job /\ at.at \in Characters
      /\ job = Sweep => \A c \in Characters : at.at <= c
      /\ job \in {Sweep, CharacterCensusJob(at.at), AchievementCensusJob(at.at)}
  BY StartedFacts
<1> HIDE DEF at
<1>3. WorkerOK(at)
  BY <1>1, <1>2, JobFacts, Zenon DEF WorkerOK
<1>4. \A c \in Characters : ~Passed(at, c)
  <2>1. \A c \in Characters : c \in Nat /\ at.at \in Nat
    BY <1>2, IngestAssumption, Zenon
  <2> QED
    BY <1>2, <2>1 DEF Passed
<1>5. Ledger(at)
  BY <1>4, Zenon DEF Ledger
<1> QED
  BY <1>1, <1>2, <1>3, <1>5, FetchAtGood, Zenon

(* A worker asks about the next id of its sweep.                           *)
LEMMA FetchNextGood ==
    ASSUME IInv, NEW w \in Workers, FetchNext(w)
    PROVE  Good(w)
<1> DEFINE at == wk[w]
<1>1. at.pc = "fetch" /\ FetchAt(w, at)
  BY Zenon DEF FetchNext
<1>2. at \in Worker /\ WorkerOK(at) /\ Ledger(at)
  BY Zenon DEF IInv
<1>3. wk[w].pc = "idle" \/ wk[w].job = at.job
  BY Zenon
<1> HIDE DEF at
<1> QED
  BY <1>1, <1>2, <1>3, FetchAtGood, Zenon

(* A worker writes what it saw of a character.                             *)
LEMMA StoreGood ==
    ASSUME IInv, NEW w \in Workers, Store(w)
    PROVE  Good(w)
<1>0. PICK m \in Worker : m = wk[w]
  BY Zenon DEF IInv
<1>1. WorkerOK(m) /\ Ledger(m) /\ m.pc = "store" /\ wk \in [Workers -> Worker]
  BY <1>0, Zenon DEF IInv, Store
<1>c. PICK c \in Characters : c = m.at
  BY <1>1, Zenon DEF WorkerOK
<1>2. /\ m.at = c /\ m.job \in {Sweep, CharacterCensusJob(c)}
      /\ m.page \in Public \cup {"hidden", "absent"}
      /\ c \notin troubled => m.page \in Public
      /\ m.page = "absent" => m.job # Sweep
  BY <1>1, <1>c, Zenon DEF WorkerOK
<1>3. rows[c] \in Row /\ WorldOK(c) /\ rows \in [Characters -> Row]
  BY <1>2, Zenon DEF IInv, WorldTypes
<1>4. UNCHANGED <<truth, queue, troubled>>
  BY Zenon DEF Store
<1>5. wk[w].pc = "idle" \/ wk[w].job = m.job
  BY <1>0, Zenon
<1>6. CASE m.page = "absent"
  <2>1. MarkDeleted(c) /\ Ack(w)
    BY <1>0, <1>2, <1>6, Zenon DEF Store
  <2>2. c \in troubled
    BY <1>2, <1>6, Zenon DEF Public
  <2> DEFINE r == [rows[c] EXCEPT !.deleted = TRUE]
  <2>3. /\ r \in Row /\ r.page = rows[c].page /\ r.private = rows[c].private
        /\ r.milestones = rows[c].milestones /\ r.latest = rows[c].latest
    BY <1>3, Zenon DEF Row
  <2>4. rows' = [rows EXCEPT ![c] = r]
    BY <2>1, Zenon DEF MarkDeleted
  <2> HIDE DEF r
  <2>5. World' /\ Grows
    BY <1>2, <1>3, <1>4, <2>2, <2>3, <2>4, RowWritten, Zenon DEF WorldOK, Stored, Done
  <2> DEFINE n == Idle
  <2>d. PICK d : d = m.job
    BY Zenon
  <2>6. wk' = [wk EXCEPT ![w] = n]
    BY <2>1, Zenon DEF Ack
  <2>7. Mine(w)'
    BY <1>1, <2>6, IdleMine, Zenon
  <2>8. Finished(d)'
    BY <1>2, <1>4, <1>6, <2>2, <2>d, JobFacts, SMTT(30) DEF Finished
  <2>9. Turns(w, n, d)
    BY <1>4, <1>5, <2>6, <2>d, Zenon DEF Turns
  <2> HIDE DEF n
  <2>10. Handed
    BY <1>1, <2>8, <2>9, AllHanded, Zenon
  <2>11. wk' = [wk EXCEPT ![w] = wk'[w]]
    BY <1>1, <2>6, Zenon
  <2> QED
    BY <1>4, <2>5, <2>7, <2>10, <2>11, Zenon DEF Good
<1>7. CASE m.page # "absent"
  <2> DEFINE chained == storeLodestone(c, m.page)
  <2>1. UpsertCharacter(c, m.page) /\ Advance(w, m, chained)
    BY <1>0, <1>2, <1>7, Zenon DEF Store
  <2>2. chained \in SUBSET Chained
    BY <1>2, JobFacts, Zenon DEF storeLodestone, BuildDependentCharacterJobs
  <2>3. World' /\ Grows /\ (c \notin troubled => AchievementCensusJob(c) \in chained /\ Stored(c)')
    <3>1. CASE m.page = "hidden"
      <4>1. UNCHANGED rows /\ c \in troubled
        BY <1>2, <2>1, <3>1, Zenon DEF UpsertCharacter, hiddenRace, Public
      <4> QED
        BY <1>4, <4>1, StoreAlone, Zenon
    <3>2. CASE m.page # "hidden"
      <4>1. m.page \in Public
        BY <1>2, <1>7, <3>2, Zenon
      <4> DEFINE r == [rows[c] EXCEPT !.page = m.page, !.deleted = FALSE]
      <4>2. /\ r \in Row /\ r.page = m.page /\ r.private = rows[c].private /\ ~r.deleted
            /\ r.milestones = rows[c].milestones /\ r.latest = rows[c].latest
        BY <1>3, <4>1, Zenon DEF Row
      <4>3. rows' = [rows EXCEPT ![c] = r]
        BY <2>1, <3>2, Zenon DEF UpsertCharacter, hiddenRace, Upsert
      <4>4. rows'[c] = r
        BY <1>2, <1>3, <4>3, Zenon
      <4> HIDE DEF r
      <4>5. m.page # "none"
        BY <4>1, Zenon DEF Public
      <4>6. World' /\ Grows
        BY <1>2, <1>3, <1>4, <4>2, <4>3, <4>5, RowWritten, Zenon DEF WorldOK, Stored, Done
      <4>7. AchievementCensusJob(c) \in chained /\ Stored(c)'
        BY <3>2, <4>2, <4>4, <4>5, Zenon DEF storeLodestone, hiddenRace, BuildDependentCharacterJobs, Stored
      <4> QED
        BY <4>6, <4>7, Zenon
    <3> QED
      BY <3>1, <3>2, Zenon
  <2>4. \A j \in Jobs : j \in queue /\ j # m.job => j \in queue'
    BY <1>4, Zenon
  <2>5. m.pc \in {"fetch", "store"}
    BY <1>1, Zenon
  <2> HIDE DEF chained
  <2> QED
    BY <1>1, <1>2, <1>4, <1>5, <2>1, <2>2, <2>3, <2>4, <2>5, AdvanceGood, Zenon
<1> QED
  BY <1>6, <1>7, Zenon
(* The chained job that is published next is one of them.                  *)
LEMMA NextChained ==
    ASSUME NEW next \in SUBSET Chained, next # {}
    PROVE  (CHOOSE j \in next : \A k \in next : j.id <= k.id) \in next
<1> DEFINE ids == {c \in Characters : AchievementCensusJob(c) \in next}
<1>1. ids # {} /\ ids \subseteq Nat
  BY IngestAssumption, Zenon DEF Chained
<1>2. PICK c \in ids : \A d \in ids : c <= d
  BY <1>1, Least, Zenon
<1>3. AchievementCensusJob(c) \in next
  BY <1>2, Zenon
<1>4. \A k \in next : AchievementCensusJob(c).id <= k.id
  BY <1>2, JobFacts DEF Chained
<1> QED
  BY <1>3, <1>4, Zenon

(* A chained job is published; after the last one the delivery is acked.   *)
LEMMA ChainGood ==
    ASSUME IInv, NEW w \in Workers, Chain(w)
    PROVE  Good(w)
<1>1. PICK m \in Worker : m = wk[w]
  BY DEF IInv
<1>2. WorkerOK(m) /\ Ledger(m) /\ m.pc = "chain" /\ wk \in [Workers -> Worker] /\ m.next # {}
  BY <1>1, Zenon DEF IInv, Chain, WorkerOK
<1>3. /\ m.at \in Characters
      /\ m.job \in {Sweep, CharacterCensusJob(m.at)}
      /\ m.next \in SUBSET Chained
  BY <1>2, Zenon DEF WorkerOK, Worker
<1>4. PICK job : job = CHOOSE j \in m.next : \A k \in m.next : j.id <= k.id
  BY Zenon
<1>5. job \in m.next
  BY <1>2, <1>3, <1>4, NextChained, Zenon
<1> DEFINE left == m.next \ {job}
           g == [m EXCEPT !.next = left]
           n == IF left = {} THEN Idle ELSE g
<1>6. /\ queue' = queue \cup {job} /\ wk' = [wk EXCEPT ![w] = n]
      /\ UNCHANGED <<truth, rows, troubled>>
  BY <1>1, <1>4 DEF Chain
<1>7. World' /\ Grows
  BY <1>6, StoreAlone, Zenon
<1>8. g \in Worker /\ g.pc = "chain" /\ g.job = m.job /\ g.at = m.at /\ g.next = left
  BY <1>2, <1>3, Zenon DEF Worker
<1>9. PICK d : d = m.job
  BY Zenon
<1>10. Turns(w, n, d)
  BY <1>1, <1>6, <1>9, Zenon DEF Turns
<1>11. ASSUME NEW c \in Characters, c \notin troubled', m.job = Sweep \/ m.job = CharacterCensusJob(c)
       PROVE  Stored(c)' /\ (AchievementCensusJob(c) \in left \/ Settled(c)')
  <2>1. Passed(m, c)
    BY <1>2, <1>11, Zenon DEF Passed
  <2>2. Stored(c) /\ (AchievementCensusJob(c) \in m.next \/ Settled(c))
    BY <1>2, <1>6, <1>11, <2>1, Zenon DEF Ledger
  <2>3. Stored(c)' /\ (Done(c) => Done(c)')
    BY <1>7, <2>2, Zenon DEF Grows
  <2>4. ASSUME Outstanding(AchievementCensusJob(c)) PROVE Outstanding(AchievementCensusJob(c))'
    <3>1. AchievementCensusJob(c) \in Jobs /\ AchievementCensusJob(c) # d
      BY <1>3, <1>9, JobFacts, Zenon
    <3> HIDE DEF n
    <3> QED
      BY <1>2, <1>10, <2>4, <3>1, OthersKept, Zenon
  <2>5. AchievementCensusJob(c) = job => Settled(c)'
    BY <1>6, Zenon DEF Settled, Outstanding
  <2> QED
    BY <2>2, <2>3, <2>4, <2>5, Zenon DEF Settled
<1> HIDE DEF g, left
<1>12. CASE left # {}
  <2>1. n = g
    BY <1>12, Zenon
  <2>2. wk'[w] = g /\ wk' = [wk EXCEPT ![w] = wk'[w]]
    BY <1>2, <1>6, <2>1, Zenon
  <2>3. WorkerOK(wk[w])'
    BY <1>3, <1>6, <1>8, <1>12, <2>2, JobFacts, SMTT(30) DEF WorkerOK
  <2>4. ASSUME NEW c \in Characters, c \notin troubled', Passed(wk[w], c)'
        PROVE  Stored(c)' /\ (AchievementCensusJob(c) \in wk'[w].next \/ Settled(c)')
    <3>1. m.job = Sweep \/ m.job = CharacterCensusJob(c)
      BY <1>8, <2>2, <2>4, ZenonT(30) DEF Passed
    <3> QED
      BY <1>8, <1>11, <2>2, <2>4, <3>1, Zenon
  <2>5. Mine(w)'
    BY <1>8, <2>2, <2>3, <2>4, Zenon DEF Mine, Ledger
  <2>6. n.pc # "idle" /\ n.job = d
    BY <1>8, <1>9, <2>1, Zenon
  <2> HIDE DEF n
  <2>7. Handed
    BY <1>2, <1>10, <2>6, AllHanded, Zenon
  <2> QED
    BY <1>6, <1>7, <2>2, <2>5, <2>7, Zenon DEF Good
<1>13. CASE left = {}
  <2>1. wk' = [wk EXCEPT ![w] = Idle]
    BY <1>6, <1>13, Zenon
  <2>2. Mine(w)'
    BY <1>2, <2>1, IdleMine, Zenon
  <2>3. Finished(d)'
    BY <1>3, <1>9, <1>11, <1>13, JobFacts, SMTT(30) DEF Finished
  <2> HIDE DEF n
  <2>4. Handed
    BY <1>2, <1>10, <2>3, AllHanded, Zenon
  <2>5. wk' = [wk EXCEPT ![w] = wk'[w]]
    BY <1>2, <1>6, Zenon
  <2> QED
    BY <1>6, <1>7, <2>2, <2>4, <2>5, Zenon DEF Good
<1> QED
  BY <1>12, <1>13, Zenon

(* A publish or a statement fails, or the process dies.                    *)
LEMMA FailureGood ==
    ASSUME IInv, NEW w \in Workers, ChainFails(w) \/ Abandon(w)
    PROVE  Good(w)
<1>1. PICK job : job = wk[w].job
  BY Zenon
<1>2. Redeliver(w, job) /\ UNCHANGED <<truth, rows, troubled>>
  BY <1>1, Zenon DEF ChainFails, Abandon
<1> QED
  BY <1>1, <1>2, RedeliverGood, Zenon

-----------------------------------------------------------------------------
(* A step inside an achievement-census: it passes no character of a sweep. *)
LEMMA InsideGood ==
    ASSUME IInv, NEW w \in Workers, NEW n \in Worker, NEW d, Turns(w, n, d), n.job = d,
           n.pc \in {"details", "milestones", "summary", "private", "notfound"},
           WorkerOK(n), UNCHANGED <<truth, troubled>>, World', Grows
    PROVE  Good(w)
<1>1. wk \in [Workers -> Worker]
  BY Zenon DEF IInv
<1>2. wk'[w] = n /\ wk' = [wk EXCEPT ![w] = wk'[w]]
  BY <1>1, Zenon DEF Turns
<1>3. Handed
  BY <1>1, AllHanded, Zenon
<1>4. WorkerOK(wk[w])'
  BY <1>2, Zenon DEF WorkerOK
<1>5. Ledger(wk[w])'
  BY <1>2, Zenon DEF Ledger, Passed
<1> QED
  BY <1>2, <1>3, <1>4, <1>5, Zenon DEF Good, Mine
(* A worker takes an achievement-census job and asks for the list.         *)
LEMMA ListGood ==
    ASSUME IInv, NEW w \in Workers, NEW job \in Jobs, List(w, job)
    PROVE  Good(w)
<1>1. PICK s : s = Started(w, job)
  BY Zenon
<1>2. /\ s \in Worker /\ s.job = job /\ s.at \in Characters /\ s.at = job.id
      /\ job = AchievementCensusJob(s.at)
  BY <1>1, StartedFacts, JobFacts DEF List
<1>3. PICK t \in Truth : t = truth[job.id]
  BY <1>2, Zenon DEF IInv, WorldTypes
<1>4. t.earned \in Nat /\ t.earned >= 1 /\ (s.at \notin troubled => t.page \in Public)
  BY <1>2, <1>3, Zenon DEF IInv, WorldOK, Truth
<1>5. \A known \in SUBSET Milestones : missingMilestoneIDs(known) \in SUBSET Nat
  BY IngestAssumption, Zenon DEF missingMilestoneIDs
<1>6. PICK answer \in Answers[AchievementStatus(t)], missing \in SUBSET Nat :
        CASE FetchList(answer) = "error" -> Redeliver(w, job)
          [] FetchList(answer) = "list" ->
               /\ wk' = [wk EXCEPT ![w] = [s EXCEPT
                      !.pc = IF missing = {} THEN "summary" ELSE "details",
                      !.missing = missing,
                      !.latest = extractLatestAchievement(1 .. t.earned)]]
               /\ queue' = queue \ {job}
          [] OTHER ->
               /\ wk' = [wk EXCEPT ![w] = [s EXCEPT !.pc = FetchList(answer)]]
               /\ queue' = queue \ {job}
  BY <1>1, <1>3, <1>5, Zenon DEF List
<1>7. wk[w].pc = "idle" /\ UNCHANGED <<truth, rows, troubled>>
  BY Zenon DEF List, Take
<1>8. World' /\ Grows
  BY <1>7, StoreAlone, Zenon
<1>9. /\ FetchList(answer) \in {"error", "notfound", "private", "list"}
      /\ FetchList(answer) = "notfound" => s.at \in troubled
  BY <1>4, <1>6, ListTrue, Zenon
<1>10. CASE FetchList(answer) = "error"
  <2>1. Redeliver(w, job)
    BY <1>6, <1>10, Zenon
  <2> QED
    BY <1>7, <2>1, RedeliverGood, Zenon
<1>11. CASE FetchList(answer) = "list"
  <2> DEFINE pc == IF missing = {} THEN "summary" ELSE "details"
             latest == extractLatestAchievement(1 .. t.earned)
             n == [s EXCEPT !.pc = pc, !.missing = missing, !.latest = latest]
  <2>1. wk' = [wk EXCEPT ![w] = n] /\ queue' = queue \ {job}
    BY <1>6, <1>11, Zenon
  <2>2. latest \in 1 .. t.earned
    BY <1>4, EarnedOnly, Zenon
  <2>3. pc \in {"summary", "details"}
    BY Zenon
  <2> HIDE DEF latest, pc
  <2>4. latest \in Nat
    BY <1>4, <2>2
  <2>5. n \in Worker /\ n.pc = pc /\ n.job = job /\ n.at = s.at /\ n.latest = latest
    BY <1>2, <1>6, <2>3, <2>4, Zenon DEF Worker
  <2> HIDE DEF n
  <2>6. WorkerOK(n)
    BY <1>2, <1>3, <2>2, <2>3, <2>5, Zenon DEF WorkerOK
  <2>7. Turns(w, n, job)
    BY <1>7, <2>1, Zenon DEF Turns
  <2> QED
    BY <1>7, <1>8, <2>3, <2>5, <2>6, <2>7, InsideGood, Zenon
<1>12. CASE FetchList(answer) \in {"notfound", "private"}
  <2>1. PICK pc \in {"notfound", "private"} : pc = FetchList(answer)
    BY <1>12, Zenon
  <2> DEFINE n == [s EXCEPT !.pc = pc]
  <2>2. wk' = [wk EXCEPT ![w] = n] /\ queue' = queue \ {job}
    BY <1>6, <1>12, <2>1, Zenon
  <2>3. n \in Worker /\ n.pc = pc /\ n.job = job /\ n.at = s.at
    BY <1>2, <2>1, Zenon DEF Worker
  <2> HIDE DEF n
  <2>4. WorkerOK(n)
    BY <1>2, <1>9, <2>1, <2>3, Zenon DEF WorkerOK
  <2>5. Turns(w, n, job)
    BY <1>7, <2>2, Zenon DEF Turns
  <2> QED
    BY <1>7, <1>8, <2>1, <2>3, <2>4, <2>5, InsideGood, Zenon
<1> QED
  BY <1>9, <1>10, <1>11, <1>12, Zenon

(* The detail requests of an achievement-census.                           *)
LEMMA DetailsGood ==
    ASSUME IInv, NEW w \in Workers, Details(w)
    PROVE  Good(w)
<1>1. PICK m \in Worker : m = wk[w]
  BY DEF IInv
<1>2. m.pc = "details" /\ WorkerOK(m) /\ wk \in [Workers -> Worker]
  BY <1>1, Zenon DEF IInv, Details
<1>3. /\ m.at \in Characters /\ m.job = AchievementCensusJob(m.at)
      /\ m.latest \in 1 .. truth[m.at].earned /\ m.missing \in SUBSET Nat
  BY <1>2, Zenon DEF WorkerOK, Worker
<1>4. PICK e \in Nat : e = truth[m.at].earned /\ e >= 1
  BY <1>3, Zenon DEF IInv, WorldTypes, WorldOK, Truth
<1>5. PICK found : found = EarnedPrefix(m.missing, 1 .. e)
  BY Zenon
<1>6. found \subseteq 1 .. e
  BY <1>3, <1>4, <1>5, EarnedOnly, Zenon
<1>7. UNCHANGED <<truth, rows, troubled>>
  BY Zenon DEF Details
<1>8. World' /\ Grows
  BY <1>7, StoreAlone, Zenon
<1>9. PICK job : job = m.job
  BY Zenon
<1>10. PICK answer :
        CASE checkSingleAchievement(answer) = "error" -> Redeliver(w, job)
          [] checkSingleAchievement(answer) = "private" ->
               /\ wk' = [wk EXCEPT ![w] = [m EXCEPT !.pc = "private", !.missing = {}, !.latest = 0]]
               /\ UNCHANGED queue
          [] OTHER ->
               /\ wk' = [wk EXCEPT ![w] = [m EXCEPT
                      !.pc = IF found = {} THEN "summary" ELSE "milestones",
                      !.missing = found]]
               /\ UNCHANGED queue
  BY <1>1, <1>4, <1>5, <1>9, Zenon DEF Details
<1>11. checkSingleAchievement(answer) \in {"error", "private", "detail"}
  BY Zenon DEF checkSingleAchievement
<1>12. CASE checkSingleAchievement(answer) = "error"
  <2>1. Redeliver(w, job)
    BY <1>10, <1>12, Zenon
  <2> QED
    BY <1>1, <1>7, <1>9, <2>1, RedeliverGood, Zenon
<1>13. CASE checkSingleAchievement(answer) = "private"
  <2> DEFINE n == [m EXCEPT !.pc = "private", !.missing = {}, !.latest = 0]
  <2>1. wk' = [wk EXCEPT ![w] = n] /\ UNCHANGED queue
    BY <1>10, <1>13, Zenon
  <2>2. n \in Worker /\ n.pc = "private" /\ n.job = job /\ n.at = m.at
    BY <1>9, Zenon DEF Worker
  <2> HIDE DEF n
  <2>3. WorkerOK(n)
    BY <1>3, <1>9, <2>2, Zenon DEF WorkerOK
  <2>4. Turns(w, n, job)
    BY <1>1, <1>9, <2>1, Zenon DEF Turns
  <2> QED
    BY <1>7, <1>8, <2>2, <2>3, <2>4, InsideGood, Zenon
<1>14. CASE checkSingleAchievement(answer) = "detail"
  <2> DEFINE pc == IF found = {} THEN "summary" ELSE "milestones"
             n == [m EXCEPT !.pc = pc, !.missing = found]
  <2>1. wk' = [wk EXCEPT ![w] = n] /\ UNCHANGED queue
    BY <1>10, <1>14, Zenon
  <2>2. pc \in {"summary", "milestones"} /\ found \in SUBSET Nat
    BY <1>6
  <2> HIDE DEF pc
  <2>3. /\ n \in Worker /\ n.pc = pc /\ n.job = job /\ n.at = m.at /\ n.missing = found
        /\ n.latest = m.latest
    BY <1>9, <2>2, Zenon DEF Worker
  <2> HIDE DEF n
  <2>4. WorkerOK(n)
    BY <1>3, <1>4, <1>6, <1>9, <2>2, <2>3, Zenon DEF WorkerOK
  <2>5. Turns(w, n, job)
    BY <1>1, <1>9, <2>1, SMTT(30) DEF Turns
  <2> QED
    BY <1>7, <1>8, <2>2, <2>3, <2>4, <2>5, InsideGood, Zenon
<1> QED
  BY <1>11, <1>12, <1>13, <1>14, Zenon
(* The milestones that were found are written.                             *)
LEMMA StoreMilestonesGood ==
    ASSUME IInv, NEW w \in Workers, StoreMilestones(w)
    PROVE  Good(w)
<1>1. PICK m \in Worker : m = wk[w]
  BY DEF IInv
<1>2. m.pc = "milestones" /\ WorkerOK(m)
  BY <1>1, Zenon DEF IInv, StoreMilestones
<1>3. PICK c \in Characters : c = m.at
  BY <1>2, Zenon DEF WorkerOK
<1>4. /\ m.job = AchievementCensusJob(c) /\ m.missing \subseteq 1 .. truth[c].earned
      /\ m.latest \in 1 .. truth[c].earned /\ m.missing \in SUBSET Nat
  BY <1>2, <1>3, Zenon DEF WorkerOK, Worker
<1>5. rows[c] \in Row /\ WorldOK(c)
  BY Zenon DEF IInv, WorldTypes
<1>6. UNCHANGED <<truth, queue, troubled>>
  BY Zenon DEF StoreMilestones
<1> DEFINE r == [rows[c] EXCEPT !.milestones = @ \cup m.missing]
           n == [m EXCEPT !.pc = "summary", !.missing = {}]
<1>7. /\ r \in Row /\ r.page = rows[c].page /\ r.private = rows[c].private
      /\ r.deleted = rows[c].deleted /\ r.latest = rows[c].latest
      /\ r.milestones = rows[c].milestones \cup m.missing
  BY <1>4, <1>5, Zenon DEF Row
<1>8. rows' = [rows EXCEPT ![c] = r] /\ wk' = [wk EXCEPT ![w] = n]
  BY <1>1, <1>3, Zenon DEF StoreMilestones, UpsertCharacterMilestones
<1>9. n \in Worker /\ n.pc = "summary" /\ n.job = m.job /\ n.at = c /\ n.latest = m.latest
  BY <1>3, Zenon DEF Worker
<1> HIDE DEF r, n
<1>10. World' /\ Grows
  BY <1>4, <1>5, <1>6, <1>7, <1>8, RowWritten, Zenon DEF WorldOK, Stored, Done
<1>11. WorkerOK(n)
  BY <1>4, <1>9, Zenon DEF WorkerOK
<1>12. PICK job : job = m.job
  OBVIOUS
<1>13. Turns(w, n, job)
  BY <1>1, <1>6, <1>8, <1>12, Zenon DEF Turns
<1> QED
  BY <1>6, <1>9, <1>10, <1>11, <1>12, <1>13, InsideGood, Zenon

(* The last statement of an achievement-census: the character has a        *)
(* result, or it is gone.                                                  *)
LEMMA ConcludeGood ==
    ASSUME IInv, NEW w \in Workers, Conclude(w)
    PROVE  Good(w)
<1>1. PICK m \in Worker : m = wk[w]
  BY DEF IInv
<1>2. m.pc \in {"summary", "private", "notfound"} /\ WorkerOK(m) /\ wk \in [Workers -> Worker]
  BY <1>1, Zenon DEF IInv, Conclude
<1>3. PICK c \in Characters : c = m.at
  BY <1>2, Zenon DEF WorkerOK
<1>4. /\ m.job = AchievementCensusJob(c)
      /\ m.pc = "summary" => m.latest \in 1 .. truth[c].earned
      /\ m.pc = "notfound" => c \in troubled
  BY <1>2, <1>3, Zenon DEF WorkerOK
<1>5. rows[c] \in Row /\ WorldOK(c) /\ truth[c].earned \in Nat /\ rows \in [Characters -> Row]
  BY Zenon DEF IInv, WorldTypes, Truth
<1>6. UNCHANGED <<truth, queue, troubled>> /\ wk' = [wk EXCEPT ![w] = Idle]
  BY Zenon DEF Conclude, Ack
<1>7. World' /\ Grows /\ (c \notin troubled => Done(c)')
  <2>1. CASE m.pc = "summary"
    <3> DEFINE r == [rows[c] EXCEPT !.private = FALSE, !.latest = m.latest]
    <3>1. m.latest \in Nat /\ m.latest # 0 /\ m.latest <= truth[c].earned
      BY <1>4, <1>5, <2>1
    <3>2. /\ r \in Row /\ r.page = rows[c].page /\ r.latest = m.latest
          /\ r.deleted = rows[c].deleted /\ r.milestones = rows[c].milestones
      BY <1>5, <3>1, Zenon DEF Row
    <3>3. rows' = [rows EXCEPT ![c] = r]
      BY <1>1, <1>3, <2>1, Zenon DEF Conclude, UpdateAchievementSummary
    <3>4. rows'[c] = r
      BY <1>5, <3>3, Zenon
    <3> HIDE DEF r
    <3>5. World' /\ Grows
      BY <1>5, <1>6, <3>1, <3>2, <3>3, RowWritten, Zenon DEF WorldOK, Stored, Done
    <3> QED
      BY <3>1, <3>2, <3>4, <3>5, Zenon DEF Done
  <2>2. CASE m.pc = "private"
    <3> DEFINE r == [rows[c] EXCEPT !.private = TRUE]
    <3>1. /\ r \in Row /\ r.page = rows[c].page /\ r.latest = rows[c].latest /\ r.private
          /\ r.deleted = rows[c].deleted /\ r.milestones = rows[c].milestones
      BY <1>5, Zenon DEF Row
    <3>2. rows' = [rows EXCEPT ![c] = r]
      BY <1>1, <1>3, <2>2, Zenon DEF Conclude, SetAchievementsPrivate
    <3>3. rows'[c] = r
      BY <1>5, <3>2, Zenon
    <3> HIDE DEF r
    <3>4. World' /\ Grows
      BY <1>5, <1>6, <3>1, <3>2, RowWritten, Zenon DEF WorldOK, Stored, Done
    <3> QED
      BY <3>1, <3>3, <3>4, Zenon DEF Done
  <2>3. CASE m.pc = "notfound"
    <3> DEFINE r == [rows[c] EXCEPT !.deleted = TRUE]
    <3>1. /\ r \in Row /\ r.page = rows[c].page /\ r.latest = rows[c].latest
          /\ r.private = rows[c].private /\ r.milestones = rows[c].milestones
      BY <1>5, Zenon DEF Row
    <3>2. rows' = [rows EXCEPT ![c] = r]
      BY <1>1, <1>3, <2>3, Zenon DEF Conclude, MarkDeleted
    <3> HIDE DEF r
    <3>3. World' /\ Grows
      BY <1>4, <1>5, <1>6, <2>3, <3>1, <3>2, RowWritten, Zenon DEF WorldOK, Stored, Done
    <3> QED
      BY <1>4, <2>3, <3>3, Zenon
  <2> QED
    BY <1>2, <2>1, <2>2, <2>3, Zenon
<1>8. Mine(w)'
  BY <1>2, <1>6, IdleMine, Zenon
<1>9. PICK d : d = m.job
  OBVIOUS
<1>10. Finished(d)'
  BY <1>4, <1>6, <1>7, <1>9, JobFacts, Zenon DEF Finished
<1> DEFINE n == Idle
<1>11. Turns(w, n, d)
  BY <1>1, <1>6, <1>9, Zenon DEF Turns
<1> HIDE DEF n
<1>12. Handed
  BY <1>2, <1>10, <1>11, AllHanded, Zenon
<1>13. wk' = [wk EXCEPT ![w] = wk'[w]]
  BY <1>2, <1>6, Zenon
<1> QED
  BY <1>6, <1>7, <1>8, <1>12, <1>13, Zenon DEF Good

-----------------------------------------------------------------------------
(* The publish commands and the end of a pause only add to the queue.      *)
LEMMA QueuedKeeps ==
    ASSUME IInv, UNCHANGED <<truth, rows, wk, troubled>>, queue \subseteq queue'
    PROVE  IInv'
<1>1. \A j : Outstanding(j) => Outstanding(j)'
  BY Zenon DEF Outstanding
<1>2. \A c : Settled(c) => Settled(c)'
  BY <1>1, Zenon DEF Settled, Done
<1>3. WorldTypes' /\ \A c \in Characters : WorldOK(c)'
  BY Zenon DEF IInv, WorldTypes, WorldOK
<1>4. ASSUME NEW w \in Workers PROVE WorkerOK(wk[w])' /\ Ledger(wk[w])'
  <2>1. WorkerOK(wk[w]) /\ Ledger(wk[w])
    BY Zenon DEF IInv
  <2>2. WorkerOK(wk[w])'
    BY <2>1, Zenon DEF WorkerOK
  <2>3. Ledger(wk[w])'
    BY <1>2, <2>1, Zenon DEF Ledger, Passed, Stored
  <2> QED
    BY <2>2, <2>3, Zenon
<1>5. Owed'
  BY <1>1, <1>2, Zenon DEF IInv, Owed, Stored
<1> QED
  BY <1>3, <1>4, <1>5, Zenon DEF IInv

(* The Lodestone changes: achievements are only added, and a page that     *)
(* stops being public puts its character among the troubled.               *)
LEMMA ChangeKeeps ==
    ASSUME IInv, NEW c \in Characters, Change(c)
    PROVE  IInv'
<1>1. /\ truth \in [Characters -> Truth] /\ rows \in [Characters -> Row]
      /\ troubled \subseteq Characters /\ UNCHANGED <<rows, queue, wk>>
  BY Zenon DEF IInv, WorldTypes, Change
<1>2. truth[c] \in Truth
  BY <1>1, Zenon
<1>3. /\ truth' \in [Characters -> Truth]
      /\ \A d \in Characters : truth'[d].earned >= truth[d].earned
      /\ \A d \in Characters : d # c => truth'[d] = truth[d]
  <2>1. CASE \E page \in Pages \ {truth[c].page} : truth' = [truth EXCEPT ![c].page = page]
    BY <1>1, <1>2, <2>1, SMTT(30) DEF Truth
  <2>2. CASE truth[c].earned + 1 \in Milestones /\ truth' = [truth EXCEPT ![c].earned = @ + 1]
    BY <1>1, <1>2, <2>2, SMTT(30) DEF Truth
  <2>3. CASE truth' = [truth EXCEPT ![c].private = ~@]
    <3>1. PICK p \in BOOLEAN : p = ~truth[c].private
      BY <1>2, Zenon DEF Truth
    <3>2. truth' = [truth EXCEPT ![c].private = p]
      BY <2>3, <3>1, Zenon
    <3> QED
      BY <1>1, <1>2, <3>2, SMTT(30) DEF Truth
  <2> QED
    BY <2>1, <2>2, <2>3, Zenon DEF Change
<1>4. troubled \subseteq troubled' /\ troubled' \subseteq Characters /\ (c \notin troubled' => truth'[c].page \in Public)
  BY <1>1, Zenon DEF Change
<1>5. WorldTypes'
  BY <1>1, <1>3, <1>4, Zenon DEF WorldTypes
<1>6. ASSUME NEW d \in Characters PROVE truth[d].earned \in Nat /\ truth'[d].earned \in Nat
  BY <1>1, <1>3, Zenon DEF Truth
<1>7. ASSUME NEW d \in Characters PROVE 1 .. truth[d].earned \subseteq 1 .. truth'[d].earned
  BY <1>3, <1>6
<1>8. ASSUME NEW d \in Characters PROVE WorldOK(d)'
  <2>1. WorldOK(d) /\ rows[d].latest \in Nat
    BY <1>1, Zenon DEF IInv, Row
  <2>2. d \notin troubled' => truth'[d].page \in Public /\ ~rows'[d].deleted
    BY <1>1, <1>3, <1>4, <2>1, Zenon DEF WorldOK
  <2>3. truth'[d].earned >= 1 /\ rows'[d].latest <= truth'[d].earned
    BY <1>1, <1>3, <1>6, <2>1, SMTT(30) DEF WorldOK
  <2>4. rows'[d].milestones \subseteq 1 .. truth'[d].earned
    BY <1>1, <1>7, <2>1, Zenon DEF WorldOK
  <2> QED
    BY <2>2, <2>3, <2>4, Zenon DEF WorldOK
<1>9. ASSUME NEW w \in Workers PROVE WorkerOK(wk[w])' /\ Ledger(wk[w])'
  <2>1. WorkerOK(wk[w]) /\ Ledger(wk[w])
    BY Zenon DEF IInv
  <2>2. WorkerOK(wk[w])'
    <3>1. PICK m : m = wk[w] /\ m = wk'[w]
      BY <1>1, Zenon
    <3>2. WorkerOK(m)
      BY <2>1, <3>1, Zenon
    <3>3. m.pc # "idle" => 1 .. truth[m.at].earned \subseteq 1 .. truth'[m.at].earned
      BY <1>7, <3>2, Zenon DEF WorkerOK
    <3>4. WorkerOK(m)'
      BY <1>4, <3>2, <3>3, Zenon DEF WorkerOK
    <3> QED
      BY <3>1, <3>4, Zenon
  <2>3. Ledger(wk[w])'
    BY <1>1, <1>4, <2>1, Zenon DEF Ledger, Passed, Stored, Settled, Done, Outstanding
  <2> QED
    BY <2>2, <2>3, Zenon
<1>10. Owed'
  BY <1>1, <1>4, Zenon DEF IInv, Owed, Stored, Settled, Done, Outstanding
<1> QED
  BY <1>1, <1>5, <1>8, <1>9, <1>10, Zenon DEF IInv

-----------------------------------------------------------------------------
(* The initial state: one sweep is owed, nothing is stored.                *)
LEMMA InitOK == Init => IInv
<1> SUFFICES ASSUME Init PROVE IInv
  BY Zenon
<1>1. \A w \in Workers : wk[w] = Idle
  BY Zenon DEF Init
<1>2. WorldTypes
  BY Zenon DEF Init, WorldTypes, Truth, Row, NoRow, Pages, Public
<1>3. \A c \in Characters : WorldOK(c)
  BY DEF Init, WorldOK, NoRow, Public
<1>4. wk \in [Workers -> Worker]
  BY IdleFacts, Zenon DEF Init
<1>5. ASSUME NEW w \in Workers PROVE WorkerOK(wk[w]) /\ Ledger(wk[w])
  <2>1. wk[w].pc = "idle"
    BY <1>1, IdleFacts, Zenon
  <2> QED
    BY <2>1, Zenon DEF WorkerOK, Ledger, Passed
<1>6. Outstanding(Sweep)
  BY Zenon DEF Init, Outstanding
<1>7. Owed
  BY <1>6, Zenon DEF Owed
<1> QED
  BY <1>2, <1>3, <1>4, <1>5, <1>7, Zenon DEF IInv

(* The invariant is kept by every step.                                    *)
LEMMA NextKeeps == IInv /\ [Next]_vars => IInv'
<1> SUFFICES ASSUME IInv, [Next]_vars PROVE IInv'
  BY Zenon
<1>1. ASSUME NEW job \in Jobs, Start(job) PROVE IInv'
  <2>1. PICK w \in Workers : Fetch(w, job) \/ List(w, job)
    BY <1>1, Zenon DEF Start
  <2>2. Good(w)
    BY <2>1, FetchGood, ListGood, Zenon
  <2> QED
    BY <2>2, GoodKeeps, Zenon
<1>2. ASSUME NEW w \in Workers, Continue(w) \/ ChainFails(w) \/ Abandon(w) PROVE IInv'
  <2>1. Good(w)
    BY <1>2, FetchNextGood, StoreGood, ChainGood, DetailsGood, StoreMilestonesGood,
       ConcludeGood, FailureGood, Zenon DEF Continue
  <2> QED
    BY <2>1, GoodKeeps, Zenon
<1>3. CASE PublishCharacterCensus
  <2>1. queue \subseteq queue' /\ UNCHANGED <<truth, rows, wk, troubled>>
    BY <1>3, Zenon DEF PublishCharacterCensus
  <2> QED
    BY <2>1, QueuedKeeps, Zenon
<1>4. CASE PublishAchievementCensus
  <2>1. queue \subseteq queue' /\ UNCHANGED <<truth, rows, wk, troubled>>
    BY <1>4, Zenon DEF PublishAchievementCensus
  <2> QED
    BY <2>1, QueuedKeeps, Zenon
<1>5. CASE PauseEnds \/ UNCHANGED vars
  <2>1. queue \subseteq queue' /\ UNCHANGED <<truth, rows, wk, troubled>>
    BY <1>5, Zenon DEF PauseEnds, vars
  <2> QED
    BY <2>1, QueuedKeeps
<1>6. ASSUME NEW c \in Characters, Change(c) PROVE IInv'
  BY <1>6, ChangeKeeps, Zenon
<1> QED
  BY <1>1, <1>2, <1>3, <1>4, <1>5, <1>6, Zenon DEF Next

(* The invariant holds in every reachable state.                           *)
LEMMA Invariant == Spec => []IInv
<1>1. Init => IInv
  BY InitOK, Zenon
<1>2. IInv /\ [Next]_vars => IInv'
  BY NextKeeps, Zenon
<1> QED
  BY <1>1, <1>2, PTL DEF Spec

(* The sweep handler leaves nobody out: for any number of characters,      *)
(* workers, failures and redeliveries, a character whose page was public   *)
(* all along is stored or its sweep is still owed.                         *)
THEOREM SweepTheorem == Spec => []SweepComplete
<1>1. IInv => SweepComplete
  BY Zenon DEF IInv, Owed, SweepComplete, Stored
<1> QED
  BY <1>1, Invariant, PTL

(* The chain from a stored profile to achievement-census is never lost,    *)
(* although the profile is committed before the chained job is published.  *)
THEOREM ChainTheorem == Spec => []ChainKept
<1>1. IInv => ChainKept
  BY Zenon DEF IInv, Owed, ChainKept, Stored, Settled, Done
<1> QED
  BY <1>1, Invariant, PTL

(* Only a character that the Lodestone stopped showing is marked deleted:  *)
(* no challenge, rate limit, timeout or late answer kills another.         *)
THEOREM DeathTheorem == Spec => []NoFalseDeath
<1>1. IInv => NoFalseDeath
  BY Zenon DEF IInv, WorldOK, NoFalseDeath
<1> QED
  BY <1>1, Invariant, PTL

(* The store never records an achievement that was not earned.             *)
THEOREM EarnedTheorem == Spec => []NothingInvented
<1>1. IInv => NothingInvented
  BY Zenon DEF IInv, WorldOK, NothingInvented
<1> QED
  BY <1>1, Invariant, PTL

-----------------------------------------------------------------------------
(* Types.  Besides IInv, the worker must carry tracked milestones only and *)
(* the re-census order must list each stored character once.               *)
Tracked == [page : Pages, private : BOOLEAN, earned : Milestones]

Ordered ==
    /\ order \in Seq(Characters) /\ IsInjective(order)
    /\ Range(order) = {c \in Characters : rows[c].page # "none"}

Carried ==
    /\ \A c \in Characters : rows[c].milestones \subseteq Milestones
    /\ \A w \in Workers : wk[w].missing \subseteq Milestones

TInv ==
    /\ truth \in [Characters -> Tracked]
    /\ Ordered /\ Carried
    /\ queue \subseteq Jobs
    /\ paused \in BOOLEAN

(* Removing an element that a sequence has once.                           *)
LEMMA RemovedOnce ==
    ASSUME NEW S, NEW s \in Seq(S), IsInjective(s), NEW k \in DOMAIN s
    PROVE  /\ RemoveFirst(s, s[k]) \in Seq(S) /\ IsInjective(RemoveFirst(s, s[k]))
           /\ Range(RemoveFirst(s, s[k])) = Range(s) \ {s[k]}
<1> DEFINE n == Len(s)
           I == {i \in 1 .. Len(s) : s[i] = s[k]}
           u == SubSeq(s, 1, k - 1) \o SubSeq(s, k + 1, n)
<1>1. n \in Nat /\ DOMAIN s = 1 .. n /\ k \in 1 .. n /\ \A i \in 1 .. n : s[i] \in S
  OBVIOUS
<1>2. \A i, j \in 1 .. n : s[i] = s[j] => i = j
  BY <1>1, Zenon DEF IsInjective
<1>3. I = {k}
  BY <1>1, <1>2, Zenon
<1>4. Min({k}) = k
  BY <1>1 DEF Min
<1>5. SelectInSeq(s, LAMBDA v : v = s[k]) = k
  BY <1>3, <1>4, Zenon DEF SelectInSeq
<1>6. RemoveFirst(s, s[k]) = u
  BY <1>1, <1>5, Zenon DEF RemoveFirst, RemoveAt
<1>7. /\ SubSeq(s, 1, k - 1) \in Seq(S) /\ Len(SubSeq(s, 1, k - 1)) = k - 1
      /\ \A i \in 1 .. k - 1 : SubSeq(s, 1, k - 1)[i] = s[i]
  BY <1>1
<1>8. /\ SubSeq(s, k + 1, n) \in Seq(S) /\ Len(SubSeq(s, k + 1, n)) = n - k
      /\ \A i \in 1 .. n - k : SubSeq(s, k + 1, n)[i] = s[k + i]
  <2> HIDE DEF n
  <2>1. PICK m \in Int : m = k + 1
    BY <1>1
  <2>2. n \in Int /\ \A i \in m .. n : s[i] \in S
    BY <1>1, <2>1, SMTT(30)
  <2>3. /\ SubSeq(s, m, n) \in Seq(S)
        /\ Len(SubSeq(s, m, n)) = IF m <= n THEN n - m + 1 ELSE 0
        /\ \A i \in 1 .. n - m + 1 : SubSeq(s, m, n)[i] = s[m + i - 1]
    BY <2>2, SubSeqProperties, SMTT(30)
  <2>4. n - m + 1 = n - k /\ (m <= n \/ n - k = 0) /\ \A i \in Int : m + i - 1 = k + i
    BY <1>1, <2>1
  <2>5. Len(SubSeq(s, m, n)) = n - k
    <3>1. CASE m <= n
      BY <2>3, <2>4, <3>1, Zenon
    <3>2. CASE ~(m <= n)
      BY <2>3, <2>4, <3>2, Zenon
    <3> QED
      BY <3>1, <3>2, Zenon
  <2>6. ASSUME NEW i \in 1 .. n - k
        PROVE  SubSeq(s, m, n)[i] = s[k + i]
    <3>1. i \in 1 .. n - m + 1 /\ m + i - 1 = k + i
      BY <1>1, <2>4
    <3> QED
      BY <2>3, <3>1, Zenon
  <2> QED
    BY <2>1, <2>3, <2>5, <2>6, Zenon
<1>9. /\ u \in Seq(S) /\ Len(u) = n - 1 /\ DOMAIN u = 1 .. n - 1
      /\ \A i \in 1 .. n - 1 : u[i] = IF i < k THEN s[i] ELSE s[i + 1]
  <2> DEFINE a == SubSeq(s, 1, k - 1)
             b == SubSeq(s, k + 1, n)
  <2> HIDE DEF a, b, n
  <2>1. u = a \o b
    BY Zenon DEF a, b
  <2>2. a \in Seq(S) /\ b \in Seq(S)
    BY <1>7, <1>8, Zenon DEF a, b
  <2>3. Len(a) = k - 1 /\ Len(b) = n - k
    BY <1>7, <1>8, Zenon DEF a, b
  <2>4. /\ a \o b \in Seq(S) /\ Len(a \o b) = Len(a) + Len(b)
        /\ \A i \in 1 .. Len(a) + Len(b) : (a \o b)[i] = IF i <= Len(a) THEN a[i] ELSE b[i - Len(a)]
    BY <2>2, ConcatProperties, Zenon
  <2>5. ASSUME NEW i \in 1 .. n - 1
        PROVE  (a \o b)[i] = IF i < k THEN s[i] ELSE s[i + 1]
    <3>1. i \in 1 .. Len(a) + Len(b)
      BY <1>1, <2>3
    <3>2. CASE i < k
      <4>1. i <= Len(a) /\ i \in 1 .. k - 1
        BY <1>1, <2>3, <3>2, SMTT(30)
      <4>2. a[i] = s[i]
        BY <1>7, <4>1, Zenon DEF a
      <4> QED
        BY <2>4, <3>1, <3>2, <4>1, <4>2, Zenon
    <3>3. CASE ~(i < k)
      <4>1. ~(i <= Len(a)) /\ i - Len(a) \in 1 .. n - k /\ k + (i - Len(a)) = i + 1
        BY <1>1, <2>3, <3>3, SMTT(30)
      <4>2. b[i - Len(a)] = s[i + 1]
        BY <1>8, <4>1, Zenon DEF b
      <4> QED
        BY <2>4, <3>1, <3>3, <4>1, <4>2, Zenon
    <3> QED
      BY <3>2, <3>3, Zenon
  <2>6. (k - 1) + (n - k) = n - 1
    BY <1>1
  <2>7. Len(a \o b) = n - 1
    BY <2>3, <2>4, <2>6, Zenon
  <2>8. DOMAIN (a \o b) = 1 .. n - 1
    BY <2>4, <2>7, SMTT(30)
  <2> HIDE DEF u
  <2> QED
    BY <2>1, <2>4, <2>5, <2>7, <2>8, Zenon
<1> HIDE DEF n, u
<1>10. IsInjective(u)
  <2>1. ASSUME NEW i \in 1 .. n - 1, NEW j \in 1 .. n - 1, u[i] = u[j]
        PROVE  i = j
    <3>1. (IF i < k THEN i ELSE i + 1) \in 1 .. n /\ (IF j < k THEN j ELSE j + 1) \in 1 .. n
      BY <1>1
    <3>2. s[IF i < k THEN i ELSE i + 1] = s[IF j < k THEN j ELSE j + 1]
      BY <1>9, <2>1, Zenon
    <3>3. (IF i < k THEN i ELSE i + 1) = (IF j < k THEN j ELSE j + 1)
      BY <1>2, <3>1, <3>2, Zenon
    <3> QED
      BY <1>1, <3>3, SMTT(30)
  <2> QED
    BY <1>9, <2>1, Zenon DEF IsInjective
<1>11. Range(u) = Range(s) \ {s[k]}
  <2>1. ASSUME NEW i \in 1 .. n - 1
        PROVE  \E j \in 1 .. n : u[i] = s[j] /\ j # k
    <3>1. (IF i < k THEN i ELSE i + 1) \in 1 .. n /\ (IF i < k THEN i ELSE i + 1) # k
      BY <1>1
    <3> QED
      BY <1>9, <3>1, Zenon
  <2>2. ASSUME NEW j \in 1 .. n, j # k
        PROVE  \E i \in 1 .. n - 1 : u[i] = s[j]
    <3>1. CASE j < k
      <4>1. j \in 1 .. n - 1
        BY <1>1, <3>1
      <4> QED
        BY <1>9, <3>1, <4>1, Zenon
    <3>2. CASE j > k
      <4>1. j - 1 \in 1 .. n - 1 /\ ~(j - 1 < k) /\ (j - 1) + 1 = j
        BY <1>1, <3>2
      <4> QED
        BY <1>9, <4>1, Zenon
    <3> QED
      BY <1>1, <2>2, <3>1, <3>2, SMTT(30)
  <2>3. DOMAIN u = 1 .. n - 1 /\ DOMAIN s = 1 .. n
    BY <1>1, <1>9, Zenon
  <2>4. ASSUME NEW x
        PROVE  x \in Range(u) <=> \E j \in 1 .. n : x = s[j] /\ j # k
    <3>1. ASSUME x \in Range(u)
          PROVE  \E j \in 1 .. n : x = s[j] /\ j # k
      <4>1. PICK i \in 1 .. n - 1 : x = u[i]
        BY <2>3, <3>1, Zenon DEF Range
      <4> QED
        BY <2>1, <4>1, Zenon
    <3>2. ASSUME NEW j \in 1 .. n, x = s[j], j # k
          PROVE  x \in Range(u)
      <4>1. PICK i \in 1 .. n - 1 : u[i] = s[j]
        BY <2>2, <3>2, Zenon
      <4> QED
        BY <2>3, <3>2, <4>1, Zenon DEF Range
    <3> QED
      BY <3>1, <3>2, Zenon
  <2>5. ASSUME NEW x
        PROVE  x \in Range(s) \ {s[k]} <=> \E j \in 1 .. n : x = s[j] /\ j # k
    BY <1>1, <1>2, <2>3, Zenon DEF Range
  <2> QED
    BY <2>4, <2>5, Zenon
<1> QED
  BY <1>6, <1>9, <1>10, <1>11, Zenon

(* Appending an element that a sequence does not have.                     *)
LEMMA AppendedOnce ==
    ASSUME NEW S, NEW u \in Seq(S), IsInjective(u), NEW c \in S, c \notin Range(u)
    PROVE  /\ Append(u, c) \in Seq(S) /\ IsInjective(Append(u, c))
           /\ Range(Append(u, c)) = Range(u) \cup {c}
<1> DEFINE n == Len(u)
           t == Append(u, c)
<1>1. n \in Nat /\ DOMAIN u = 1 .. n /\ t \in Seq(S) /\ DOMAIN t = 1 .. n + 1
  OBVIOUS
<1>2. t[n + 1] = c /\ \A i \in 1 .. n : t[i] = u[i]
  OBVIOUS
<1>3. \A i \in 1 .. n : u[i] # c
  BY <1>1, Zenon DEF Range
<1>4. \A i \in 1 .. n + 1 : i \in 1 .. n \/ i = n + 1
  BY <1>1
<1>5. \A i \in 1 .. n : i \in 1 .. n + 1
  BY <1>1
<1>6. n + 1 \in 1 .. n + 1
  BY <1>1
<1> HIDE DEF t, n
<1>7. IsInjective(t)
  <2>1. \A i, j \in 1 .. n : u[i] = u[j] => i = j
    BY <1>1, Zenon DEF IsInjective
  <2>2. ASSUME NEW i \in 1 .. n + 1, NEW j \in 1 .. n + 1, t[i] = t[j]
        PROVE  i = j
    BY <1>2, <1>3, <1>4, <2>1, <2>2, Zenon
  <2> QED
    BY <1>1, <2>2, Zenon DEF IsInjective
<1>8. Range(t) = Range(u) \cup {c}
  BY <1>1, <1>2, <1>4, <1>5, <1>6, Zenon DEF Range
<1> QED
  BY <1>1, <1>7, <1>8, Zenon DEF t

(* An upsert moves its row to the end of the order.                        *)
LEMMA Reordered ==
    ASSUME NEW S, NEW s \in Seq(S), IsInjective(s), NEW c \in S
    PROVE  /\ Append(RemoveFirst(s, c), c) \in Seq(S)
           /\ IsInjective(Append(RemoveFirst(s, c), c))
           /\ Range(Append(RemoveFirst(s, c), c)) = Range(s) \cup {c}
<1>1. CASE c \in Range(s)
  <2>1. PICK k \in DOMAIN s : c = s[k]
    BY <1>1, Zenon DEF Range
  <2>2. /\ RemoveFirst(s, c) \in Seq(S) /\ IsInjective(RemoveFirst(s, c))
        /\ Range(RemoveFirst(s, c)) = Range(s) \ {c}
    BY <2>1, RemovedOnce, Zenon
  <2>3. c \notin Range(RemoveFirst(s, c)) /\ (Range(s) \ {c}) \cup {c} = Range(s) \cup {c}
    BY <2>2, Zenon
  <2> QED
    BY <2>2, <2>3, AppendedOnce, SMTT(30)
<1>2. CASE c \notin Range(s)
  <2>1. \A i \in 1 .. Len(s) : s[i] # c
    BY <1>2 DEF Range
  <2>2. RemoveFirst(s, c) = s
    BY <2>1, Zenon DEF RemoveFirst
  <2> QED
    BY <1>2, <2>2, AppendedOnce, SMTT(30)
<1> QED
  BY <1>1, <1>2, Zenon

(* Whether a request pauses the provider is a yes or a no.                 *)
LEMMA PauseType ==
    ASSUME NEW t, NEW answer,
           answer \in Answers[ProfileStatus(t)] \/ answer \in Answers[AchievementStatus(t)]
    PROVE  answer.paused \in BOOLEAN
<1>1. ProfileStatus(t) \in Genuine /\ AchievementStatus(t) \in Genuine
  BY Zenon DEF ProfileStatus, AchievementStatus, Genuine
<1>2. PICK s \in Genuine : answer \in Answers[s]
  BY <1>1, Zenon
<1>3. PICK rs \in Attempts : answer = doRequest(rs)
  BY <1>2, Zenon DEF Answers
<1>4. PICK r : answer.paused = Rejected(r)
  BY <1>3, Zenon DEF doRequest
<1> QED
  BY <1>4, Zenon DEF Rejected

(* A step of one worker that writes no page.                               *)
LEMMA WorkerTypes ==
    ASSUME IInv, TInv, NEW w \in Workers, NEW m, wk' = [wk EXCEPT ![w] = m],
           m.missing \subseteq Milestones, UNCHANGED <<truth, order>>,
           \A c \in Characters : /\ rows'[c].page = rows[c].page
                                 /\ rows'[c].milestones \subseteq Milestones,
           queue' \subseteq Jobs, paused' \in BOOLEAN
    PROVE  TInv'
<1>1. Ordered'
  BY Zenon DEF TInv, Ordered
<1>2. ASSUME NEW v \in Workers
      PROVE  wk'[v].missing \subseteq Milestones
  <2>1. wk \in [Workers -> Worker]
    BY Zenon DEF IInv
  <2>2. wk'[v] = IF v = w THEN m ELSE wk[v]
    BY <2>1, Zenon
  <2> QED
    BY <2>2, Zenon DEF TInv, Carried
<1>3. Carried'
  BY <1>2, Zenon DEF Carried
<1> QED
  BY <1>1, <1>3, Zenon DEF TInv

(* The rows as they are.                                                   *)
LEMMA SameRows ==
    ASSUME TInv, UNCHANGED rows
    PROVE  \A c \in Characters : /\ rows'[c].page = rows[c].page
                                 /\ rows'[c].milestones \subseteq Milestones
  BY Zenon DEF TInv, Carried

(* What the loop of the sweep carries on.                                  *)
LEMMA AdvanceTypes ==
    ASSUME NEW w \in Workers, NEW at \in Worker, at.missing \subseteq Milestones,
           NEW chained, Advance(w, at, chained)
    PROVE  \E m : wk' = [wk EXCEPT ![w] = m] /\ m.missing \subseteq Milestones
<1> DEFINE next == at.next \cup chained
           rest == {c \in Characters : c > at.at}
           m == IF at.job = Sweep /\ rest # {}
                THEN [at EXCEPT !.pc = "fetch", !.at = First(rest), !.next = next, !.page = "none"]
                ELSE IF next # {} THEN [at EXCEPT !.pc = "chain", !.next = next, !.page = "none"]
                ELSE Idle
<1>1. wk' = [wk EXCEPT ![w] = m]
  BY Zenon DEF Advance
<1> HIDE DEF next, rest
<1>2. [at EXCEPT !.pc = "fetch", !.at = First(rest), !.next = next, !.page = "none"].missing = at.missing
  BY Zenon DEF Worker
<1>3. [at EXCEPT !.pc = "chain", !.next = next, !.page = "none"].missing = at.missing
  BY Zenon DEF Worker
<1>4. m.missing \subseteq Milestones
  <2>1. Idle.missing \subseteq Milestones
    BY IdleFacts, Zenon
  <2>2. m.missing = at.missing \/ m.missing = Idle.missing
    BY <1>2, <1>3, Zenon
  <2> QED
    BY <2>1, <2>2, Zenon
<1> QED
  BY <1>1, <1>4, Zenon

(* A request of the sweep or of character-census.                          *)
LEMMA FetchAtTypes ==
    ASSUME IInv, TInv, NEW w \in Workers, NEW at \in Worker, at.missing \subseteq Milestones,
           FetchAt(w, at)
    PROVE  TInv'
<1> DEFINE t == truth[at.at]
<1>1. PICK answer \in Answers[ProfileStatus(t)] :
        /\ Ask(answer)
        /\ LET seen == FetchCharacter(answer, t.page) IN
             \/ Redeliver(w, at.job)
             \/ Advance(w, at, {}) /\ queue' = queue \ {at.job}
             \/ /\ wk' = [wk EXCEPT ![w] = [at EXCEPT !.pc = "store", !.page = seen]]
                /\ queue' = queue \ {at.job}
        /\ UNCHANGED <<truth, rows, order, troubled, changes>>
  BY Zenon DEF FetchAt
<1>2. paused' \in BOOLEAN
  BY <1>1, PauseType, Zenon DEF Ask
<1>3. at.job \in Jobs /\ queue \subseteq Jobs
  BY Zenon DEF Worker, TInv
<1>4. queue' \subseteq Jobs
  BY <1>1, <1>3, Zenon DEF Redeliver
<1>5. \E m : wk' = [wk EXCEPT ![w] = m] /\ m.missing \subseteq Milestones
  <2>1. CASE Redeliver(w, at.job)
    <3>1. Idle.missing \subseteq Milestones
      BY IdleFacts, Zenon
    <3> QED
      BY <2>1, <3>1, Zenon DEF Redeliver
  <2>2. CASE Advance(w, at, {})
    BY <2>2, AdvanceTypes, Zenon
  <2>3. CASE \E seen : wk' = [wk EXCEPT ![w] = [at EXCEPT !.pc = "store", !.page = seen]]
    <3>1. PICK seen : wk' = [wk EXCEPT ![w] = [at EXCEPT !.pc = "store", !.page = seen]]
      BY <2>3, Zenon
    <3>2. [at EXCEPT !.pc = "store", !.page = seen].missing = at.missing
      BY Zenon DEF Worker
    <3> QED
      BY <3>1, <3>2, Zenon
  <2> QED
    BY <1>1, <2>1, <2>2, <2>3, Zenon
<1> QED
  BY <1>1, <1>2, <1>4, <1>5, SameRows, WorkerTypes, Zenon

LEMMA FetchTypes ==
    ASSUME IInv, TInv, NEW w \in Workers, NEW job \in Jobs, Fetch(w, job)
    PROVE  TInv'
<1>1. Started(w, job) \in Worker /\ Started(w, job).missing \subseteq Milestones
  BY StartedFacts, Zenon
<1> QED
  BY <1>1, FetchAtTypes, Zenon DEF Fetch

LEMMA FetchNextTypes ==
    ASSUME IInv, TInv, NEW w \in Workers, FetchNext(w)
    PROVE  TInv'
<1>1. wk[w] \in Worker /\ wk[w].missing \subseteq Milestones
  BY Zenon DEF IInv, TInv, Carried
<1> QED
  BY <1>1, FetchAtTypes, Zenon DEF FetchNext

(* The profile is stored, or the character is marked deleted.              *)
LEMMA StoreTypes ==
    ASSUME IInv, TInv, NEW w \in Workers, Store(w)
    PROVE  TInv'
<1> DEFINE c == wk[w].at
           page == wk[w].page
<1>1. /\ wk[w] \in Worker /\ wk[w].missing \subseteq Milestones /\ wk \in [Workers -> Worker]
      /\ c \in Characters /\ page \in Public \cup {"hidden", "absent"}
      /\ rows \in [Characters -> Row]
  BY Zenon DEF Store, IInv, WorldTypes, WorkerOK, TInv, Carried
<1>2. UNCHANGED <<truth, queue, paused>> /\ queue \subseteq Jobs /\ paused \in BOOLEAN
  BY Zenon DEF Store, TInv
<1>3. \E m : wk' = [wk EXCEPT ![w] = m] /\ m.missing \subseteq Milestones
  <2>1. CASE Ack(w)
    <3>1. Idle.missing \subseteq Milestones
      BY IdleFacts, Zenon
    <3> QED
      BY <2>1, <3>1, Zenon DEF Ack
  <2>2. CASE \E chained : Advance(w, wk[w], chained)
    BY <1>1, <2>2, AdvanceTypes, Zenon
  <2> QED
    BY <2>1, <2>2, Zenon DEF Store
<1> HIDE DEF c, page
<1>4. CASE MarkDeleted(c) \/ UNCHANGED <<rows, order>>
  <2>1. UNCHANGED order /\ \A d \in Characters : /\ rows'[d].page = rows[d].page
                                                /\ rows'[d].milestones = rows[d].milestones
    BY <1>1, <1>4, SMTT(30) DEF MarkDeleted, Row
  <2>2. \A d \in Characters : rows'[d].milestones \subseteq Milestones
    BY <2>1, Zenon DEF TInv, Carried
  <2> QED
    BY <1>2, <1>3, <2>1, <2>2, WorkerTypes, Zenon
<1>5. CASE page \in Public /\ Upsert(c, page)
  <2>1. /\ \A d \in Characters : rows'[d].milestones = rows[d].milestones
        /\ \A d \in Characters : rows'[d].page = IF d = c THEN page ELSE rows[d].page
    BY <1>1, <1>5, Zenon DEF Upsert, Row
  <2>2. order \in Seq(Characters) /\ IsInjective(order)
    BY Zenon DEF TInv, Ordered
  <2>3. order' = Append(RemoveFirst(order, c), c)
    BY <1>5, Zenon DEF Upsert
  <2>4. order' \in Seq(Characters) /\ IsInjective(order') /\ Range(order') = Range(order) \cup {c}
    BY <1>1, <2>2, <2>3, Reordered, SMTT(30)
  <2>5. page # "none"
    BY <1>5, Zenon DEF Public
  <2>6. Range(order') = {d \in Characters : rows'[d].page # "none"}
    <3>1. Range(order) = {d \in Characters : rows[d].page # "none"}
      BY Zenon DEF TInv, Ordered
    <3> QED
      BY <1>1, <2>1, <2>4, <2>5, <3>1, Zenon
  <2>7. Ordered'
    BY <2>4, <2>6, Zenon DEF Ordered
  <2>8. PICK m : wk' = [wk EXCEPT ![w] = m] /\ m.missing \subseteq Milestones
    BY <1>3, Zenon
  <2>9. ASSUME NEW v \in Workers
        PROVE  wk'[v].missing \subseteq Milestones
    <3>1. wk'[v] = IF v = w THEN m ELSE wk[v]
      BY <1>1, <2>8, Zenon
    <3> QED
      BY <2>8, <3>1, Zenon DEF TInv, Carried
  <2>10. Carried'
    BY <2>1, <2>9, Zenon DEF TInv, Carried
  <2> QED
    BY <1>2, <2>7, <2>10, Zenon DEF TInv
<1>6. MarkDeleted(c) \/ UNCHANGED <<rows, order>> \/ (page \in Public /\ Upsert(c, page))
  <2>1. CASE page = "absent"
    BY <2>1, Zenon DEF Store, c, page
  <2>2. CASE page # "absent" /\ hiddenRace(page)
    BY <2>2, Zenon DEF Store, UpsertCharacter, c, page
  <2>3. CASE page # "absent" /\ ~hiddenRace(page)
    <3>1. page \in Public
      BY <1>1, <2>3, Zenon DEF hiddenRace
    <3>2. Upsert(c, page)
      BY <2>3, Zenon DEF Store, UpsertCharacter, c, page
    <3> QED
      BY <3>1, <3>2, Zenon
  <2> QED
    BY <2>1, <2>2, <2>3, Zenon
<1> QED
  BY <1>4, <1>5, <1>6, Zenon

(* Chained jobs, and deliveries that go back.                              *)
LEMMA ChainTypes ==
    ASSUME IInv, TInv, NEW w \in Workers, Chain(w)
    PROVE  TInv'
<1> DEFINE job == CHOOSE j \in wk[w].next : \A k \in wk[w].next : j.id <= k.id
           left == wk[w].next \ {job}
           m == IF left = {} THEN Idle ELSE [wk[w] EXCEPT !.next = left]
<1>1. wk[w] \in Worker /\ wk[w].next # {} /\ wk[w].missing \subseteq Milestones
  BY Zenon DEF Chain, IInv, WorkerOK, TInv, Carried
<1>2. wk[w].next \in SUBSET Chained
  BY <1>1, Zenon DEF Worker
<1>3. job \in Chained
  BY <1>1, <1>2, NextChained, Zenon
<1>4. queue' = queue \cup {job} /\ wk' = [wk EXCEPT ![w] = m] /\ UNCHANGED <<truth, rows, order, paused>>
  BY Zenon DEF Chain
<1> HIDE DEF job, left
<1>5. queue' \subseteq Jobs
  BY <1>3, <1>4, JobFacts, SMTT(30) DEF TInv, Chained
<1>6. m.missing \subseteq Milestones
  BY <1>1, IdleFacts, Zenon DEF Worker
<1> HIDE DEF m
<1>7. paused' \in BOOLEAN
  BY <1>4, Zenon DEF TInv
<1> QED
  BY <1>4, <1>5, <1>6, <1>7, SameRows, WorkerTypes, Zenon

LEMMA FailureTypes ==
    ASSUME IInv, TInv, NEW w \in Workers, ChainFails(w) \/ Abandon(w)
    PROVE  TInv'
<1>1. Redeliver(w, wk[w].job) /\ UNCHANGED <<truth, rows, order, paused>>
  BY Zenon DEF ChainFails, Abandon
<1>2. wk[w].job \in Jobs
  BY Zenon DEF IInv, Worker
<1>3. queue' \subseteq Jobs /\ paused' \in BOOLEAN /\ wk' = [wk EXCEPT ![w] = Idle]
  BY <1>1, <1>2, Zenon DEF Redeliver, TInv
<1>4. Idle.missing \subseteq Milestones
  BY IdleFacts, Zenon
<1> QED
  BY <1>1, <1>3, <1>4, SameRows, WorkerTypes, Zenon

(* The achievement list: the milestones that are missing are tracked.      *)
LEMMA ListTypes ==
    ASSUME IInv, TInv, NEW w \in Workers, NEW job \in Jobs, List(w, job)
    PROVE  TInv'
<1> DEFINE s == Started(w, job)
<1>0. \A known \in SUBSET Milestones : missingMilestoneIDs(known) \in SUBSET Milestones
  BY Zenon DEF missingMilestoneIDs
<1>1. PICK answer \in Answers[AchievementStatus(truth[job.id])], missing \in SUBSET Milestones :
        /\ paused' = answer.paused
        /\ \/ Redeliver(w, job)
           \/ /\ \E pc, latest : wk' = [wk EXCEPT ![w] =
                                    [s EXCEPT !.pc = pc, !.missing = missing, !.latest = latest]]
              /\ queue' = queue \ {job}
           \/ /\ \E pc : wk' = [wk EXCEPT ![w] = [s EXCEPT !.pc = pc]]
              /\ queue' = queue \ {job}
        /\ UNCHANGED <<truth, rows, order>>
  BY <1>0, Zenon DEF List, AskKnowing, Ask
<1>2. paused' \in BOOLEAN
  BY <1>1, PauseType, Zenon
<1>3. queue' \subseteq Jobs
  BY <1>1, Zenon DEF Redeliver, TInv
<1>4. s \in Worker /\ s.missing = {} /\ missing \subseteq Milestones
  BY <1>1, StartedFacts, Zenon
<1> HIDE DEF s
<1>5. \E m : wk' = [wk EXCEPT ![w] = m] /\ m.missing \subseteq Milestones
  <2>1. CASE Redeliver(w, job)
    <3>1. Idle.missing \subseteq Milestones
      BY IdleFacts, Zenon
    <3> QED
      BY <2>1, <3>1, Zenon DEF Redeliver
  <2>2. ASSUME NEW pc, NEW latest
        PROVE  [s EXCEPT !.pc = pc, !.missing = missing, !.latest = latest].missing = missing
    BY <1>4, Zenon DEF Worker
  <2>3. ASSUME NEW pc
        PROVE  [s EXCEPT !.pc = pc].missing = {}
    BY <1>4, Zenon DEF Worker
  <2>4. {} \subseteq Milestones
    BY Zenon
  <2>5. CASE \E pc, latest : wk' = [wk EXCEPT ![w] =
                                [s EXCEPT !.pc = pc, !.missing = missing, !.latest = latest]]
    <3>1. PICK pc : \E latest : wk' = [wk EXCEPT ![w] =
                        [s EXCEPT !.pc = pc, !.missing = missing, !.latest = latest]]
      BY <2>5, Zenon
    <3>2. PICK latest : wk' = [wk EXCEPT ![w] =
                        [s EXCEPT !.pc = pc, !.missing = missing, !.latest = latest]]
      BY <3>1, Zenon
    <3>3. [s EXCEPT !.pc = pc, !.missing = missing, !.latest = latest].missing \subseteq Milestones
      BY <1>4, <2>2, Zenon
    <3> QED
      BY <3>2, <3>3, Zenon
  <2>6. CASE \E pc : wk' = [wk EXCEPT ![w] = [s EXCEPT !.pc = pc]]
    BY <2>3, <2>4, <2>6, Zenon
  <2> QED
    BY <1>1, <2>1, <2>5, <2>6, Zenon
<1> QED
  BY <1>1, <1>2, <1>3, <1>5, SameRows, WorkerTypes, Zenon

(* The detail requests find some of the missing ones.                      *)
LEMMA DetailsTypes ==
    ASSUME IInv, TInv, NEW w \in Workers, Details(w)
    PROVE  TInv'
<1> DEFINE m == wk[w]
           t == truth[m.at]
           found == EarnedPrefix(m.missing, 1 .. t.earned)
<1>1. PICK answer \in Answers[AchievementStatus(t)] :
        /\ Ask(answer)
        /\ \/ Redeliver(w, m.job)
           \/ /\ wk' = [wk EXCEPT ![w] = [m EXCEPT !.pc = "private", !.missing = {}, !.latest = 0]]
              /\ UNCHANGED queue
           \/ /\ \E pc : wk' = [wk EXCEPT ![w] = [m EXCEPT !.pc = pc, !.missing = found]]
              /\ UNCHANGED queue
        /\ UNCHANGED <<truth, rows, order>>
  BY Zenon DEF Details
<1>2. paused' \in BOOLEAN
  BY <1>1, PauseType, Zenon DEF Ask
<1>3. m \in Worker /\ m.job \in Jobs /\ m.missing \subseteq Milestones
  BY Zenon DEF IInv, Worker, TInv, Carried
<1>4. queue' \subseteq Jobs
  BY <1>1, <1>3, Zenon DEF Redeliver, TInv
<1>5. found \subseteq Milestones
  BY <1>3, Zenon DEF EarnedPrefix
<1> HIDE DEF m, found
<1>6. \E n : wk' = [wk EXCEPT ![w] = n] /\ n.missing \subseteq Milestones
  <2>1. CASE Redeliver(w, m.job)
    <3>1. Idle.missing \subseteq Milestones
      BY IdleFacts, Zenon
    <3> QED
      BY <2>1, <3>1, Zenon DEF Redeliver
  <2>2. [m EXCEPT !.pc = "private", !.missing = {}, !.latest = 0].missing \subseteq Milestones
    BY <1>3, Zenon DEF Worker
  <2>3. ASSUME NEW pc
        PROVE  [m EXCEPT !.pc = pc, !.missing = found].missing = found
    BY <1>3, Zenon DEF Worker
  <2>4. CASE \E pc : wk' = [wk EXCEPT ![w] = [m EXCEPT !.pc = pc, !.missing = found]]
    BY <1>5, <2>3, <2>4, Zenon
  <2> QED
    BY <1>1, <2>1, <2>2, <2>4, Zenon
<1> QED
  BY <1>1, <1>2, <1>4, <1>6, SameRows, WorkerTypes, Zenon

(* The statements of achievement-census.                                   *)
LEMMA MilestonesTypes ==
    ASSUME IInv, TInv, NEW w \in Workers, StoreMilestones(w)
    PROVE  TInv'
<1> DEFINE c == wk[w].at
           m == [wk[w] EXCEPT !.pc = "summary", !.missing = {}]
<1>1. wk[w] \in Worker /\ wk[w].missing \subseteq Milestones /\ rows \in [Characters -> Row]
  BY Zenon DEF IInv, WorldTypes, TInv, Carried
<1>2. /\ rows' = [rows EXCEPT ![c].milestones = @ \cup wk[w].missing]
      /\ wk' = [wk EXCEPT ![w] = m] /\ UNCHANGED <<truth, order, queue, paused>>
  <2>1. [wk EXCEPT ![w] = [@ EXCEPT !.pc = "summary", !.missing = {}]] = [wk EXCEPT ![w] = m]
    BY Zenon DEF IInv
  <2> QED
    BY <2>1, Zenon DEF StoreMilestones, UpsertCharacterMilestones
<1>3. m.missing \subseteq Milestones
  BY <1>1, Zenon DEF Worker
<1>4. ASSUME NEW d \in Characters
      PROVE  /\ rows'[d].page = rows[d].page
             /\ rows'[d].milestones \subseteq rows[d].milestones \cup wk[w].missing
  BY <1>1, <1>2, Zenon DEF Row
<1>5. \A d \in Characters : rows'[d].milestones \subseteq Milestones
  BY <1>1, <1>4, Zenon DEF TInv, Carried
<1> HIDE DEF m
<1>6. queue' \subseteq Jobs /\ paused' \in BOOLEAN
  BY <1>2, Zenon DEF TInv
<1> QED
  BY <1>2, <1>3, <1>4, <1>5, <1>6, WorkerTypes, Zenon

LEMMA ConcludeTypes ==
    ASSUME IInv, TInv, NEW w \in Workers, Conclude(w)
    PROVE  TInv'
<1> DEFINE c == wk[w].at
<1>1. rows \in [Characters -> Row]
  BY Zenon DEF IInv, WorldTypes
<1>2. /\ \/ \E latest : UpdateAchievementSummary(c, latest)
         \/ SetAchievementsPrivate(c)
         \/ MarkDeleted(c)
      /\ wk' = [wk EXCEPT ![w] = Idle] /\ UNCHANGED <<truth, order, queue, paused>>
  BY Zenon DEF Conclude, Ack, MarkDeleted
<1> HIDE DEF c
<1>3. ASSUME NEW d \in Characters
      PROVE  rows'[d].page = rows[d].page /\ rows'[d].milestones = rows[d].milestones
  <2>1. ASSUME NEW latest, UpdateAchievementSummary(c, latest)
        PROVE  rows'[d].page = rows[d].page /\ rows'[d].milestones = rows[d].milestones
    BY <1>1, <2>1, Zenon DEF UpdateAchievementSummary, Row
  <2>2. CASE SetAchievementsPrivate(c) \/ MarkDeleted(c)
    BY <1>1, <2>2, SMTT(30) DEF SetAchievementsPrivate, MarkDeleted, Row
  <2> QED
    BY <1>2, <2>1, <2>2, Zenon
<1>4. \A d \in Characters : rows'[d].milestones \subseteq Milestones
  BY <1>3, Zenon DEF TInv, Carried
<1>5. Idle.missing \subseteq Milestones
  BY IdleFacts
<1>6. queue' \subseteq Jobs /\ paused' \in BOOLEAN
  BY <1>2, Zenon DEF TInv
<1> QED
  BY <1>2, <1>3, <1>4, <1>5, <1>6, WorkerTypes, Zenon

(* The publish commands queue jobs of stored characters.                   *)
LEMMA PublishTypes ==
    ASSUME TInv, PublishCharacterCensus \/ PublishAchievementCensus
    PROVE  TInv'
<1>1. UNCHANGED <<truth, rows, order, wk, paused>>
  BY Zenon DEF PublishCharacterCensus, PublishAchievementCensus
<1>2. CASE PublishCharacterCensus
  <2> DEFINE stale == ListStale(Limit)
  <2>1. PICK n \in DOMAIN stale : queue' = queue \cup {CharacterCensusJob(stale[i]) : i \in 1 .. n}
    BY <1>2, Zenon DEF PublishCharacterCensus
  <2>2. stale \in Seq(Characters)
    BY IngestAssumption DEF ListStale, TInv, Ordered
  <2> HIDE DEF stale
  <2>3. n \in 1 .. Len(stale)
    BY <2>2
  <2>4. \A i \in 1 .. n : stale[i] \in Characters
    BY <2>2, <2>3, SMTT(30)
  <2>5. queue' \subseteq Jobs
    BY <2>1, <2>4, JobFacts, Zenon DEF TInv
  <2> QED
    BY <1>1, <2>5, Zenon DEF TInv, Ordered, Carried
<1>3. CASE PublishAchievementCensus
  <2>1. \E S \in SUBSET Characters : queue' = queue \cup {AchievementCensusJob(c) : c \in S}
    <3> DEFINE live == {c \in Characters : rows[c].page # "none" /\ ~rows[c].deleted}
               listed == {c \in live : Cardinality({d \in live : d < c}) < Limit}
    <3>1. PICK n \in listed : queue' = queue \cup {AchievementCensusJob(c) : c \in {d \in listed : d <= n}}
      BY <1>3, Zenon DEF PublishAchievementCensus
    <3>2. {d \in listed : d <= n} \in SUBSET Characters
      BY Zenon
    <3> HIDE DEF listed
    <3> QED
      BY <3>1, <3>2, Zenon
  <2>2. queue' \subseteq Jobs
    BY <2>1, JobFacts, ZenonT(30) DEF TInv
  <2> QED
    BY <1>1, <2>2, Zenon DEF TInv, Ordered, Carried
<1> QED
  BY <1>2, <1>3, Zenon

(* The Lodestone stays a Lodestone.                                        *)
LEMMA ChangeTypes ==
    ASSUME TInv, NEW c \in Characters, Change(c)
    PROVE  TInv'
<1>1. UNCHANGED <<rows, order, queue, wk, paused>> /\ truth \in [Characters -> Tracked]
  BY Zenon DEF Change, TInv
<1>2. truth' \in [Characters -> Tracked]
  <2>1. ASSUME NEW page \in Pages, truth' = [truth EXCEPT ![c].page = page]
        PROVE  truth' \in [Characters -> Tracked]
    BY <1>1, <2>1, Zenon DEF Tracked
  <2>2. CASE truth[c].earned + 1 \in Milestones /\ truth' = [truth EXCEPT ![c].earned = @ + 1]
    BY <1>1, <2>2, Zenon DEF Tracked
  <2>3. CASE truth' = [truth EXCEPT ![c].private = ~@]
    BY <1>1, <2>3, Zenon DEF Tracked
  <2> QED
    BY <2>1, <2>2, <2>3, Zenon DEF Change
<1> QED
  BY <1>1, <1>2, Zenon DEF TInv, Ordered, Carried

(* The variables have the shapes the handlers and the schema give them; in *)
(* particular every stored character is in the re-census order, once, for  *)
(* any number of workers and upserts.                                      *)
THEOREM TypeTheorem == Spec => []TypeOK
<1>1. Init => TInv
  <2> SUFFICES ASSUME Init PROVE TInv
    OBVIOUS
  <2>1. truth \in [Characters -> Tracked]
    BY IngestAssumption, Zenon DEF Init, Tracked, Pages, Public
  <2>2. Ordered
    <3>1. <<>> \in Seq(Characters) /\ IsInjective(<<>>) /\ Range(<<>>) = {}
      BY DEF IsInjective, Range
    <3>2. \A c \in Characters : rows[c].page = "none"
      BY Zenon DEF Init, NoRow
    <3> QED
      BY <3>1, <3>2, Zenon DEF Init, Ordered
  <2>3. Carried
    BY IdleFacts, Zenon DEF Init, Carried, NoRow
  <2> QED
    BY <2>1, <2>2, <2>3, JobFacts, Zenon DEF Init, TInv
<1>2. ASSUME IInv, TInv, [Next]_vars PROVE TInv'
  <2>1. ASSUME NEW job \in Jobs, Start(job) PROVE TInv'
    BY <1>2, <2>1, FetchTypes, ListTypes, Zenon DEF Start
  <2>2. ASSUME NEW w \in Workers, Continue(w) \/ ChainFails(w) \/ Abandon(w) PROVE TInv'
    BY <1>2, <2>2, FetchNextTypes, StoreTypes, ChainTypes, DetailsTypes, MilestonesTypes,
       ConcludeTypes, FailureTypes, Zenon DEF Continue
  <2>3. CASE PauseEnds \/ UNCHANGED vars
    BY <1>2, <2>3, Zenon DEF PauseEnds, vars, TInv, Ordered, Carried
  <2> QED
    BY <1>2, <2>1, <2>2, <2>3, PublishTypes, ChangeTypes, Zenon DEF Next
<1>3. IInv /\ TInv /\ [Next]_vars => TInv'
  BY <1>2, Zenon
<1>4. IInv /\ TInv => TypeOK
  <2> SUFFICES ASSUME IInv, TInv PROVE TypeOK
    BY Zenon
  <2>1. rows \in [Characters -> [page : Public \cup {"none"}, deleted : BOOLEAN, private : BOOLEAN,
                                 milestones : SUBSET Milestones, latest : Nat]]
    BY Zenon DEF IInv, WorldTypes, Row, TInv, Carried
  <2>2. \A w \in Workers : wk[w].job \in Jobs /\ wk[w].next \subseteq Jobs
    <3>1. Chained \subseteq Jobs
      BY JobFacts, Zenon DEF Chained
    <3> QED
      BY <3>1, Zenon DEF IInv, Worker
  <2> QED
    BY <2>1, <2>2, Zenon DEF TInv, Tracked, Ordered, TypeOK
<1> QED
  BY <1>1, <1>3, <1>4, Invariant, PTL DEF Spec
=============================================================================
