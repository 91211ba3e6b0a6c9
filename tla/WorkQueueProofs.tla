-------------------------- MODULE WorkQueueProofs --------------------------
(***************************************************************************)
(* Proofs about WorkQueue for every number of jobs, slots, workers, retry  *)
(* workers and disruptions: type correctness, NoLoss, AttemptAccounting,   *)
(* ExhaustionBudget, BackoffHonoured, DuplicationBudget and the refinement *)
(* of ReliableQueue.                                                       *)
(*                                                                         *)
(* NoLoss is not inductive: the copy it finds may be the one an actor is   *)
(* about to ack.  SafeCopy asks for one that is not.                       *)
(***************************************************************************)
EXTENDS WorkQueueRefinement, FiniteSetTheorems, TLAPS

(* A delivery is captured exactly while an actor works on it, and its job  *)
(* was accepted by a queue.                                                *)
Captured ==
    \A a \in Actors :
        IF pc[a] = "idle"
          THEN cur[a] = NoDelivery /\ ~live[a]
          ELSE cur[a] \in Delivery /\ cur[a].msg.job \in stored

(* A copy held on an open channel is still in the queue it came from.      *)
HeldCopy ==
    \A a \in Actors :
        live[a] => /\ slot[cur[a].slot] # Free
                   /\ slot[cur[a].slot].job = cur[a].msg.job
                   /\ slot[cur[a].slot].queue = cur[a].msg.queue

(* The broker gives a copy to one open channel at a time.                  *)
Exclusive ==
    \A a, b \in Actors :
        live[a] /\ live[b] /\ cur[a].slot = cur[b].slot => a = b

StoredJobs ==
    /\ Legacy \subseteq stored
    /\ \A s \in Slots : slot[s] # Free => slot[s].job \in stored

(* No actor is about to ack the copy in s.                                 *)
NotAcked(s) == \A a \in Actors : Holds(a, s) => pc[a] # "acking"

SafeCopy ==
    \A j \in stored : j \in done \/ \E s \in Slots : CopyOf(s, j) /\ NotAcked(s)

(* What the headers of a message in each queue say about its history.      *)
MessageOK(m) ==
    /\ m.queue \in {"main", "failed"} =>
          m.entries <= m.attempts /\ m.attempts <= 2 * m.entries
    /\ m.queue = "failed" /\ m.job \notin Legacy => m.attempts + 1 <= 2 * m.entries
    /\ m.queue = "main" => m.job \notin Legacy /\ m.due
    /\ m.queue = "dead" /\ m.job \notin Poison => 2 * m.entries >= MaxAttempts

StoredOK == \A s \in Slots : slot[s] # Free => MessageOK(slot[s])

CapturedOK ==
    \A a \in Actors : pc[a] # "idle" =>
        /\ MessageOK(cur[a].msg)
        /\ cur[a].msg.queue \in ConsumesFrom(a)
        /\ pc[a] = "failing" => cur[a].msg.job \notin Poison
        /\ pc[a] = "parking" => cur[a].msg.job \in Poison
        /\ a \in Retriers => pc[a] \in {"claimed", "acking", "nacking"}

Custody == Captured /\ HeldCopy /\ Exclusive /\ StoredJobs

IInv == TypeOK /\ Custody /\ SafeCopy /\ StoredOK /\ CapturedOK

-----------------------------------------------------------------------------
(* Messages *)

(* The fields of a message have their types.                               *)
LEMMA MessageFields ==
    ASSUME NEW m \in Message
    PROVE  /\ m.queue \in {"main", "failed", "dead"} /\ m.job \in Jobs
           /\ m.attempts \in Nat /\ m.entries \in Nat /\ m.due \in BOOLEAN
           /\ m # Free
BY DEF Message, Free

(* A message that was just published.                                      *)
LEMMA NewMessageFields ==
    ASSUME NEW j \in Jobs, NEW q \in {"main", "failed"}
    PROVE  /\ NewMessage(q, j) \in Message
           /\ NewMessage(q, j).job = j
           /\ q = "main" /\ j \notin Legacy => MessageOK(NewMessage(q, j))
           /\ q = "failed" /\ j \in Legacy => MessageOK(NewMessage(q, j))
BY DEF NewMessage, Message, MessageOK

(* A copy for a side queue is a message of the same job.                   *)
LEMMA SideCopyFields ==
    ASSUME NEW m \in Message
    PROVE  /\ ToFailed(m) \in Message /\ ToFailed(m).job = m.job
           /\ ToDead(m) \in Message /\ ToDead(m).job = m.job
<1>1. /\ m.job \in Jobs /\ m.due \in BOOLEAN
      /\ m.attempts + 1 \in Nat /\ m.entries \in Nat /\ m.entries + 1 \in Nat
  BY MessageFields
<1>2. ToFailed(m) \in Message /\ ToFailed(m).job = m.job
  BY <1>1, Zenon DEF ToFailed, Message
<1>3. ToDead(m) \in Message /\ ToDead(m).job = m.job
  BY <1>1, Zenon DEF ToDead, Message
<1> QED BY <1>2, <1>3, Zenon

(* A copy made by a handler failure, a park or a republish carries the job *)
(* of the delivery it replaces and correct headers for its queue.          *)
LEMMA ToFailedOK ==
    ASSUME NEW m \in Message, MessageOK(m), m.queue # "dead", m.job \notin Poison
    PROVE  ToFailed(m) \in Message /\ ToFailed(m).job = m.job /\ MessageOK(ToFailed(m))
<1>1. /\ ToFailed(m) \in Message
      /\ ToFailed(m).job = m.job
      /\ ToFailed(m).queue = "failed"
      /\ ToFailed(m).attempts = m.attempts + 1
      /\ ToFailed(m).entries = m.entries + 1
  BY DEF ToFailed, Message
<1>2. QED
  BY <1>1, MessageFields DEF MessageOK

(* A parked copy is poison or has used up its attempts.                    *)
LEMMA ToDeadOK ==
    ASSUME NEW m \in Message,
           m.job \in Poison \/ 2 * m.entries >= MaxAttempts
    PROVE  ToDead(m) \in Message /\ ToDead(m).job = m.job /\ MessageOK(ToDead(m))
<1>1. /\ ToDead(m) \in Message
      /\ ToDead(m).job = m.job
      /\ ToDead(m).queue = "dead"
      /\ ToDead(m).entries = m.entries
  BY DEF ToDead, Message
<1>2. QED
  BY <1>1, Zenon DEF MessageOK

(* What a republish changes of a message.                                  *)
LEMMA ToMainFields ==
    ASSUME NEW m \in Message, NEW due, due = TRUE
    PROVE  /\ ToMain(m, due) \in Message
           /\ ToMain(m, due).job = m.job
           /\ ToMain(m, due).queue = "main"
           /\ ToMain(m, due).due = TRUE
           /\ ToMain(m, due).attempts = m.attempts + 1
           /\ ToMain(m, due).entries = m.entries
BY DEF ToMain, Message

(* A republished copy has correct headers.                                 *)
LEMMA ToMainOK ==
    ASSUME NEW m \in Message, NEW due, due = TRUE,
           MessageOK(m), m.queue = "failed", m.job \notin Legacy
    PROVE  MessageOK(ToMain(m, due))
<1>1. PICK x \in Message : /\ x = ToMain(m, due) /\ x.due = TRUE
                          /\ x.job = m.job /\ x.queue = "main"
                          /\ x.attempts = m.attempts + 1 /\ x.entries = m.entries
  BY ToMainFields, Zenon
<1>2. x.due
  BY <1>1, Zenon
<1>3. MessageOK(x)
  BY <1>1, <1>2, MessageFields DEF MessageOK
<1>4. QED
  BY <1>1, <1>3, Zenon

-----------------------------------------------------------------------------
(* The inductive invariant *)

(* A broker with nothing but old failed messages.                          *)
LEMMA InitIInv == Init => IInv
<1> SUFFICES ASSUME Init PROVE IInv
  BY Zenon
<1>1. \A s \in Slots : slot[s] = Free \/ \E j \in Legacy : slot[s] = NewMessage("failed", j)
  BY Zenon DEF Init, Leftover
<1>2. \A s \in Slots : slot[s] # Free =>
         /\ slot[s] \in Message
         /\ slot[s].job \in Legacy
         /\ MessageOK(slot[s])
  BY <1>1, NewMessageFields, JobsAssumption, Zenon
<1>3. TypeOK
  BY <1>2, JobsAssumption, Zenon DEF Init, Leftover, TypeOK, PC
<1>4. Custody
  BY <1>2, Zenon DEF Init, Leftover, Custody, Captured, HeldCopy, Exclusive, StoredJobs
<1>5. SafeCopy
  <2> SUFFICES ASSUME NEW j \in Legacy
               PROVE  \E s \in Slots : CopyOf(s, j) /\ NotAcked(s)
    BY Zenon DEF Init, Leftover, SafeCopy
  <2>1. PICK s \in Slots : slot[s] = NewMessage("failed", j)
    BY Zenon DEF Init, Leftover
  <2>2. CopyOf(s, j)
    BY <2>1, NewMessageFields, MessageFields, JobsAssumption, Zenon DEF CopyOf
  <2>3. NotAcked(s)
    BY Zenon DEF Init, Leftover, NotAcked, Holds
  <2>4. QED
    BY <2>2, <2>3, Zenon
<1>6. StoredOK /\ CapturedOK
  BY <1>2, Zenon DEF Init, Leftover, StoredOK, CapturedOK
<1>7. QED
  BY <1>3, <1>4, <1>5, <1>6, Zenon DEF IInv

(* An actor that lets go of its delivery without touching the broker.      *)
LEMMA FinishKeeps ==
    ASSUME IInv, NEW a \in Actors, Finish(a),
           UNCHANGED <<slot, stored, done>>, disruptions' \in Nat
    PROVE  IInv'
<1> USE DEF IInv, Finish, Goto
<1>1. TypeOK'
  BY Zenon DEF TypeOK, PC
<1>2. Captured' /\ HeldCopy' /\ Exclusive' /\ StoredJobs'
  BY Zenon DEF TypeOK, Custody, Captured, HeldCopy, Exclusive, StoredJobs
<1>3. SafeCopy'
  BY DEF TypeOK, SafeCopy, NotAcked, Holds, CopyOf
<1>4. StoredOK' /\ CapturedOK'
  BY Zenon DEF TypeOK, StoredOK, CapturedOK
<1>5. QED
  BY <1>1, <1>2, <1>3, <1>4, Zenon DEF Custody

(* The broker stores one more copy, of a job it has or is now accepting.   *)
LEMMA EnqueueKeeps ==
    ASSUME IInv, NEW m \in Message, MessageOK(m), Enqueue(m),
           stored' = stored \cup {m.job}, disruptions' \in Nat,
           UNCHANGED <<pc, cur, live, done>>
    PROVE  IInv'
<1> USE DEF IInv
<1>1. PICK t \in Slots : slot[t] = Free /\ slot' = [slot EXCEPT ![t] = m]
  BY Zenon DEF Enqueue
<1>2. m # Free /\ m.job \in Jobs
  BY MessageFields, Zenon
<1>3. TypeOK'
  BY <1>1, <1>2, Zenon DEF TypeOK
<1>4. \A a \in Actors : live[a] => cur[a].slot # t /\ cur[a].slot \in Slots
  BY <1>1, Zenon DEF Custody, HeldCopy, Captured, TypeOK, Delivery
<1>5. Captured' /\ HeldCopy' /\ Exclusive' /\ StoredJobs'
  BY <1>1, <1>2, <1>4, Zenon DEF TypeOK, Custody, Captured, HeldCopy, Exclusive, StoredJobs
<1>6. SafeCopy'
  BY <1>1, <1>2, <1>4 DEF TypeOK, SafeCopy, NotAcked, Holds, CopyOf
<1>7. StoredOK' /\ CapturedOK'
  BY <1>1, <1>2, Zenon DEF TypeOK, StoredOK, CapturedOK
<1>8. QED
  BY <1>3, <1>5, <1>6, <1>7, Zenon DEF Custody

(* An actor moves on with its delivery.  It may only go to "acking" with   *)
(* another copy of the job in the broker, or with the job done.            *)
LEMMA GotoKeeps ==
    ASSUME IInv, NEW a \in Actors, NEW label \in PC \ {"idle"}, pc[a] # "idle",
           Goto(a, label), UNCHANGED <<slot, cur, live, stored>>,
           done \subseteq done', done' \subseteq Jobs, disruptions' \in Nat,
           label = "acking" => cur[a].msg.job \in done',
           label = "failing" => cur[a].msg.job \notin Poison,
           label = "parking" => cur[a].msg.job \in Poison,
           a \in Retriers => label \in {"claimed", "acking", "nacking"}
    PROVE  IInv'
<1> USE DEF IInv, Goto
<1>1. TypeOK'
  BY Zenon DEF TypeOK
<1>2. Captured' /\ HeldCopy' /\ Exclusive' /\ StoredJobs'
  BY Zenon DEF TypeOK, Custody, Captured, HeldCopy, Exclusive, StoredJobs
<1>3. SafeCopy'
  <2> SUFFICES ASSUME NEW j \in stored, j \notin done'
               PROVE  \E s \in Slots : CopyOf(s, j)' /\ NotAcked(s)'
    BY Zenon DEF SafeCopy
  <2>1. PICK s \in Slots : CopyOf(s, j) /\ NotAcked(s)
    BY Zenon DEF SafeCopy
  <2>2. Holds(a, s) => label # "acking"
    BY <2>1, Zenon DEF Holds, CopyOf, Custody, HeldCopy
  <2>3. NotAcked(s)'
    BY <2>1, <2>2, Zenon DEF NotAcked, Holds, TypeOK
  <2>4. QED
    BY <2>1, <2>3, Zenon DEF CopyOf
<1>4. StoredOK' /\ CapturedOK'
  BY Zenon DEF TypeOK, StoredOK, CapturedOK, ConsumesFrom
<1>5. QED
  BY <1>1, <1>2, <1>3, <1>4, Zenon DEF Custody

(* A replacement copy is published and the delivery goes on to its Ack, or *)
(* the publish fails and it goes on to its Nack.                           *)
LEMMA ReplaceKeeps ==
    ASSUME IInv, NEW a \in Actors, NEW m \in Message, MessageOK(m),
           pc[a] # "idle", m.job = cur[a].msg.job, publishConfirmed(a, m),
           UNCHANGED <<cur, live, stored, done>>
    PROVE  IInv'
<1> USE DEF IInv
<1>1. m # Free /\ m.job \in stored /\ cur[a] \in Delivery
  BY MessageFields, Zenon DEF Custody, Captured
<1>2. disruptions' \in Nat /\ \E label \in {"acking", "nacking"} : Goto(a, label)
  BY DEF publishConfirmed, Disrupt, TypeOK
<1>3. PICK label \in {"acking", "nacking"} : Goto(a, label)
  BY <1>2, Zenon
<1>4. CASE Enqueue(m)
  <2>1. PICK t \in Slots : slot[t] = Free /\ slot' = [slot EXCEPT ![t] = m]
    BY <1>4, Zenon DEF Enqueue
  <2>2. TypeOK'
    BY <1>1, <1>2, <1>3, <2>1, Zenon DEF TypeOK, Goto, PC
  <2>3. \A b \in Actors : live[b] => cur[b].slot # t /\ cur[b].slot \in Slots
    BY <2>1, Zenon DEF Custody, HeldCopy, Captured, TypeOK, Delivery
  <2>4. Captured' /\ HeldCopy' /\ Exclusive' /\ StoredJobs'
    BY <1>1, <1>3, <2>1, <2>3, Zenon
    DEF TypeOK, Custody, Captured, HeldCopy, Exclusive, StoredJobs, Goto
  <2>5. SafeCopy'
    <3> SUFFICES ASSUME NEW j \in stored, j \notin done
                 PROVE  \E s \in Slots : CopyOf(s, j)' /\ NotAcked(s)'
      BY Zenon DEF SafeCopy
    <3>1. CASE j = m.job
      <4>1. CopyOf(t, j)'
        BY <1>1, <2>1, <3>1, Zenon DEF CopyOf, TypeOK
      <4>2. NotAcked(t)'
        BY <2>3, Zenon DEF NotAcked, Holds
      <4>3. QED
        BY <4>1, <4>2, Zenon
    <3>2. CASE j # m.job
      <4>1. PICK s \in Slots : CopyOf(s, j) /\ NotAcked(s)
        BY Zenon DEF SafeCopy
      <4>2. ~Holds(a, s)
        BY <3>2, <4>1, Zenon DEF Holds, CopyOf, Custody, HeldCopy
      <4>3. NotAcked(s)'
        BY <1>3, <4>1, <4>2, Zenon DEF NotAcked, Holds, Goto, TypeOK
      <4>4. CopyOf(s, j)'
        BY <2>1, <4>1, Zenon DEF CopyOf, TypeOK
      <4>5. QED
        BY <4>3, <4>4, Zenon
    <3>3. QED
      BY <3>1, <3>2, Zenon
  <2>6. StoredOK' /\ CapturedOK'
    BY <1>1, <1>3, <2>1, Zenon DEF TypeOK, StoredOK, CapturedOK, ConsumesFrom, Goto
  <2>7. QED
    BY <2>2, <2>4, <2>5, <2>6, Zenon DEF Custody
<1>5. CASE ~Enqueue(m)
  <2>1. Goto(a, "nacking") /\ UNCHANGED slot
    BY <1>5, Zenon DEF publishConfirmed
  <2>2. QED
    BY <1>2, <2>1, GotoKeeps, Zenon DEF PC, TypeOK
<1>6. QED
  BY <1>4, <1>5, Zenon

(* The Ack of a delivery: the copy in its slot goes.                       *)
LEMMA AckKeeps ==
    ASSUME IInv, NEW a \in Actors, Ack(a)
    PROVE  IInv'
<1> USE DEF IInv
<1>1. CASE ~live[a]
  BY <1>1, FinishKeeps, Zenon DEF Ack, TypeOK
<1>2. CASE live[a]
  <2> DEFINE t == cur[a].slot
  <2>1. /\ t \in Slots /\ slot' = [slot EXCEPT ![t] = Free]
        /\ Finish(a) /\ UNCHANGED <<stored, done, disruptions>>
        /\ pc[a] = "acking"
    BY <1>2, Zenon DEF Ack, Custody, Captured, Delivery
  <2>2. TypeOK'
    BY <2>1, Zenon DEF TypeOK, Finish, Goto, PC
  <2>3. \A b \in Actors : live[b] /\ b # a => cur[b].slot # t /\ cur[b].slot \in Slots
    BY <1>2, <2>1, Zenon DEF Custody, Exclusive, Captured, Delivery
  <2>4. Captured' /\ HeldCopy' /\ Exclusive' /\ StoredJobs'
    BY <2>1, <2>3, Zenon
    DEF TypeOK, Custody, Captured, HeldCopy, Exclusive, StoredJobs, Finish, Goto
  <2>5. SafeCopy'
    <3> SUFFICES ASSUME NEW j \in stored, j \notin done
                 PROVE  \E s \in Slots : CopyOf(s, j)' /\ NotAcked(s)'
      BY <2>1, Zenon DEF SafeCopy
    <3>1. PICK s \in Slots : CopyOf(s, j) /\ NotAcked(s)
      BY Zenon DEF SafeCopy
    <3>2. s # t
      BY <1>2, <2>1, <3>1, Zenon DEF NotAcked, Holds
    <3>3. CopyOf(s, j)'
      BY <2>1, <3>1, <3>2, Zenon DEF CopyOf, TypeOK
    <3>4. NotAcked(s)'
      BY <2>1, <3>1, Zenon DEF NotAcked, Holds, Finish, Goto, TypeOK
    <3>5. QED
      BY <3>3, <3>4, Zenon
  <2>6. StoredOK' /\ CapturedOK'
    BY <2>1, Zenon DEF TypeOK, StoredOK, CapturedOK, ConsumesFrom, Finish, Goto
  <2>7. QED
    BY <2>2, <2>4, <2>5, <2>6, Zenon DEF Custody
<1>3. QED
  BY <1>1, <1>2, Zenon

(* A delivery gives an idle actor a copy nobody holds.                     *)
LEMMA DeliverKeeps ==
    ASSUME IInv, NEW a \in Actors, NEW s \in Slots, Deliver(a, s)
    PROVE  IInv'
<1> USE DEF IInv, Deliver, Goto
<1>1. slot[s] # Free /\ slot[s] \in Message /\ slot[s].job \in stored
  BY SourcesAssumption DEF ConsumesFrom, Free, TypeOK, Custody, StoredJobs
<1>2. TypeOK'
  BY <1>1, Zenon DEF TypeOK, PC, Delivery
<1>3. cur'[a] = [slot |-> s, msg |-> slot[s]] /\ live'[a] /\ pc'[a] = "claimed"
  BY Zenon DEF TypeOK
<1>4. \A b \in Actors : b # a =>
         cur'[b] = cur[b] /\ live'[b] = live[b] /\ pc'[b] = pc[b]
  BY Zenon DEF TypeOK
<1>5. Captured' /\ HeldCopy' /\ Exclusive' /\ StoredJobs'
  BY <1>1, <1>3, <1>4
  DEF Custody, Captured, HeldCopy, Exclusive, StoredJobs, Unheld, Holds, Delivery
<1>6. SafeCopy'
  BY <1>3, <1>4 DEF SafeCopy, NotAcked, Holds, CopyOf
<1>7. StoredOK' /\ CapturedOK'
  BY <1>1, <1>3, <1>4, ActorsAssumption DEF StoredOK, CapturedOK, ConsumesFrom
<1>8. QED
  BY <1>2, <1>5, <1>6, <1>7, Zenon DEF Custody

(* The broker changes the due flag or the queue of a copy in place.  Its   *)
(* queue only changes while no open channel holds it.                      *)
LEMMA RewriteKeeps ==
    ASSUME IInv, NEW s \in Slots, NEW m \in Message, MessageOK(m),
           slot[s] # Free, slot' = [slot EXCEPT ![s] = m], m.job = slot[s].job,
           m.queue = slot[s].queue \/ Unheld(s),
           UNCHANGED <<pc, cur, live, stored, done, disruptions>>
    PROVE  IInv'
<1> USE DEF IInv
<1>1. m # Free
  BY MessageFields, Zenon
<1>2. TypeOK'
  BY Zenon DEF TypeOK
<1>3. Captured' /\ HeldCopy' /\ Exclusive' /\ StoredJobs'
  BY <1>1, Zenon DEF TypeOK, Custody, Captured, HeldCopy, Exclusive, StoredJobs,
              Unheld, Holds, Delivery
<1>4. SafeCopy'
  BY <1>1 DEF TypeOK, SafeCopy, NotAcked, Holds, CopyOf
<1>5. StoredOK' /\ CapturedOK'
  BY <1>1, Zenon DEF TypeOK, StoredOK, CapturedOK, ConsumesFrom
<1>6. QED
  BY <1>2, <1>3, <1>4, <1>5, Zenon DEF Custody

(* The backoff of a message elapses, or its TTL does.                      *)
LEMMA BrokerKeeps ==
    ASSUME IInv, NEW s \in Slots, BackoffElapses(s) \/ Expire(s)
    PROVE  IInv'
<1> USE DEF IInv
<1>1. slot[s] # Free /\ slot[s] \in Message /\ slot[s].queue = "failed"
      /\ MessageOK(slot[s])
  BY DEF BackoffElapses, Expire, Free, TypeOK, StoredOK
<1>2. CASE BackoffElapses(s)
  <2> DEFINE m == [slot[s] EXCEPT !.due = TRUE]
  <2>1. m \in Message /\ m.job = slot[s].job /\ m.queue = slot[s].queue
        /\ m.attempts = slot[s].attempts /\ m.entries = slot[s].entries
    BY <1>1, Zenon DEF Message
  <2>2. slot' = [slot EXCEPT ![s] = m]
    BY <1>2, Zenon DEF BackoffElapses
  <2>3. MessageOK(m)
    BY <1>1, <2>1, Zenon DEF MessageOK
  <2> HIDE DEF m
  <2>4. QED
    BY <1>1, <1>2, <2>1, <2>2, <2>3, RewriteKeeps, Zenon DEF BackoffElapses
<1>3. CASE Expire(s)
  <2> DEFINE m == [slot[s] EXCEPT !.queue = "main"]
  <2>1. m \in Message /\ m.job = slot[s].job /\ m.queue = "main"
        /\ m.due = slot[s].due
        /\ m.attempts = slot[s].attempts /\ m.entries = slot[s].entries
    BY <1>1, Zenon DEF Message
  <2>2. slot' = [slot EXCEPT ![s] = m]
    BY <1>3, Zenon DEF Expire
  <2>3. MessageOK(m)
    BY <1>1, <1>3, <2>1, Zenon DEF MessageOK, Expire
  <2> HIDE DEF m
  <2>4. QED
    BY <1>1, <1>3, <2>1, <2>2, <2>3, RewriteKeeps, Zenon DEF Expire
<1>4. QED
  BY <1>2, <1>3, Zenon

(* A publish, confirmed or not.                                            *)
LEMMA PublisherKeeps ==
    ASSUME IInv, NEW j \in Jobs, Publish(j) \/ PublishAgain(j)
    PROVE  IInv'
<1> DEFINE m == NewMessage("main", j)
<1>1. j \notin Legacy
  BY Zenon DEF IInv, Custody, StoredJobs, Publish, PublishAgain
<1>2. m \in Message /\ m.job = j /\ MessageOK(m)
  BY <1>1, NewMessageFields, Zenon
<1>3. Enqueue(m) /\ stored' = stored \cup {j} /\ disruptions' \in Nat
      /\ UNCHANGED <<pc, cur, live, done>>
  BY DEF Publish, PublishAgain, Disrupt, IInv, TypeOK
<1> HIDE DEF m
<1>4. QED
  BY <1>2, <1>3, EnqueueKeeps, Zenon

(* A channel is lost or a process dies.                                    *)
LEMMA FaultKeeps ==
    ASSUME IInv, NEW a \in Actors, Fault(a)
    PROVE  IInv'
<1>1. disruptions' \in Nat /\ UNCHANGED <<slot, stored, done>>
  BY DEF IInv, TypeOK, Fault, StopClaiming, ChannelLost, Crash, Disrupt
<1>2. CASE Finish(a)
  BY <1>1, <1>2, FinishKeeps, Zenon
<1>3. CASE ~Finish(a)
  <2>1. live' = [live EXCEPT ![a] = FALSE] /\ UNCHANGED <<pc, cur>> /\ live[a]
    BY <1>3, Zenon DEF Fault, StopClaiming, ChannelLost, Crash
  <2>2. TypeOK'
    BY <1>1, <2>1, Zenon DEF IInv, TypeOK
  <2>3. Captured' /\ HeldCopy' /\ Exclusive' /\ StoredJobs'
    BY <1>1, <2>1, Zenon
    DEF IInv, TypeOK, Custody, Captured, HeldCopy, Exclusive, StoredJobs
  <2>4. SafeCopy'
    BY <1>1, <2>1 DEF IInv, TypeOK, SafeCopy, NotAcked, Holds, CopyOf
  <2>5. StoredOK' /\ CapturedOK'
    BY <1>1, <2>1, Zenon DEF IInv, StoredOK, CapturedOK, ConsumesFrom
  <2>6. QED
    BY <2>2, <2>3, <2>4, <2>5 DEF IInv, Custody
<1>4. QED
  BY <1>2, <1>3, Zenon

(* Every step of a worker.                                                 *)
LEMMA WorkerKeeps ==
    ASSUME IInv, NEW w \in Workers, WorkerStep(w)
    PROVE  IInv'
<1> DEFINE m == cur[w].msg
<1>1. w \in Actors /\ w \notin Retriers /\ pc[w] # "idle"
  BY ActorsAssumption, Zenon
  DEF Actors, WorkerStep, StartHandler, HandlerSucceeds, HandlerFails, handleFailure
<1>2. m \in Message /\ m.job \in stored /\ MessageOK(m) /\ m.queue # "dead"
  BY <1>1, SourcesAssumption, Zenon
  DEF IInv, Custody, Captured, CapturedOK, Delivery, ConsumesFrom
<1>3. disruptions \in Nat /\ done \subseteq Jobs /\ stored \subseteq Jobs
  BY Zenon DEF IInv, TypeOK
<1>4. CASE StartHandler(w)
  BY <1>1, <1>3, <1>4, GotoKeeps, Zenon DEF StartHandler, PC
<1>5. CASE HandlerSucceeds(w)
  <2>1. done \subseteq done' /\ done' \subseteq Jobs /\ m.job \in done'
    BY <1>2, <1>3, <1>5, Zenon DEF HandlerSucceeds
  <2>2. QED
    BY <1>1, <1>3, <1>5, <2>1, GotoKeeps, Zenon DEF HandlerSucceeds, PC
<1>6. CASE HandlerFails(w)
  <2> DEFINE label == failureDecision(m.job)
  <2>1. /\ label \in PC \ {"idle"} /\ label # "acking"
        /\ label = "failing" => m.job \notin Poison
        /\ label = "parking" => m.job \in Poison
    BY Zenon DEF failureDecision, PC
  <2>2. Goto(w, label) /\ UNCHANGED <<slot, cur, live, stored, done, disruptions>>
    BY <1>6, Zenon DEF HandlerFails
  <2> HIDE DEF label
  <2>3. QED
    BY <1>1, <1>3, <2>1, <2>2, GotoKeeps, Zenon
<1>7. CASE handleFailure(w)
  <2>1. UNCHANGED <<cur, live, stored, done>>
    BY <1>7, Zenon DEF handleFailure
  <2>2. CASE pc[w] = "failing" /\ publishConfirmed(w, ToFailed(m))
    <3>1. m.job \notin Poison
      BY <1>1, <2>2, Zenon DEF IInv, CapturedOK
    <3>2. ToFailed(m) \in Message /\ ToFailed(m).job = m.job /\ MessageOK(ToFailed(m))
      BY <1>2, <3>1, ToFailedOK, Zenon
    <3>3. QED
      BY <1>1, <2>1, <2>2, <3>2, ReplaceKeeps, Zenon
  <2>3. CASE pc[w] = "parking" /\ publishConfirmed(w, ToDead(m))
    <3>1. m.job \in Poison
      BY <1>1, <2>3, Zenon DEF IInv, CapturedOK
    <3>2. ToDead(m) \in Message /\ ToDead(m).job = m.job /\ MessageOK(ToDead(m))
      BY <1>2, <3>1, ToDeadOK, Zenon
    <3>3. QED
      BY <1>1, <2>1, <2>3, <3>2, ReplaceKeeps, Zenon
  <2>4. QED
    BY <1>7, <2>2, <2>3, Zenon DEF handleFailure
<1>8. QED
  BY <1>4, <1>5, <1>6, <1>7, Zenon DEF WorkerStep

(* Every step of a failed-queue worker.                                    *)
LEMMA RetrierKeeps ==
    ASSUME IInv, NEW r \in Retriers, RetrierStep(r)
    PROVE  IInv'
<1> DEFINE m == cur[r].msg
<1>1. r \in Actors /\ r \notin Workers /\ pc[r] # "idle"
  BY ActorsAssumption, Zenon DEF Actors, RetrierStep, parkDelivery, Republish
<1>2. m \in Message /\ MessageOK(m) /\ m.queue = "failed"
  BY <1>1, Zenon DEF IInv, Custody, Captured, CapturedOK, Delivery, ConsumesFrom
<1>3. UNCHANGED <<cur, live, stored, done>>
  BY Zenon DEF RetrierStep, parkDelivery, Republish
<1>4. CASE parkDelivery(r)
  <2>1. m.job \in Legacy \/ m.attempts + 1 >= MaxAttempts
    BY <1>4, Zenon DEF parkDelivery, Exhausted
  <2>2. m.job \in Poison \/ 2 * m.entries >= MaxAttempts
    BY <1>2, <2>1, MessageFields, JobsAssumption, BoundsAssumption DEF MessageOK
  <2>3. ToDead(m) \in Message /\ ToDead(m).job = m.job /\ MessageOK(ToDead(m))
    BY <1>2, <2>2, ToDeadOK, Zenon
  <2>4. QED
    BY <1>1, <1>3, <1>4, <2>3, ReplaceKeeps, Zenon DEF parkDelivery
<1>5. CASE Republish(r)
  <2>1. m.job \notin Legacy
    BY <1>5, Zenon DEF Republish, Exhausted
  <2>2. slot[cur[r].slot].due = TRUE
    BY <1>1, <1>5, Zenon DEF Republish
  <2> DEFINE c == ToMain(m, slot[cur[r].slot].due)
  <2>3. c \in Message /\ c.job = m.job /\ MessageOK(c)
    BY <1>2, <2>1, <2>2, ToMainOK, ToMainFields, Zenon
  <2>4. QED
    BY <1>1, <1>3, <1>5, <2>3, ReplaceKeeps, Zenon DEF Republish
<1>6. QED
  BY <1>4, <1>5, Zenon DEF RetrierStep

(* Every step keeps the invariant.                                         *)
LEMMA NextIInv == IInv /\ [Next]_vars => IInv'
<1> SUFFICES ASSUME IInv, [Next]_vars PROVE IInv'
  BY Zenon
<1>1. CASE UNCHANGED vars
  BY <1>1 DEF vars, IInv, TypeOK, Custody, Captured, HeldCopy, Exclusive, StoredJobs,
              SafeCopy, NotAcked, Holds, CopyOf, StoredOK, CapturedOK
<1>2. ASSUME NEW j \in Jobs, Publish(j) \/ PublishAgain(j) PROVE IInv'
  BY <1>2, PublisherKeeps, Zenon
<1>3. ASSUME NEW a \in Actors, ActorStep(a) PROVE IInv'
  <2>1. ASSUME NEW s \in Slots, Deliver(a, s) PROVE IInv'
    BY <2>1, DeliverKeeps, Zenon
  <2>2. CASE Ack(a)
    BY <2>2, AckKeeps, Zenon
  <2>3. CASE Nack(a)
    BY <2>3, FinishKeeps, Zenon DEF Nack, IInv, TypeOK
  <2>4. QED
    BY <1>3, <2>1, <2>2, <2>3, Zenon DEF ActorStep
<1>4. ASSUME NEW a \in Actors, Fault(a) PROVE IInv'
  BY <1>4, FaultKeeps
<1>5. ASSUME NEW w \in Workers, WorkerStep(w) PROVE IInv'
  BY <1>5, WorkerKeeps, Zenon
<1>6. ASSUME NEW r \in Retriers, RetrierStep(r) PROVE IInv'
  BY <1>6, RetrierKeeps, Zenon
<1>7. ASSUME NEW s \in Slots, BackoffElapses(s) \/ Expire(s) PROVE IInv'
  BY <1>7, BrokerKeeps
<1>8. QED
  BY <1>1, <1>2, <1>3, <1>4, <1>5, <1>6, <1>7, Zenon DEF Next

(* The invariant holds in every state.                                     *)
LEMMA Invariance == Spec => []IInv
BY InitIInv, NextIInv, PTL DEF Spec

-----------------------------------------------------------------------------
(* Type correctness: the broker only ever holds well-formed messages of    *)
(* the three queues, and every actor is at a point of its delivery loop.   *)
THEOREM TypeCorrect == Spec => []TypeOK
<1>1. IInv => TypeOK
  BY Zenon DEF IInv
<1>2. QED
  BY <1>1, Invariance, PTL

(* No accepted job is lost, whatever crashes, channel losses, shutdowns    *)
(* and failed publishes consumeWorker, handleFailure and failedWorker meet.*)
THEOREM NoLossTheorem == Spec => []NoLoss
<1>1. IInv => NoLoss
  BY Zenon DEF IInv, SafeCopy, NoLoss
<1>2. QED
  BY <1>1, Invariance, PTL

(* The x-attempts header counts every handler failure once or twice, and a *)
(* retryable job is dead-parked only after MaxAttempts / 2 failures        *)
(* (handleFailure, failedWorker).                                          *)
THEOREM AttemptTheorem == Spec => [](AttemptAccounting /\ ExhaustionBudget)
<1>1. IInv => AttemptAccounting /\ ExhaustionBudget
  BY DEF IInv, StoredOK, MessageOK, Free, AttemptAccounting, ExhaustionBudget
<1>2. QED
  BY <1>1, Invariance, PTL

(* While consumers read main queues only, no handler runs before the       *)
(* not-before instant of its job (failedWorker's wait, the TTL).           *)
THEOREM BackoffTheorem == "failed" \notin Sources => (Spec => []BackoffHonoured)
<1> SUFFICES ASSUME "failed" \notin Sources PROVE Spec => []BackoffHonoured
  BY Zenon
<1>1. IInv => BackoffHonoured
  BY SourcesAssumption, Zenon
  DEF IInv, CapturedOK, MessageOK, ConsumesFrom, BackoffHonoured, Actors
<1>2. QED
  BY <1>1, Invariance, PTL

-----------------------------------------------------------------------------
(* Duplicates are paid for by disruptions.  The budget alone is not        *)
(* inductive: a worker whose channel was lost goes on with its delivery,   *)
(* and the replacement it publishes is a duplicate that the loss paid for  *)
(* some steps before.  Stale(j) holds these debts.                         *)

Working == {"running", "failing", "parking"}

Stale(j) == {a \in Actors : pc[a] \in Working /\ ~live[a] /\ cur[a].msg.job = j}

PaidFor(j) ==
    /\ IsFiniteSet(PendingCopies(j)) /\ IsFiniteSet(Stale(j))
    /\ Cardinality(PendingCopies(j)) + Cardinality(Stale(j)) <= 1 + disruptions

(* A channel that goes takes an unstarted delivery with it.                *)
ClaimedLive == \A a \in Actors : pc[a] = "claimed" => live[a]

BudgetInv == ClaimedLive /\ \A j \in Jobs : PaidFor(j)

(* The size of a set that loses y and gains x.                             *)
LEMMA SizeOf ==
    ASSUME NEW A, NEW B, NEW x, NEW y, IsFiniteSet(A)
    PROVE  /\ Cardinality(A) \in Nat
           /\ B \subseteq A \cup {x} => /\ IsFiniteSet(B) /\ Cardinality(B) \in Nat
                                        /\ Cardinality(B) <= Cardinality(A) + 1
           /\ B \subseteq A => Cardinality(B) <= Cardinality(A)
           /\ y \in A /\ B \subseteq A \ {y} => Cardinality(B) <= Cardinality(A) - 1
           /\ y \in A /\ B \subseteq (A \ {y}) \cup {x} => Cardinality(B) <= Cardinality(A)
<1>1. Cardinality(A) \in Nat
  BY FS_CardinalityType, Zenon
<1>2. /\ IsFiniteSet(A \cup {x}) /\ Cardinality(A \cup {x}) <= Cardinality(A) + 1
      /\ Cardinality(A \cup {x}) \in Nat
  BY <1>1, FS_AddElement, FS_CardinalityType
<1>3. B \subseteq A \cup {x} => /\ IsFiniteSet(B) /\ Cardinality(B) \in Nat
                                /\ Cardinality(B) <= Cardinality(A) + 1
  <2> SUFFICES ASSUME B \subseteq A \cup {x}
               PROVE  /\ IsFiniteSet(B) /\ Cardinality(B) \in Nat
                      /\ Cardinality(B) <= Cardinality(A) + 1
    BY Zenon
  <2>1. IsFiniteSet(B) /\ Cardinality(B) <= Cardinality(A \cup {x})
    BY <1>2, FS_Subset, Zenon
  <2> QED BY <1>1, <1>2, <2>1, FS_CardinalityType
<1>4. B \subseteq A => Cardinality(B) <= Cardinality(A)
  BY FS_Subset, Zenon
<1>5. ASSUME y \in A PROVE /\ B \subseteq A \ {y} => Cardinality(B) <= Cardinality(A) - 1
                           /\ B \subseteq (A \ {y}) \cup {x} => Cardinality(B) <= Cardinality(A)
  <2>1. IsFiniteSet(A \ {y}) /\ Cardinality(A \ {y}) = Cardinality(A) - 1
    BY <1>5, FS_RemoveElement, Zenon
  <2>2. /\ IsFiniteSet((A \ {y}) \cup {x})
        /\ Cardinality((A \ {y}) \cup {x}) <= Cardinality(A)
        /\ Cardinality((A \ {y}) \cup {x}) \in Nat
    <3> DEFINE C == A \ {y}
    <3> HIDE DEF C
    <3>1. IsFiniteSet(C) /\ Cardinality(C) = Cardinality(A) - 1 /\ Cardinality(C) \in Nat
      BY <2>1, FS_CardinalityType, Zenon DEF C
    <3>2. IsFiniteSet(C \cup {x}) /\ Cardinality(C \cup {x}) <= Cardinality(C) + 1
      BY <1>1, <3>1, FS_AddElement
    <3> QED BY <1>1, <3>1, <3>2, FS_CardinalityType DEF C
  <2>3. B \subseteq A \ {y} => Cardinality(B) <= Cardinality(A) - 1
    BY <2>1, FS_Subset
  <2>4. ASSUME B \subseteq (A \ {y}) \cup {x} PROVE Cardinality(B) <= Cardinality(A)
    <3>1. IsFiniteSet(B) /\ Cardinality(B) <= Cardinality((A \ {y}) \cup {x})
      BY <2>2, <2>4, FS_Subset, Zenon
    <3>2. Cardinality(B) \in Nat
      BY <3>1, FS_CardinalityType, Zenon
    <3> QED BY <1>1, <2>2, <3>1, <3>2
  <2> QED BY <2>3, <2>4, Zenon
<1> QED BY <1>1, <1>3, <1>4, <1>5, Zenon

(* What a step may do to the copies and the debts of a job: less of both;  *)
(* one more of either, paid for now; a copy in place of another; a copy in *)
(* place of a debt; or the first copy.                                     *)
Affordable(j, x, y) ==
    \/ /\ PendingCopies(j)' \subseteq PendingCopies(j) /\ Stale(j)' \subseteq Stale(j)
       /\ disruptions' >= disruptions
    \/ /\ PendingCopies(j)' \subseteq PendingCopies(j) \cup {x} /\ Stale(j)' \subseteq Stale(j)
       /\ disruptions' = disruptions + 1
    \/ /\ PendingCopies(j)' \subseteq PendingCopies(j) /\ Stale(j)' \subseteq Stale(j) \cup {y}
       /\ disruptions' = disruptions + 1
    \/ /\ y \in PendingCopies(j) /\ PendingCopies(j)' \subseteq (PendingCopies(j) \ {y}) \cup {x}
       /\ Stale(j)' \subseteq Stale(j) /\ disruptions' = disruptions
    \/ /\ y \in Stale(j) /\ PendingCopies(j)' \subseteq PendingCopies(j) \cup {x}
       /\ Stale(j)' \subseteq Stale(j) \ {y} /\ disruptions' = disruptions
    \/ /\ PendingCopies(j) = {} /\ Stale(j) = {} /\ PendingCopies(j)' \subseteq {x}
       /\ Stale(j)' = {} /\ disruptions' = disruptions

(* Every such step keeps the job paid for.                                 *)
LEMMA AffordablePaid ==
    ASSUME NEW j, PaidFor(j), NEW x, NEW y, Affordable(j, x, y),
           disruptions \in Nat, disruptions' \in Nat
    PROVE  PaidFor(j)'
<1> DEFINE P == PendingCopies(j)
           Q == PendingCopies(j)'
           S == Stale(j)
           T == Stale(j)'
           d == disruptions
           e == disruptions'
<1>1. IsFiniteSet(P) /\ IsFiniteSet(S) /\ Cardinality(P) + Cardinality(S) <= 1 + d
      /\ d \in Nat /\ e \in Nat
  BY Zenon DEF PaidFor
<1>2. \/ Q \subseteq P /\ T \subseteq S /\ e >= d
      \/ Q \subseteq P \cup {x} /\ T \subseteq S /\ e = d + 1
      \/ Q \subseteq P /\ T \subseteq S \cup {y} /\ e = d + 1
      \/ y \in P /\ Q \subseteq (P \ {y}) \cup {x} /\ T \subseteq S /\ e = d
      \/ y \in S /\ Q \subseteq P \cup {x} /\ T \subseteq S \ {y} /\ e = d
      \/ P = {} /\ S = {} /\ Q \subseteq {x} /\ T = {} /\ e = d
  BY Zenon DEF Affordable
<1>3. IsFiniteSet(Q) /\ IsFiniteSet(T) /\ Cardinality(Q) + Cardinality(T) <= 1 + e
  <2> HIDE DEF P, Q, S, T, d, e
  <2>1. /\ Cardinality(P) \in Nat
        /\ Q \subseteq P \cup {x} => /\ IsFiniteSet(Q) /\ Cardinality(Q) \in Nat
                                     /\ Cardinality(Q) <= Cardinality(P) + 1
        /\ Q \subseteq P => Cardinality(Q) <= Cardinality(P)
        /\ y \in P /\ Q \subseteq (P \ {y}) \cup {x} => Cardinality(Q) <= Cardinality(P)
    BY <1>1, SizeOf, Zenon
  <2>2. /\ Cardinality(S) \in Nat
        /\ T \subseteq S \cup {y} => /\ IsFiniteSet(T) /\ Cardinality(T) \in Nat
                                     /\ Cardinality(T) <= Cardinality(S) + 1
        /\ T \subseteq S => Cardinality(T) <= Cardinality(S)
        /\ y \in S /\ T \subseteq S \ {y} => Cardinality(T) <= Cardinality(S) - 1
    BY <1>1, SizeOf, Zenon
  <2>3. Cardinality({}) = 0
    BY FS_EmptySet, Zenon
  <2>4. Q \subseteq P \cup {x} /\ T \subseteq S \cup {y}
    BY <1>2, Zenon
  <2>5. CASE P = {} /\ S = {} /\ Q \subseteq {x} /\ T = {} /\ e = d
    BY <1>1, <2>1, <2>2, <2>3, <2>4, <2>5
  <2> QED BY <1>1, <1>2, <2>1, <2>2, <2>4, <2>5
<1> QED BY <1>3, Zenon DEF PaidFor

(* Storing a copy fills one free slot.                                     *)
LEMMA EnqueueSlot ==
    ASSUME IInv, NEW m \in Message, Enqueue(m)
    PROVE  \E t \in Slots : /\ slot[t] = Free /\ slot'[t] = m
                            /\ \A s \in Slots \ {t} : slot'[s] = slot[s]
  BY Zenon DEF Enqueue, IInv, TypeOK

(* An actor lets go: what it was about to ack is a pending copy again.     *)
LEMMA FinishSets ==
    ASSUME IInv, NEW a \in Actors, Finish(a), slot' = slot, NEW j
    PROVE  /\ PendingCopies(j)' \subseteq PendingCopies(j) \cup {cur[a].slot}
           /\ pc[a] # "acking" => PendingCopies(j)' \subseteq PendingCopies(j)
           /\ Stale(j)' \subseteq Stale(j)
<1>1. /\ pc'[a] = "idle" /\ ~live'[a]
      /\ \A b \in Actors \ {a} : pc'[b] = pc[b] /\ live'[b] = live[b] /\ cur'[b] = cur[b]
  BY Zenon DEF Finish, Goto, IInv, TypeOK
<1>2. \A s \in Slots : CopyOf(s, j)' <=> CopyOf(s, j)
  BY Zenon DEF CopyOf
<1>3. \A s : (\E b \in Actors : Holds(b, s) /\ pc[b] = "acking") =>
               \/ s = cur[a].slot /\ pc[a] = "acking"
               \/ (\E b \in Actors : Holds(b, s) /\ pc[b] = "acking")'
  BY <1>1, Zenon DEF Holds
<1> QED BY <1>1, <1>2, <1>3, Zenon DEF PendingCopies, Stale, Working

(* A publish: the first copy, or one whose confirmation was lost.          *)
LEMMA PublisherPays ==
    ASSUME IInv, NEW i \in Jobs, Publish(i) \/ PublishAgain(i), NEW j \in Jobs
    PROVE  \E x, y : Affordable(j, x, y)
<1> DEFINE m == NewMessage("main", i)
<1>1. m \in Message /\ m.job = i /\ m # Free
  BY NewMessageFields, MessageFields, Zenon
<1>2. Enqueue(m) /\ UNCHANGED <<pc, cur, live>>
  BY Zenon DEF Publish, PublishAgain
<1> HIDE DEF m
<1>3. PICK t \in Slots : /\ slot[t] = Free /\ slot'[t] = m
                         /\ \A s \in Slots \ {t} : slot'[s] = slot[s]
  BY <1>1, <1>2, EnqueueSlot, Zenon
<1>4. PendingCopies(j)' \subseteq PendingCopies(j) \cup {t} /\ Stale(j)' = Stale(j)
  BY <1>2, <1>3, Zenon DEF PendingCopies, Stale, CopyOf, Holds
<1>5. i # j => PendingCopies(j)' \subseteq PendingCopies(j)
  BY <1>1, <1>2, <1>3 DEF PendingCopies, CopyOf, Holds
<1>6. CASE PublishAgain(i)
  BY <1>4, <1>6, Zenon DEF PublishAgain, Disrupt, Affordable
<1>7. CASE Publish(i) /\ i = j
  <2>1. PendingCopies(j) = {}
    BY <1>7, Zenon DEF Publish, PendingCopies, CopyOf, IInv, Custody, StoredJobs
  <2>2. Stale(j) = {}
    BY <1>7, Zenon DEF Publish, Stale, Working, IInv, Custody, Captured
  <2> QED BY <1>4, <1>7, <2>1, <2>2, Zenon DEF Publish, Affordable
<1>8. CASE Publish(i) /\ i # j
  BY <1>4, <1>5, <1>8 DEF Publish, Affordable, IInv, TypeOK
<1> QED BY <1>6, <1>7, <1>8, Zenon

(* A crash, a lost channel or a stop.                                      *)
LEMMA FaultPays ==
    ASSUME IInv, NEW a \in Actors, Fault(a), NEW j \in Jobs
    PROVE  \E x, y : Affordable(j, x, y)
<1>1. slot' = slot /\ disruptions' = disruptions + 1
  BY Zenon DEF Fault, StopClaiming, ChannelLost, Crash, Disrupt
<1>2. CASE Finish(a)
  BY <1>1, <1>2, FinishSets, Zenon DEF Affordable
<1>3. CASE ~Finish(a)
  <2>1. live' = [live EXCEPT ![a] = FALSE] /\ UNCHANGED <<pc, cur>> /\ live[a]
    BY <1>3, Zenon DEF Fault, StopClaiming, ChannelLost, Crash
  <2>2. ~live'[a] /\ \A b \in Actors \ {a} : live'[b] = live[b]
    BY <2>1, Zenon DEF IInv, TypeOK
  <2>3. CASE pc[a] = "acking"
    <3>1. PendingCopies(j)' \subseteq PendingCopies(j) \cup {cur[a].slot}
      BY <1>1, <2>1, <2>2, Zenon DEF PendingCopies, CopyOf, Holds
    <3>2. Stale(j)' \subseteq Stale(j)
      BY <2>1, <2>2, <2>3, Zenon DEF Stale, Working
    <3> QED BY <1>1, <3>1, <3>2, Zenon DEF Affordable
  <2>4. CASE pc[a] # "acking"
    <3>1. PendingCopies(j)' \subseteq PendingCopies(j)
      BY <1>1, <2>1, <2>2, <2>4, Zenon DEF PendingCopies, CopyOf, Holds
    <3>2. Stale(j)' \subseteq Stale(j) \cup {a}
      BY <2>1, <2>2, Zenon DEF Stale
    <3> QED BY <1>1, <3>1, <3>2, Zenon DEF Affordable
  <2> QED BY <2>3, <2>4, Zenon
<1> QED BY <1>2, <1>3, Zenon

(* A delivery, an Ack or a Nack.                                           *)
LEMMA ActorPays ==
    ASSUME IInv, NEW a \in Actors, ActorStep(a), NEW j \in Jobs
    PROVE  \E x, y : Affordable(j, x, y)
<1>0. disruptions' = disruptions /\ disruptions \in Nat
  BY Zenon DEF ActorStep, Deliver, Ack, Nack, IInv, TypeOK
<1>1. ASSUME NEW s \in Slots, Deliver(a, s) PROVE \E x, y : Affordable(j, x, y)
  <2>1. /\ slot' = slot /\ pc[a] = "idle" /\ pc'[a] = "claimed"
        /\ \A b \in Actors \ {a} : pc'[b] = pc[b] /\ live'[b] = live[b] /\ cur'[b] = cur[b]
    BY <1>1, Zenon DEF Deliver, Goto, IInv, TypeOK
  <2>2. PendingCopies(j)' \subseteq PendingCopies(j) /\ Stale(j)' \subseteq Stale(j)
    BY <2>1, Zenon DEF PendingCopies, CopyOf, Holds, Stale, Working
  <2> QED BY <1>0, <2>2 DEF Affordable
<1>2. CASE Ack(a)
  <2>1. /\ pc'[a] = "idle" /\ ~live'[a] /\ pc[a] = "acking"
        /\ \A b \in Actors \ {a} : pc'[b] = pc[b] /\ live'[b] = live[b] /\ cur'[b] = cur[b]
    BY <1>2, Zenon DEF Ack, Finish, Goto, IInv, TypeOK
  <2>2. Stale(j)' \subseteq Stale(j)
    BY <2>1, Zenon DEF Stale, Working
  <2>3. \A s \in Slots : CopyOf(s, j)' => CopyOf(s, j) /\ ~Holds(a, s)
    <3>1. live[a] => cur[a].slot \in Slots
      BY <2>1, Zenon DEF IInv, Custody, Captured, Delivery
    <3> QED BY <1>2, <3>1, Zenon DEF Ack, CopyOf, Holds, IInv, TypeOK
  <2>4. PendingCopies(j)' \subseteq PendingCopies(j)
    BY <2>1, <2>3, Zenon DEF PendingCopies, Holds
  <2> QED BY <1>0, <2>2, <2>4 DEF Affordable
<1>3. CASE Nack(a)
  BY <1>0, <1>3, FinishSets DEF Nack, Affordable
<1> QED BY <1>1, <1>2, <1>3, Zenon DEF ActorStep

(* A replacement takes the place of the copy that will be acked, or of the *)
(* debt its lost channel left.                                             *)
LEMMA ReplacePays ==
    ASSUME IInv, NEW a \in Actors, NEW m \in Message, m.job = cur[a].msg.job,
           pc[a] \in Working \/ (pc[a] = "claimed" /\ live[a]), publishConfirmed(a, m),
           UNCHANGED <<cur, live>>, NEW j \in Jobs
    PROVE  \E x, y : Affordable(j, x, y)
<1>0. disruptions \in Nat /\ m # Free
  BY MessageFields, Zenon DEF IInv, TypeOK
<1>1. CASE Disrupt
  <2>1. \E t : \A s \in Slots \ {t} : slot'[s] = slot[s]
    BY EnqueueSlot, Zenon DEF publishConfirmed
  <2>2. PICK t : \A s \in Slots \ {t} : slot'[s] = slot[s]
    BY <2>1, Zenon
  <2>3. \E label \in {"acking", "nacking"} : pc' = [pc EXCEPT ![a] = label]
    BY Zenon DEF publishConfirmed, Goto
  <2>4. pc'[a] \notin Working /\ \A b \in Actors \ {a} : pc'[b] = pc[b]
    BY <2>3, Zenon DEF Working, IInv, TypeOK
  <2>5. Stale(j)' \subseteq Stale(j)
    BY <2>4, Zenon DEF Stale
  <2>6. PendingCopies(j)' \subseteq PendingCopies(j) \cup {t}
    BY <2>2, <2>4, Zenon DEF PendingCopies, CopyOf, Holds, Working
  <2> QED BY <1>1, <2>5, <2>6, Zenon DEF Affordable, Disrupt
<1>2. CASE ~Disrupt
  <2>1. Enqueue(m) /\ Goto(a, "acking") /\ disruptions' = disruptions
    BY <1>2, Zenon DEF publishConfirmed
  <2>2. PICK t \in Slots : /\ slot[t] = Free /\ slot'[t] = m
                           /\ \A s \in Slots \ {t} : slot'[s] = slot[s]
    BY <2>1, EnqueueSlot, Zenon
  <2>3. pc'[a] = "acking" /\ \A b \in Actors \ {a} : pc'[b] = pc[b]
    BY <2>1, Zenon DEF Goto, IInv, TypeOK
  <2>4. Stale(j)' \subseteq Stale(j) \ {a}
    BY <2>3, Zenon DEF Stale, Working
  <2>5. PendingCopies(j)' \subseteq PendingCopies(j) \cup {t}
    BY <2>2, <2>3 DEF PendingCopies, CopyOf, Holds, Working
  <2>6. CASE m.job # j
    <3>1. PendingCopies(j)' \subseteq PendingCopies(j)
      BY <1>0, <2>2, <2>3, <2>6, Zenon DEF PendingCopies, CopyOf, Holds, Working
    <3> QED BY <1>0, <2>1, <2>4, <3>1 DEF Affordable
  <2>7. CASE m.job = j /\ live[a]
    <3> DEFINE y == cur[a].slot
    <3>1. y \in Slots /\ CopyOf(y, j) /\ y # t
      <4>1. cur[a] \in Delivery /\ slot[y] # Free /\ slot[y].job = j
        BY <2>7, Zenon DEF IInv, Custody, Captured, HeldCopy, Working
      <4> QED BY <2>2, <4>1, Zenon DEF CopyOf, Delivery
    <3>2. \A b \in Actors : Holds(b, y) => b = a
      BY <2>7, Zenon DEF Holds, IInv, Custody, Exclusive
    <3>3. pc[a] # "acking"
      BY Zenon DEF Working
    <3>4. y \in PendingCopies(j)
      BY <3>1, <3>2, <3>3, Zenon DEF PendingCopies
    <3>5. y \notin PendingCopies(j)'
      BY <2>3, <2>7, Zenon DEF PendingCopies, Holds
    <3> QED BY <2>1, <2>4, <2>5, <3>4, <3>5 DEF Affordable
  <2>8. CASE m.job = j /\ ~live[a]
    <3>1. a \in Stale(j)
      BY <2>8, Zenon DEF Stale
    <3> QED BY <2>1, <2>4, <2>5, <3>1, Zenon DEF Affordable
  <2> QED BY <2>6, <2>7, <2>8, Zenon
<1> QED BY <1>1, <1>2, Zenon

(* The steps of the workers and of the retry workers.                      *)
LEMMA LoopPays ==
    ASSUME IInv, ClaimedLive, NEW a \in Actors, NEW j \in Jobs,
           (a \in Workers /\ WorkerStep(a)) \/ (a \in Retriers /\ RetrierStep(a))
    PROVE  \E x, y : Affordable(j, x, y)
<1> DEFINE m == cur[a].msg
<1>0. pc[a] # "idle" /\ cur[a] \in Delivery /\ m \in Message
  <2>1. pc[a] # "idle"
    BY Zenon DEF WorkerStep, StartHandler, HandlerSucceeds, HandlerFails, handleFailure,
           RetrierStep, parkDelivery, Republish
  <2> QED BY <2>1, Zenon DEF IInv, Custody, Captured, Delivery
<1>1. CASE StartHandler(a)
  <2>1. /\ pc' = [pc EXCEPT ![a] = "running"] /\ pc[a] = "claimed" /\ live[a]
        /\ UNCHANGED <<slot, cur, live, disruptions>>
    BY <1>1, Zenon DEF StartHandler, Goto, ClaimedLive
  <2>2. PendingCopies(j)' \subseteq PendingCopies(j) /\ Stale(j)' \subseteq Stale(j)
    BY <2>1, Zenon DEF PendingCopies, CopyOf, Holds, Stale, Working, IInv, TypeOK
  <2> QED BY <2>1, <2>2 DEF Affordable, IInv, TypeOK
<1>2. ASSUME pc[a] = "running", NEW label \in PC, Goto(a, label),
             UNCHANGED <<slot, cur, live, disruptions>>
      PROVE  \E x, y : Affordable(j, x, y)
  <2>1. /\ pc'[a] = label /\ \A b \in Actors \ {a} : pc'[b] = pc[b]
    BY <1>2, Zenon DEF Goto, IInv, TypeOK
  <2>2. PendingCopies(j)' \subseteq PendingCopies(j) /\ Stale(j)' \subseteq Stale(j)
    BY <1>2, <2>1, Zenon DEF PendingCopies, CopyOf, Holds, Stale, Working
  <2> QED BY <1>2, <2>2 DEF Affordable, IInv, TypeOK
<1>3. CASE HandlerSucceeds(a)
  BY <1>2, <1>3, Zenon DEF HandlerSucceeds, PC
<1>4. CASE HandlerFails(a)
  BY <1>2, <1>4, Zenon DEF HandlerFails, failureDecision, PC
<1>5. CASE handleFailure(a)
  <2>1. PICK c \in {ToFailed(m), ToDead(m)} : publishConfirmed(a, c)
    BY <1>5, Zenon DEF handleFailure
  <2>2. c \in Message /\ c.job = m.job
    BY <1>0, SideCopyFields, Zenon
  <2>3. pc[a] \in Working /\ UNCHANGED <<cur, live>>
    BY <1>5, Zenon DEF handleFailure, Working
  <2> QED BY <2>1, <2>2, <2>3, ReplacePays, Zenon
<1>6. CASE parkDelivery(a) \/ Republish(a)
  <2>1. PICK c \in {ToDead(m), ToMain(m, slot[cur[a].slot].due)} :
             publishConfirmed(a, c) /\ (c # ToDead(m) => slot[cur[a].slot].due)
    BY <1>6, Zenon DEF parkDelivery, Republish
  <2>2. CASE c = ToDead(m)
    <3>1. c \in Message /\ c.job = m.job
      BY <1>0, <2>2, SideCopyFields, Zenon
    <3> QED BY <1>6, <2>1, <3>1, ReplacePays, Zenon DEF parkDelivery, Republish, ClaimedLive
  <2>3. CASE c # ToDead(m)
    <3>1. slot[cur[a].slot].due = TRUE
      BY <1>6, <2>1, <2>3, Zenon DEF parkDelivery, Republish
    <3>2. /\ ToMain(m, slot[cur[a].slot].due) \in Message
          /\ ToMain(m, slot[cur[a].slot].due).job = m.job
      BY <1>0, <3>1, ToMainFields, Zenon
    <3>3. c \in Message /\ c.job = m.job
      BY <2>3, <3>2, Zenon
    <3> QED BY <1>6, <2>1, <3>3, ReplacePays DEF parkDelivery, Republish, ClaimedLive
  <2> QED BY <2>2, <2>3, Zenon
<1> QED BY <1>1, <1>3, <1>4, <1>5, <1>6, Zenon DEF WorkerStep, RetrierStep

(* No actor claims a delivery without an open channel.                     *)
LEMMA ClaimedLiveKept ==
    ASSUME IInv, ClaimedLive, [Next]_vars PROVE ClaimedLive'
<1>1. CASE UNCHANGED vars
  BY <1>1, Zenon DEF vars, ClaimedLive
<1>2. ASSUME NEW a \in Actors, live' = [live EXCEPT ![a] = FALSE] \/ live' = live,
             pc' = [pc EXCEPT ![a] = pc'[a]], pc'[a] # "claimed"
      PROVE  ClaimedLive'
  BY <1>2, Zenon DEF ClaimedLive, IInv, TypeOK
<1>3. ASSUME UNCHANGED <<pc, live>> PROVE ClaimedLive'
  BY <1>3, Zenon DEF ClaimedLive
<1>4. ASSUME NEW a \in Actors, Finish(a) PROVE ClaimedLive'
  <2>1. pc'[a] = "idle" /\ pc' = [pc EXCEPT ![a] = pc'[a]] /\ live' = [live EXCEPT ![a] = FALSE]
    BY <1>4, Zenon DEF Finish, Goto, IInv, TypeOK
  <2> QED BY <1>2, <2>1, Zenon
<1>5. ASSUME NEW a \in Actors, NEW label \in PC \ {"claimed"}, Goto(a, label), live' = live
      PROVE  ClaimedLive'
  <2>1. pc'[a] = label /\ pc' = [pc EXCEPT ![a] = pc'[a]]
    BY <1>5, Zenon DEF Goto, IInv, TypeOK
  <2> QED BY <1>2, <1>5, <2>1, Zenon
<1>6. ASSUME NEW j \in Jobs, Publish(j) \/ PublishAgain(j) PROVE ClaimedLive'
  BY <1>3, <1>6, Zenon DEF Publish, PublishAgain
<1>7. ASSUME NEW a \in Actors, ActorStep(a) PROVE ClaimedLive'
  <2>1. ASSUME NEW s \in Slots, Deliver(a, s) PROVE ClaimedLive'
    BY <2>1, Zenon DEF Deliver, Goto, ClaimedLive, IInv, TypeOK
  <2> QED BY <1>4, <1>7, <2>1, Zenon DEF ActorStep, Ack, Nack
<1>8. ASSUME NEW a \in Actors, Fault(a) PROVE ClaimedLive'
  <2>1. CASE Finish(a)
    BY <1>4, <2>1, Zenon
  <2>2. CASE ~Finish(a)
    <3>1. live' = [live EXCEPT ![a] = FALSE] /\ pc' = pc /\ pc[a] # "claimed"
      BY <1>8, <2>2, Zenon DEF Fault, StopClaiming, ChannelLost, Crash
    <3> QED BY <3>1, Zenon DEF ClaimedLive, IInv, TypeOK
  <2> QED BY <2>1, <2>2, Zenon
<1>9. ASSUME NEW a \in Actors, WorkerStep(a) \/ RetrierStep(a) PROVE ClaimedLive'
  <2>1. live' = live /\ \E label \in PC \ {"claimed"} : Goto(a, label)
    BY <1>9, Zenon DEF WorkerStep, StartHandler, HandlerSucceeds, HandlerFails, handleFailure,
                RetrierStep, parkDelivery, Republish, publishConfirmed, failureDecision, PC
  <2> QED BY <1>5, <2>1, Zenon
<1>10. ASSUME NEW s \in Slots, BackoffElapses(s) \/ Expire(s) PROVE ClaimedLive'
  BY <1>3, <1>10, Zenon DEF BackoffElapses, Expire
<1> QED BY <1>1, <1>6, <1>7, <1>8, <1>9, <1>10, Zenon DEF Next, Actors

(* Every step pays for what it duplicates.                                 *)
LEMMA NextPays ==
    ASSUME IInv, BudgetInv, [Next]_vars, NEW j \in Jobs
    PROVE  \E x, y : Affordable(j, x, y)
<1>0. disruptions \in Nat
  BY Zenon DEF IInv, TypeOK
<1>1. CASE UNCHANGED vars
  <2>1. PendingCopies(j)' = PendingCopies(j) /\ Stale(j)' = Stale(j)
    BY <1>1, Zenon DEF vars, PendingCopies, CopyOf, Holds, Stale
  <2> QED BY <1>0, <1>1, <2>1, SMTT(30) DEF vars, Affordable
<1>2. ASSUME NEW i \in Jobs, Publish(i) \/ PublishAgain(i) PROVE \E x, y : Affordable(j, x, y)
  BY <1>2, PublisherPays, Zenon
<1>3. ASSUME NEW a \in Actors, ActorStep(a) PROVE \E x, y : Affordable(j, x, y)
  BY <1>3, ActorPays, Zenon
<1>4. ASSUME NEW a \in Actors, Fault(a) PROVE \E x, y : Affordable(j, x, y)
  BY <1>4, FaultPays, Zenon
<1>5. ASSUME NEW a \in Actors,
             (a \in Workers /\ WorkerStep(a)) \/ (a \in Retriers /\ RetrierStep(a))
      PROVE  \E x, y : Affordable(j, x, y)
  BY <1>5, LoopPays, Zenon DEF BudgetInv
<1>6. ASSUME NEW s \in Slots, BackoffElapses(s) \/ Expire(s)
      PROVE  \E x, y : Affordable(j, x, y)
  <2>1. slot[s] # Free /\ slot[s] \in Message
    BY <1>6 DEF BackoffElapses, Expire, Free, IInv, TypeOK
  <2>2. slot'[s].job = slot[s].job /\ \A t \in Slots \ {s} : slot'[t] = slot[t]
    BY <1>6, <2>1 DEF BackoffElapses, Expire, Message, IInv, TypeOK
  <2>3. UNCHANGED <<pc, cur, live, disruptions>>
    BY <1>6, Zenon DEF BackoffElapses, Expire
  <2>4. PendingCopies(j)' \subseteq PendingCopies(j) /\ Stale(j)' \subseteq Stale(j)
    BY <2>1, <2>2, <2>3, Zenon DEF PendingCopies, CopyOf, Holds, Stale
  <2> QED BY <1>0, <2>3, <2>4 DEF Affordable
<1> QED BY <1>1, <1>2, <1>3, <1>4, <1>5, <1>6, Zenon DEF Next, Actors

(* At the start there is at most one copy of each job and nobody works.    *)
LEMMA InitPaid == Init => BudgetInv
<1> SUFFICES ASSUME Init PROVE BudgetInv
  OBVIOUS
<1>1. ClaimedLive
  BY Zenon DEF Init, ClaimedLive
<1>2. ASSUME NEW j \in Jobs PROVE PaidFor(j)
  <2>1. Stale(j) = {}
    BY Zenon DEF Init, Stale, Working
  <2>2. \A s, t \in PendingCopies(j) : s = t
    <3>1. ASSUME NEW s \in PendingCopies(j) PROVE s \in Slots /\ slot[s] = NewMessage("failed", j)
      <4>1. s \in Slots /\ slot[s] # Free /\ slot[s].job = j
        BY Zenon DEF PendingCopies, CopyOf
      <4>2. PICK i \in Legacy : slot[s] = NewMessage("failed", i)
        BY <4>1, Zenon DEF Init, Leftover
      <4> QED BY <4>1, <4>2 DEF NewMessage
    <3>2. NewMessage("failed", j) # Free
      BY NewMessageFields, MessageFields, Zenon
    <3> QED BY <3>1, <3>2 DEF Init, Leftover
  <2>3. \E x : PendingCopies(j) \subseteq {} \cup {x}
    BY <2>2
  <2>4. IsFiniteSet({}) /\ Cardinality({}) = 0
    BY FS_EmptySet, Zenon
  <2>5. IsFiniteSet(PendingCopies(j)) /\ Cardinality(PendingCopies(j)) \in Nat
        /\ Cardinality(PendingCopies(j)) <= 1
    <3>1. PICK x : PendingCopies(j) \subseteq {} \cup {x}
      BY <2>3, Zenon
    <3> DEFINE E == {}
    <3> HIDE DEF E
    <3>2. /\ PendingCopies(j) \subseteq E \cup {x}
          /\ IsFiniteSet(E) /\ Cardinality(E) = 0
      BY <2>4, <3>1, Zenon DEF E
    <3>3. /\ IsFiniteSet(PendingCopies(j)) /\ Cardinality(PendingCopies(j)) \in Nat
          /\ Cardinality(PendingCopies(j)) <= Cardinality(E) + 1
      BY <3>2, SizeOf, Zenon
    <3> QED BY <3>2, <3>3
  <2> QED BY <2>1, <2>4, <2>5 DEF Init, PaidFor
<1> QED BY <1>1, <1>2, Zenon DEF BudgetInv

(* Duplicates come from faults only, one per fault: publishing before      *)
(* acking, in handleFailure, parkDelivery and failedWorker, and the TTL    *)
(* dead-lettering never multiply a job by themselves.                      *)
THEOREM DuplicationTheorem == Spec => []DuplicationBudget
<1>1. IInv /\ BudgetInv /\ [Next]_vars => (IInv /\ BudgetInv)'
  <2> SUFFICES ASSUME IInv, BudgetInv, [Next]_vars PROVE IInv' /\ BudgetInv'
    BY Zenon
  <2>1. IInv'
    BY NextIInv, Zenon
  <2>2. ClaimedLive'
    BY ClaimedLiveKept, Zenon DEF BudgetInv
  <2>3. ASSUME NEW j \in Jobs PROVE PaidFor(j)'
    <3>1. disruptions \in Nat /\ disruptions' \in Nat /\ PaidFor(j)
      BY <2>1, Zenon DEF IInv, TypeOK, BudgetInv
    <3> QED BY <3>1, NextPays, AffordablePaid, Zenon
  <2> QED BY <2>1, <2>2, <2>3, Zenon DEF BudgetInv
<1>2. IInv /\ BudgetInv => DuplicationBudget
  <2> SUFFICES ASSUME IInv, BudgetInv, NEW j \in Jobs
               PROVE  Cardinality(PendingCopies(j)) <= 1 + disruptions
    BY Zenon DEF DuplicationBudget
  <2>1. Cardinality(PendingCopies(j)) \in Nat /\ Cardinality(Stale(j)) \in Nat
    BY FS_CardinalityType, Zenon DEF BudgetInv, PaidFor
  <2> QED BY <2>1 DEF BudgetInv, PaidFor, IInv, TypeOK
<1> QED BY <1>1, <1>2, InitIInv, InitPaid, PTL DEF Spec

-----------------------------------------------------------------------------
(* WorkQueue implements ReliableQueue *)

(* What a stored copy adds to the abstract queue.                          *)
LEMMA EnqueueEffect ==
    ASSUME TypeOK, NEW m \in Message, Enqueue(m)
    PROVE  /\ retained' = retained \cup {m.job}
           /\ m.queue = "dead" => parked' = parked \cup {m.job}
           /\ m.queue # "dead" => parked' = parked
<1>1. PICK t \in Slots : slot[t] = Free /\ slot' = [slot EXCEPT ![t] = m]
  BY Zenon DEF Enqueue
<1>2. m # Free /\ Free.queue = "free"
  BY MessageFields, Zenon DEF Free
<1>3. slot'[t] = m /\ \A s \in Slots : s # t => slot'[s] = slot[s]
  BY <1>1, Zenon DEF TypeOK
<1>4. QED
  BY <1>1, <1>2, <1>3 DEF retained, parked

(* The first state is one of ReliableQueue.                                *)
LEMMA InitRefines == Init => Abstract!Init
<1> SUFFICES ASSUME Init PROVE Abstract!Init
  OBVIOUS
<1>1. \A s \in Slots : slot[s] = Free \/ \E j \in Legacy : slot[s] = NewMessage("failed", j)
  BY DEF Init, Leftover
<1>2. \A j \in Legacy : /\ NewMessage("failed", j).job = j
                        /\ NewMessage("failed", j).queue = "failed"
                        /\ NewMessage("failed", j) # Free
  BY Zenon DEF NewMessage, Free
<1>3. retained = Legacy
  BY <1>1, <1>2 DEF Init, Leftover, retained
<1>4. parked = {}
  BY <1>1, <1>2 DEF parked, Free
<1>5. QED
  BY <1>3, <1>4, Zenon DEF Init, Leftover, Abstract!Init

(* A replacement copy retains the job again, or parks it.                  *)
LEMMA ReplaceRefines ==
    ASSUME IInv, NEW a \in Actors, NEW m \in Message, m.job \in stored,
           publishConfirmed(a, m), UNCHANGED <<stored, done>>
    PROVE  [Abstract!Next]_(Abstract!vars)
<1>1. m.job \in Jobs
  BY MessageFields, Zenon
<1>2. CASE Enqueue(m)
  BY <1>1, <1>2, EnqueueEffect, Zenon
  DEF IInv, Abstract!Next, Abstract!Retain, Abstract!Park
<1>3. CASE ~Enqueue(m)
  BY <1>3, Zenon DEF publishConfirmed, Abstract!vars, retained, parked
<1>4. QED
  BY <1>2, <1>3, Zenon

(* The Ack of the last copy of a job forgets it, which needs the job done  *)
(* and not parked; every other Ack is invisible.                           *)
LEMMA AckRefines ==
    ASSUME IInv, NEW a \in Actors, Ack(a)
    PROVE  [Abstract!Next]_(Abstract!vars)
<1>1. CASE ~live[a]
  BY <1>1, Zenon DEF Ack, Abstract!vars, retained, parked
<1>2. CASE live[a]
  <2> DEFINE t == cur[a].slot
             j == cur[a].msg.job
  <2>1. /\ t \in Slots /\ slot' = [slot EXCEPT ![t] = Free]
        /\ pc[a] = "acking" /\ UNCHANGED <<stored, done>>
    BY <1>2, Zenon DEF Ack, IInv, Custody, Captured, Delivery
  <2>2. slot[t] # Free /\ slot[t].job = j /\ slot[t].queue # "dead"
    BY <1>2, <2>1, SourcesAssumption, Zenon
    DEF IInv, Custody, HeldCopy, CapturedOK, ConsumesFrom
  <2>3. slot'[t] = Free /\ Free.queue # "dead"
        /\ \A s \in Slots : s # t => slot'[s] = slot[s]
    BY <2>1, Zenon DEF IInv, TypeOK, Free
  <2>4. parked' = parked
    BY <2>2, <2>3 DEF parked
  <2>5. CASE \E s \in Slots : s # t /\ CopyOf(s, j)
    <3>1. retained' = retained
      BY <2>1, <2>2, <2>3, <2>5, SMTT(30) DEF retained, CopyOf
    <3>2. QED
      BY <2>1, <2>4, <3>1, Zenon DEF Abstract!vars
  <2>6. CASE ~ \E s \in Slots : s # t /\ CopyOf(s, j)
    <3>1. retained' = retained \ {j}
      <4>1. \A s \in Slots : s # t /\ slot[s] # Free => slot[s].job # j
        BY <2>6, Zenon DEF CopyOf
      <4>2. retained' \subseteq retained \ {j}
        BY <2>1, <2>3, <4>1 DEF retained
      <4>3. retained \ {j} \subseteq retained'
        BY <2>1, <2>2, <2>3 DEF retained
      <4> QED BY <4>2, <4>3, Zenon
    <3>2. j \in done
      <4>1. j \in stored
        BY <2>1, Zenon DEF IInv, Custody, Captured
      <4>2. ~NotAcked(t)
        BY <1>2, <2>1, Zenon DEF NotAcked, Holds
      <4>3. QED
        BY <2>6, <4>1, <4>2, Zenon DEF IInv, SafeCopy
    <3>3. j \notin parked
      BY <2>2, <2>6 DEF parked, CopyOf, Free
    <3>4. j \in Jobs
      BY <3>2, Zenon DEF IInv, TypeOK
    <3>5. QED
      BY <2>1, <2>4, <3>1, <3>2, <3>3, <3>4, Zenon DEF Abstract!Next, Abstract!Forget
  <2>7. QED
    BY <2>5, <2>6, Zenon
<1>3. QED
  BY <1>1, <1>2, Zenon

(* A rewrite of a copy in place that keeps its job out of the dead queue.  *)
LEMMA BrokerRefines ==
    ASSUME IInv, NEW s \in Slots, BackoffElapses(s) \/ Expire(s)
    PROVE  UNCHANGED Abstract!vars
<1>1. slot[s] \in Message /\ slot[s] # Free /\ slot[s].queue = "failed"
  BY DEF BackoffElapses, Expire, Free, IInv, TypeOK
<1>2. PICK m \in Message :
         m.job = slot[s].job /\ m.queue # "dead" /\ slot' = [slot EXCEPT ![s] = m]
  <2>1. [slot[s] EXCEPT !.due = TRUE] \in
           {m \in Message : m.job = slot[s].job /\ m.queue # "dead"}
    BY <1>1, Zenon DEF Message
  <2>2. [slot[s] EXCEPT !.queue = "main"] \in
           {m \in Message : m.job = slot[s].job /\ m.queue # "dead"}
    BY <1>1, Zenon DEF Message
  <2>3. QED
    BY <2>1, <2>2, Zenon DEF BackoffElapses, Expire
<1>3. slot'[s] = m /\ m # Free /\ \A t \in Slots : t # s => slot'[t] = slot[t]
  BY <1>2, MessageFields, Zenon DEF IInv, TypeOK
<1>4. retained' = retained /\ parked' = parked
  BY <1>1, <1>2, <1>3 DEF retained, parked
<1>5. QED
  BY <1>4, Zenon DEF Abstract!vars, BackoffElapses, Expire

(* Every step is one of ReliableQueue or changes nothing of it.            *)
LEMMA StepRefines == IInv /\ [Next]_vars => [Abstract!Next]_(Abstract!vars)
<1> SUFFICES ASSUME IInv, [Next]_vars PROVE [Abstract!Next]_(Abstract!vars)
  BY Zenon
<1>1. ASSUME UNCHANGED <<slot, stored, done>> PROVE UNCHANGED Abstract!vars
  BY <1>1, Zenon DEF Abstract!vars, retained, parked
<1>2. CASE UNCHANGED vars
  BY <1>1, <1>2, Zenon DEF vars
<1>3. ASSUME NEW j \in Jobs, Publish(j) \/ PublishAgain(j)
      PROVE  [Abstract!Next]_(Abstract!vars)
  <2> DEFINE m == NewMessage("main", j)
  <2>1. m \in Message /\ m.job = j /\ m.queue = "main"
    BY NewMessageFields, Zenon DEF NewMessage
  <2>2. Enqueue(m) /\ UNCHANGED done /\ stored' = stored \cup {j}
    BY <1>3, Zenon DEF Publish, PublishAgain
  <2> HIDE DEF m
  <2>3. retained' = retained \cup {j} /\ parked' = parked
    BY <2>1, <2>2, EnqueueEffect, Zenon DEF IInv
  <2>4. QED
    BY <2>2, <2>3, Zenon DEF Abstract!Next, Abstract!Accept
<1>4. ASSUME NEW a \in Actors, ActorStep(a) PROVE [Abstract!Next]_(Abstract!vars)
  BY <1>1, <1>4, AckRefines, Zenon DEF ActorStep, Deliver, Nack
<1>5. ASSUME NEW a \in Actors, Fault(a) PROVE UNCHANGED Abstract!vars
  BY <1>1, <1>5, Zenon DEF Fault, StopClaiming, ChannelLost, Crash
<1>6. ASSUME NEW w \in Workers, WorkerStep(w) PROVE [Abstract!Next]_(Abstract!vars)
  <2> DEFINE m == cur[w].msg
  <2>1. w \in Actors /\ pc[w] # "idle"
    BY <1>6, Zenon
    DEF Actors, WorkerStep, StartHandler, HandlerSucceeds, HandlerFails, handleFailure
  <2>2. m \in Message /\ m.job \in stored /\ m.job \in Jobs
    BY <2>1, Zenon DEF IInv, TypeOK, Custody, Captured, Delivery
  <2>3. CASE StartHandler(w) \/ HandlerFails(w)
    BY <1>1, <2>3, Zenon DEF StartHandler, HandlerFails
  <2>4. CASE HandlerSucceeds(w)
    BY <2>2, <2>4, Zenon
    DEF HandlerSucceeds, Abstract!Next, Abstract!Complete, retained, parked
  <2>5. CASE handleFailure(w)
    <3>1. ToFailed(m) \in Message /\ ToFailed(m).job = m.job
      BY <2>2, SideCopyFields, Zenon
    <3>2. ToDead(m) \in Message /\ ToDead(m).job = m.job
      BY <2>2, SideCopyFields, Zenon
    <3>3. QED
      BY <2>1, <2>2, <2>5, <3>1, <3>2, ReplaceRefines, Zenon DEF handleFailure
  <2>6. QED
    BY <1>6, <2>3, <2>4, <2>5, Zenon DEF WorkerStep
<1>7. ASSUME NEW r \in Retriers, RetrierStep(r) PROVE [Abstract!Next]_(Abstract!vars)
  <2> DEFINE m == cur[r].msg
  <2>1. r \in Actors /\ pc[r] # "idle"
    BY <1>7, Zenon DEF Actors, RetrierStep, parkDelivery, Republish
  <2>2. m \in Message /\ m.job \in stored
    BY <2>1, Zenon DEF IInv, Custody, Captured, Delivery
  <2>3. ToDead(m) \in Message /\ ToDead(m).job = m.job
    BY <2>2, SideCopyFields, Zenon
  <2>4. CASE parkDelivery(r)
    BY <2>1, <2>2, <2>3, <2>4, ReplaceRefines, Zenon DEF parkDelivery
  <2>5. CASE Republish(r)
    <3>1. slot[cur[r].slot].due = TRUE
      BY <2>1, <2>5, Zenon DEF Republish
    <3> DEFINE c == ToMain(m, slot[cur[r].slot].due)
    <3>2. c \in Message /\ c.job = m.job
      BY <2>2, <3>1, ToMainFields, Zenon
    <3>3. QED
      BY <2>1, <2>2, <2>5, <3>2, ReplaceRefines, Zenon DEF Republish
  <2>6. QED
    BY <1>7, <2>4, <2>5, Zenon DEF RetrierStep
<1>8. ASSUME NEW s \in Slots, BackoffElapses(s) \/ Expire(s)
      PROVE  UNCHANGED Abstract!vars
  BY <1>8, BrokerRefines, Zenon
<1>9. QED
  BY <1>2, <1>3, <1>4, <1>5, <1>6, <1>7, <1>8, Zenon DEF Next

(* The RabbitMQ implementation keeps the promise of contract.Queue: a job  *)
(* is forgotten only when finished, a parked job never.                    *)
THEOREM RefinementTheorem == Spec => Refines
BY InitRefines, StepRefines, Invariance, PTL DEF Spec, Refines, Abstract!Spec
=============================================================================
