----------------------------- MODULE WorkQueue -----------------------------
(***************************************************************************)
(* The RabbitMQ work queue of infrastructure/rabbitmq/queue.go for one     *)
(* event type: the main, failed and dead queues, the consumers started by  *)
(* Consume, the retry workers started by ConsumeFailed, and the broker     *)
(* behaviour they rely on (redelivery of unacked messages, per-message TTL *)
(* with dead-lettering, publisher confirms that may be lost).              *)
(*                                                                         *)
(* A slot is one place for a message copy in the broker.  A publisher, a   *)
(* consumer and a retry worker only ever add copies; a copy leaves the     *)
(* broker when the actor holding it on an open channel acks it.            *)
(***************************************************************************)
EXTENDS Naturals, FiniteSets

CONSTANTS
    Jobs,           \* the jobs publishers submit
    Poison,         \* jobs whose handler answers ErrPoisonPayload/ErrNoHandler
    Legacy,         \* jobs already in a failed queue of an unknown event type
    Slots,          \* places for message copies (bounds the broker)
    Workers,        \* consumeWorker goroutines
    Retriers,       \* failedWorker goroutines
    Sources,        \* the queues the workers consume: "main", maybe "failed"
    MaxAttempts,    \* [queue] max_attempts, at least 1 (New)
    AttemptCap,     \* bound: a handler stops failing after this many attempts
    MaxDisruptions  \* bound: crashes, lost channels, stops, failed publishes

Actors == Workers \cup Retriers

(* No process registers a handler for an unknown event type.               *)
ASSUME JobsAssumption == Poison \subseteq Jobs /\ Legacy \subseteq Poison
ASSUME ActorsAssumption == Workers \cap Retriers = {}
ASSUME SourcesAssumption == Sources \subseteq {"main", "failed"}
ASSUME BoundsAssumption ==
    MaxAttempts \in Nat \ {0} /\ AttemptCap \in Nat /\ MaxDisruptions \in Nat

VARIABLES
    slot,         \* the broker: what each slot holds
    pc,           \* where each actor is in its delivery loop
    cur,          \* the delivery each actor captured: its slot and message
    live,         \* whether the actor's delivery is still on an open channel
    stored,       \* jobs a durable queue has accepted at least once
    done,         \* jobs some handler call has completed (returned nil)
    disruptions   \* how much of MaxDisruptions is spent

vars == <<slot, pc, cur, live, stored, done, disruptions>>

(* attempts is the x-attempts header.  due says that the x-not-before-ms   *)
(* instant has passed, which is also when the equal TTL expires.  entries  *)
(* is not a header: it counts how often this lineage of copies was         *)
(* published to the failed queue, that is, how often a handler failed.     *)
Message == [queue : {"main", "failed", "dead"}, job : Jobs,
            attempts : Nat, due : BOOLEAN, entries : Nat]
Free == [queue |-> "free"]
NoDelivery == [msg |-> Free]
Delivery == [slot : Slots, msg : Message]
PC == {"idle", "claimed", "running", "failing", "parking", "acking", "nacking"}

NewMessage(q, j) ==
    [queue |-> q, job |-> j, attempts |-> 0, due |-> TRUE, entries |-> 0]

Holds(a, s) == live[a] /\ cur[a].slot = s
Unheld(s) == \A a \in Actors : ~Holds(a, s)

(* One copy of each legacy job, and nothing else.                          *)
Leftover(f) ==
    /\ f \in [Slots -> {Free} \cup {NewMessage("failed", j) : j \in Legacy}]
    /\ \A j \in Legacy : \E s \in Slots : f[s] = NewMessage("failed", j)
    /\ \A s, t \in Slots : f[s] = f[t] => s = t \/ f[s] = Free

(* Slots are interchangeable, so one arrangement stands for all.           *)
FirstLeftover ==
    CHOOSE f \in [Slots -> {Free} \cup {NewMessage("failed", j) : j \in Legacy}] : Leftover(f)

Init ==
    /\ slot = FirstLeftover
    /\ Leftover(slot)
    /\ pc = [a \in Actors |-> "idle"]
    /\ cur = [a \in Actors |-> NoDelivery]
    /\ live = [a \in Actors |-> FALSE]
    /\ stored = Legacy
    /\ done = {}
    /\ disruptions = 0

Disrupt ==
    /\ disruptions < MaxDisruptions
    /\ disruptions' = disruptions + 1

(* The broker stores m in a free slot; which one makes no difference.      *)
NextFree == CHOOSE s \in Slots : slot[s] = Free

Enqueue(m) ==
    \E s \in Slots : slot[s] = Free /\ s = NextFree /\ slot' = [slot EXCEPT ![s] = m]

Goto(a, label) == pc' = [pc EXCEPT ![a] = label]

(* The actor is done with its delivery and ranges over the next one.       *)
Finish(a) ==
    /\ Goto(a, "idle")
    /\ cur' = [cur EXCEPT ![a] = NoDelivery]
    /\ live' = [live EXCEPT ![a] = FALSE]

-----------------------------------------------------------------------------
(* Publishers *)

(* Publish: the job reaches the main queue with zero attempts and the      *)
(* confirmation comes back.                                                *)
Publish(j) ==
    /\ j \notin stored
    /\ Enqueue(NewMessage("main", j))
    /\ stored' = stored \cup {j}
    /\ UNCHANGED <<pc, cur, live, done, disruptions>>

(* The caller repeats a Publish whose confirmation it never saw although   *)
(* the broker had stored the message (WaitContext failed): a second copy.  *)
PublishAgain(j) ==
    /\ j \in stored \ Legacy
    /\ Disrupt
    /\ Enqueue(NewMessage("main", j))
    /\ UNCHANGED <<pc, cur, live, stored, done>>

-----------------------------------------------------------------------------
(* Delivery, shared by both kinds of worker *)

ConsumesFrom(a) == IF a \in Workers THEN Sources ELSE {"failed"}

(* The broker pushes an unheld copy to an idle actor, which captures it.   *)
Deliver(a, s) ==
    /\ pc[a] = "idle"
    /\ slot[s].queue \in ConsumesFrom(a)
    /\ Unheld(s)
    /\ Goto(a, "claimed")
    /\ cur' = [cur EXCEPT ![a] = [slot |-> s, msg |-> slot[s]]]
    /\ live' = [live EXCEPT ![a] = TRUE]
    /\ UNCHANGED <<slot, stored, done, disruptions>>

(* SIGTERM before a worker started the handler, or while a retry worker    *)
(* waits out the backoff: the delivery is nacked with requeue.             *)
StopClaiming(a) ==
    /\ pc[a] = "claimed"
    /\ Disrupt
    /\ Finish(a)
    /\ UNCHANGED <<slot, stored, done>>

(* Mutant: a failed publish is acked like a confirmed one.                 *)
publishConfirmed_AckOnError(a, m) ==
    /\ Goto(a, "acking")
    /\ \/ Enqueue(m) /\ UNCHANGED disruptions
       \/ Disrupt /\ UNCHANGED slot

(* Mutant: the delivery is nacked although its replacement was confirmed.  *)
publishConfirmed_NackOnSuccess(a, m) ==
    /\ Goto(a, "nacking")
    /\ \/ Enqueue(m) /\ UNCHANGED disruptions
       \/ Disrupt /\ UNCHANGED slot

(* publishConfirmed as its caller sees it: nil after the confirmation; an  *)
(* error without effect; or an error although the broker stored the copy   *)
(* (a confirmation lost with the channel).                                 *)
publishConfirmed(a, m) ==
    \/ /\ Enqueue(m)
       /\ Goto(a, "acking")
       /\ UNCHANGED disruptions
    \/ /\ Disrupt
       /\ UNCHANGED slot \/ Enqueue(m)
       /\ Goto(a, "nacking")

(* msg.Ack: on an open channel the copy is gone; on a channel that was     *)
(* lost the error is ignored, and the broker has already requeued it.      *)
Ack(a) ==
    /\ pc[a] = "acking"
    /\ slot' = IF live[a] THEN [slot EXCEPT ![cur[a].slot] = Free] ELSE slot
    /\ Finish(a)
    /\ UNCHANGED <<stored, done, disruptions>>

(* msg.Nack with requeue: the copy stays and is deliverable again.         *)
Nack(a) ==
    /\ pc[a] = "nacking"
    /\ Finish(a)
    /\ UNCHANGED <<slot, stored, done, disruptions>>

-----------------------------------------------------------------------------
(* consumeWorker and handleFailure *)

(* The handler is called on the captured delivery.                         *)
StartHandler(w) ==
    /\ pc[w] = "claimed"
    /\ Goto(w, "running")
    /\ UNCHANGED <<slot, cur, live, stored, done, disruptions>>

(* The handler returned nil.                                               *)
HandlerSucceeds(w) ==
    /\ pc[w] = "running"
    /\ cur[w].msg.job \notin Poison
    /\ done' = done \cup {cur[w].msg.job}
    /\ Goto(w, "acking")
    /\ UNCHANGED <<slot, cur, live, stored, disruptions>>

(* failureDecision: poison payloads and missing handlers go to the dead    *)
(* queue, every other error to the failed queue.                           *)
failureDecision(j) == IF j \in Poison THEN "parking" ELSE "failing"

HandlerFails(w) ==
    /\ pc[w] = "running"
    /\ cur[w].msg.job \in Poison \/ cur[w].msg.attempts < AttemptCap
    /\ Goto(w, failureDecision(cur[w].msg.job))
    /\ UNCHANGED <<slot, cur, live, stored, done, disruptions>>

(* Mutant: copyHeaders keeps the old attempt count.                        *)
ToFailed_SameAttempts(m) ==
    [queue |-> "failed", job |-> m.job, attempts |-> m.attempts,
     due |-> FALSE, entries |-> m.entries + 1]

(* publishToFailed: the copies written to the side queues.                 *)
ToFailed(m) ==
    [queue |-> "failed", job |-> m.job, attempts |-> m.attempts + 1,
     due |-> FALSE, entries |-> m.entries + 1]

ToDead(m) ==
    [queue |-> "dead", job |-> m.job, attempts |-> m.attempts + 1,
     due |-> m.due, entries |-> m.entries]

(* handleFailure publishes the replacement on the shared, reconnecting     *)
(* publishing channel, so it does so even when its own channel is gone.    *)
handleFailure(w) ==
    /\ \/ pc[w] = "failing" /\ publishConfirmed(w, ToFailed(cur[w].msg))
       \/ pc[w] = "parking" /\ publishConfirmed(w, ToDead(cur[w].msg))
    /\ UNCHANGED <<cur, live, stored, done>>

-----------------------------------------------------------------------------
(* failedWorker *)

(* The republished copy keeps the x-not-before header.                     *)
ToMain(m, due) ==
    [queue |-> "main", job |-> m.job, attempts |-> m.attempts + 1,
     due |-> due, entries |-> m.entries]

Exhausted(m) == m.job \in Legacy \/ m.attempts + 1 >= MaxAttempts

(* Unknown event type or attempts at the limit: parkDelivery.              *)
parkDelivery(r) ==
    /\ pc[r] = "claimed"
    /\ Exhausted(cur[r].msg)
    /\ publishConfirmed(r, ToDead(cur[r].msg))
    /\ UNCHANGED <<cur, live, stored, done>>

(* Mutant: remainingBackoff compares the instants the wrong way round.     *)
Republish_Inverted(r) ==
    /\ pc[r] = "claimed"
    /\ ~Exhausted(cur[r].msg)
    /\ ~slot[cur[r].slot].due
    /\ publishConfirmed(r, ToMain(cur[r].msg, slot[cur[r].slot].due))
    /\ UNCHANGED <<cur, live, stored, done>>

(* The backoff is over: the delivery is republished to the main exchange.  *)
Republish(r) ==
    /\ pc[r] = "claimed"
    /\ ~Exhausted(cur[r].msg)
    /\ slot[cur[r].slot].due
    /\ publishConfirmed(r, ToMain(cur[r].msg, slot[cur[r].slot].due))
    /\ UNCHANGED <<cur, live, stored, done>>

-----------------------------------------------------------------------------
(* The broker and the environment *)

(* The TTL of a failed-queue copy, equal to its x-not-before instant, ends.*)
BackoffElapses(s) ==
    /\ slot[s].queue = "failed" /\ ~slot[s].due
    /\ slot' = [slot EXCEPT ![s].due = TRUE]
    /\ UNCHANGED <<pc, cur, live, stored, done, disruptions>>

(* An expired copy nobody holds is dead-lettered to the main exchange; the *)
(* failed queue of an unknown event type has no dead-letter arguments.     *)
Expire(s) ==
    /\ slot[s].queue = "failed" /\ slot[s].due /\ slot[s].job \notin Legacy
    /\ Unheld(s)
    /\ slot' = [slot EXCEPT ![s].queue = "main"]
    /\ UNCHANGED <<pc, cur, live, stored, done, disruptions>>

(* The channel or connection of an actor is lost: the broker requeues its  *)
(* delivery.  A handler that is running continues on the stale delivery;   *)
(* an unclaimed delivery is dropped, and a retry worker, which publishes   *)
(* on the lost channel, gives up.                                          *)
ChannelLost(a) ==
    /\ live[a]
    /\ Disrupt
    /\ IF a \in Retriers \/ pc[a] = "claimed"
         THEN Finish(a)
         ELSE live' = [live EXCEPT ![a] = FALSE] /\ UNCHANGED <<pc, cur>>
    /\ UNCHANGED <<slot, stored, done>>

(* The process of an actor dies and is restarted.                          *)
Crash(a) ==
    /\ pc[a] # "idle"
    /\ Disrupt
    /\ Finish(a)
    /\ UNCHANGED <<slot, stored, done>>

-----------------------------------------------------------------------------
WorkerStep(w) ==
    \/ StartHandler(w)
    \/ HandlerSucceeds(w)
    \/ HandlerFails(w)
    \/ handleFailure(w)

RetrierStep(r) ==
    \/ parkDelivery(r)
    \/ Republish(r)

ActorStep(a) ==
    \/ \E s \in Slots : Deliver(a, s)
    \/ Ack(a)
    \/ Nack(a)

Fault(a) ==
    \/ StopClaiming(a)
    \/ ChannelLost(a)
    \/ Crash(a)

Next ==
    \/ \E j \in Jobs : Publish(j) \/ PublishAgain(j)
    \/ \E a \in Actors : ActorStep(a) \/ Fault(a)
    \/ \E w \in Workers : WorkerStep(w)
    \/ \E r \in Retriers : RetrierStep(r)
    \/ \E s \in Slots : BackoffElapses(s) \/ Expire(s)

Spec == Init /\ [][Next]_vars

(* Workers and retry workers are running goroutines whose handlers return, *)
(* and the broker pushes messages and runs its timers.                     *)
Fairness ==
    /\ \A a \in Actors : WF_vars(ActorStep(a))
    /\ \A w \in Workers : WF_vars(WorkerStep(w))
    /\ \A r \in Retriers : WF_vars(RetrierStep(r))
    /\ \A s \in Slots : WF_vars(BackoffElapses(s)) /\ WF_vars(Expire(s))

FairSpec == Spec /\ Fairness

-----------------------------------------------------------------------------
(* Properties *)

TypeOK ==
    /\ slot \in [Slots -> Message \cup {Free}]
    /\ pc \in [Actors -> PC]
    /\ cur \in [Actors -> Delivery \cup {NoDelivery}]
    /\ live \in [Actors -> BOOLEAN]
    /\ stored \in SUBSET Jobs
    /\ done \in SUBSET Jobs
    /\ disruptions \in Nat

CopyOf(s, j) == slot[s] # Free /\ slot[s].job = j

(* Whatever crashes, channel losses, shutdowns and lost confirmations      *)
(* happen, a job a durable queue has accepted is either completed by some  *)
(* handler call or still has a copy in the main, failed or dead queue      *)
(* (handleFailure and failedWorker ack only after the replacement is       *)
(* confirmed).                                                             *)
NoLoss ==
    \A j \in stored : j \in done \/ \E s \in Slots : CopyOf(s, j)

(* The copies of a job other than those whose Ack is the next step.        *)
PendingCopies(j) ==
    {s \in Slots : /\ CopyOf(s, j)
                   /\ ~ \E a \in Actors : Holds(a, s) /\ pc[a] = "acking"}

(* Duplicates come from faults only, one per fault: the hand-overs between *)
(* workers, retry workers and the TTL dead-lettering never multiply a job, *)
(* although each of them publishes before it acks.                         *)
DuplicationBudget ==
    \A j \in Jobs : Cardinality(PendingCopies(j)) <= 1 + disruptions

(* The x-attempts header against the real number of handler failures: each *)
(* failure counts once in handleFailure and at most once more in           *)
(* failedWorker, never less and never more.                                *)
AttemptAccounting ==
    \A s \in Slots :
        slot[s].queue \in {"main", "failed"} =>
            /\ slot[s].entries <= slot[s].attempts
            /\ slot[s].attempts <= 2 * slot[s].entries

(* A retryable job is parked on the dead queue only after handlers failed  *)
(* on it at least half of max_attempts times (failedWorker's safety net).  *)
ExhaustionBudget ==
    \A s \in Slots :
        slot[s].queue = "dead" /\ slot[s].job \notin Poison =>
            2 * slot[s].entries >= MaxAttempts

(* No handler runs on a delivery whose x-not-before instant is still in    *)
(* the future.                                                             *)
BackoffHonoured ==
    \A w \in Workers : pc[w] = "running" => cur[w].msg.due

(* A job stored in a queue is eventually completed by a handler or parked  *)
(* on the dead queue: no retry cycle, wait or hand-over loses it, provided *)
(* its handler eventually stops failing.                                   *)
Settles ==
    \A j \in Jobs :
        j \in stored ~> \/ j \in done
                        \/ \E s \in Slots : CopyOf(s, j) /\ slot[s].queue = "dead"
=============================================================================
