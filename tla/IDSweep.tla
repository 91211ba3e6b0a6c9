------------------------------ MODULE IDSweep ------------------------------
(***************************************************************************)
(* The forward ID sweep of cmd/cli/publish.go and its persistent cursor in *)
(* infrastructure/postgres/repository/character.go.  Daemons (`publish     *)
(* id-sweep --auto`) read the cursor, publish the chunks of the next range *)
(* one confirmed job after the other, and advance the cursor with a        *)
(* compare-and-set; operators publish explicit ranges.  Every step is one  *)
(* statement or one publish, so runs interleave and die anywhere.          *)
(***************************************************************************)
EXTENDS SweepJobs, FiniteSets, FiniteSetsExt

CONSTANTS
    Daemons, Operators,  \* runs in automatic mode, runs with --from / --to
    Counts,              \* values of --count
    Flags                \* values of --from and --to

Publishers == Daemons \cup Operators

ASSUME PublishersAssumption == Daemons \cap Operators = {}
ASSUME FlagsAssumption == Counts \subseteq 1 .. MaxUint /\ Flags \subseteq 0 .. MaxUint

VARIABLES
    nextId,     \* id_sweep_state.next_id, 0 while the row does not exist
    first,      \* history: the value the row was created with
    pc,         \* where each run is
    from, to,   \* the range of each run, as read or computed
    at,         \* the first ID of the run's next job
    published   \* IDs some queued id-sweep job covers

batchVars == <<pc, from, to, at>>
vars == <<chars, nextId, first, batchVars, published, failures>>

Init ==
    /\ chars = Initial
    /\ nextId = 0 /\ first = 0
    /\ pc = [p \in Publishers |-> "idle"]
    /\ from = [p \in Publishers |-> 0]
    /\ to = [p \in Publishers |-> 0]
    /\ at = [p \in Publishers |-> 0]
    /\ published = {}
    /\ failures = 0

-----------------------------------------------------------------------------
(* IDSweepCursor's INSERT ... ON CONFLICT DO NOTHING.                      *)
CreateCursor ==
    /\ nextId = 0
    /\ \E maxId \in chars \cup {0} :
          /\ \A i \in chars : i <= maxId
          /\ nextId' = maxId + 1 /\ first' = maxId + 1
    /\ UNCHANGED <<chars, batchVars, published, failures>>

StartBatch(p, lo, hi) ==
    /\ pc[p] = "idle"
    /\ pc' = [pc EXCEPT ![p] = "publish"]
    /\ from' = [from EXCEPT ![p] = lo]
    /\ to' = [to EXCEPT ![p] = hi]
    /\ at' = [at EXCEPT ![p] = lo]
    /\ UNCHANGED <<chars, nextId, first, published, failures>>

(* publishAutoIDSweep up to its jobs: the cursor must be in range, and the *)
(* range, with the ID after it, must fit.                                  *)
StartAuto(p, count) ==
    /\ nextId \in IDs
    /\ count <= MaxUint - nextId
    /\ StartBatch(p, nextId, Wrap(nextId + count - 1))

(* computeIDSweepRange for flags that are not both 0.                      *)
rangeFrom(lo) == IF lo = 0 THEN 1 ELSE lo
rangeTo(lo, hi, count) == IF hi = 0 THEN Wrap(lo + count - 1) ELSE hi

StartRange(p, lo, hi, count) ==
    /\ lo # 0 \/ hi # 0
    /\ rangeTo(lo, hi, count) >= rangeFrom(lo)
    /\ StartBatch(p, rangeFrom(lo), rangeTo(lo, hi, count))

(* The job at the head of a batch.                                         *)
jobEnd(p) == chunkEnd(at[p], to[p])

Queued(p) == published' = published \cup (at[p] .. jobEnd(p))

(* publishAll publishes one job and is told so; after the last job an      *)
(* automatic run advances the cursor.                                      *)
PublishChunk(p) ==
    /\ pc[p] = "publish"
    /\ Queued(p)
    /\ IF jobEnd(p) = to[p]
         THEN /\ pc' = [pc EXCEPT ![p] = IF p \in Daemons THEN "advance" ELSE "idle"]
              /\ UNCHANGED at
         ELSE /\ at' = [at EXCEPT ![p] = jobEnd(p) + 1]
              /\ UNCHANGED pc
    /\ UNCHANGED <<chars, nextId, first, from, to, failures>>

(* Mutant: a failed publish goes on to the cursor.                         *)
PublishFails_Advances(p) ==
    /\ Failure
    /\ pc[p] = "publish"
    /\ pc' = [pc EXCEPT ![p] = "advance"]
    /\ UNCHANGED <<chars, nextId, first, from, to, at, published>>

(* publishAll fails, or the process dies: the run ends.  The job may have  *)
(* been queued all the same.                                               *)
PublishFails(p) ==
    /\ Failure
    /\ pc[p] # "idle"
    /\ \/ UNCHANGED published
       \/ pc[p] = "publish" /\ Queued(p)
    /\ pc' = [pc EXCEPT ![p] = "idle"]
    /\ UNCHANGED <<chars, nextId, first, from, to, at>>

(* Mutant: the compare-and-set expects the new value.                      *)
AdvanceIDSweepCursor_Swapped(p) ==
    /\ pc[p] = "advance"
    /\ nextId' = IF nextId = to[p] + 1 THEN from[p] ELSE nextId
    /\ pc' = [pc EXCEPT ![p] = "idle"]
    /\ UNCHANGED <<chars, first, from, to, at, published, failures>>

(* A compare-and-set that fails changes nothing: the run reports success   *)
(* when the cursor is already past its range and an error otherwise.       *)
AdvanceIDSweepCursor(p) ==
    /\ pc[p] = "advance"
    /\ nextId' = IF nextId = from[p] /\ to[p] + 1 > from[p] THEN to[p] + 1 ELSE nextId
    /\ pc' = [pc EXCEPT ![p] = "idle"]
    /\ UNCHANGED <<chars, first, from, to, at, published, failures>>

-----------------------------------------------------------------------------
PublisherStep(p) == PublishChunk(p) \/ AdvanceIDSweepCursor(p)

ForwardStep ==
    \/ CreateCursor
    \/ \E p \in Daemons, count \in Counts : StartAuto(p, count)
    \/ \E p \in Operators, lo, hi \in Flags, count \in Counts : StartRange(p, lo, hi, count)
    \/ \E p \in Publishers : PublisherStep(p) \/ PublishFails(p)

Next ==
    \/ ForwardStep
    \/ \E i \in published : StoreCharacter(i) /\ UNCHANGED <<nextId, first, batchVars, published, failures>>

Spec == Init /\ [][Next]_vars

(* The daemon's ticker starts a batch in every interval, and a batch that  *)
(* was started goes on.                                                    *)
FairSpec ==
    /\ Spec
    /\ WF_vars(CreateCursor)
    /\ \A p \in Publishers : WF_vars(PublisherStep(p))
    /\ \A p \in Daemons : WF_vars(\E count \in Counts : StartAuto(p, count))

-----------------------------------------------------------------------------
(* Properties *)

TypeOK ==
    /\ chars \in SUBSET Population
    /\ nextId \in 0 .. MaxUint + 1 /\ first \in 0 .. MaxUint + 1
    /\ pc \in [Publishers -> {"idle", "publish", "advance"}]
    /\ from \in [Publishers -> 0 .. MaxUint]
    /\ to \in [Publishers -> 0 .. MaxUint]
    /\ at \in [Publishers -> 0 .. MaxUint]
    /\ published \in SUBSET IDs
    /\ failures \in 0 .. MaxFailures

(* Duplicates rather than holes: every ID the forward cursor has passed    *)
(* since it was created is covered by a queued job, whatever runs overlap, *)
(* fail half-way or lose the compare-and-set (publishAutoIDSweep).         *)
NoSkip == first # 0 => first .. nextId - 1 \subseteq published

(* The forward cursor never goes back, so a slow run cannot undo the       *)
(* progress of a faster one (AdvanceIDSweepCursor).                        *)
CursorForward == [][nextId' >= nextId]_vars

(* A batch always ends, also when its last chunk reaches the largest ID    *)
(* (the overflow guard of buildIDSweepJobs).                               *)
BatchEnds == \A p \in Publishers : pc[p] # "idle" ~> pc[p] = "idle"

(* Every ID from the created cursor up to the end of the last range that   *)
(* fits is eventually queued.                                              *)
EventuallySwept ==
    \A i \in IDs :
        first # 0 /\ i >= first /\ i <= MaxUint - Max(Counts) ~> i \in published
=============================================================================
