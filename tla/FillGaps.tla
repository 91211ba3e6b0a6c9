------------------------------ MODULE FillGaps ------------------------------
(***************************************************************************)
(* The gap-filling ID sweep: publishFillGapsIDSweep of cmd/cli/publish.go  *)
(* and FindIDGapsAfter, FillGapsCursor and AdvanceFillGapsCursor of        *)
(* infrastructure/postgres/repository/character.go.  A scanner reads MaxID *)
(* and the cursor, wraps the cursor when it is at MaxID, looks for gaps,   *)
(* publishes at most count jobs for them and advances the cursor to the    *)
(* last published ID.  Each statement is a step.                           *)
(***************************************************************************)
EXTENDS SweepJobs, Sequences, SequencesExt

CONSTANTS
    Scanners, Manual,    \* runs with the cursor, runs with --min-id
    MinIDs,              \* values of --min-id
    Count                \* --count

Runs == Scanners \cup Manual

ASSUME RunsAssumption == Scanners \cap Manual = {}
ASSUME CountAssumption == Count \in Nat \ {0}
ASSUME MinIDsAssumption == MinIDs \subseteq IDs

VARIABLES
    cursor,    \* fill_gaps_state.last_queued_id
    stage,     \* where each run is
    maxSeen,   \* the MaxID a run has read
    base,      \* the cursor a run has read, or its --min-id
    gaps,      \* what is left of the gaps it found
    left,      \* how many jobs it may still publish
    last,      \* the last ID of the last job it published, 0 if none
    covered    \* IDs some gap-sweep job covers

runVars == <<stage, maxSeen, base, gaps, left, last>>
gapVars == <<chars, cursor, runVars, covered, failures>>

GapInit ==
    /\ chars = Initial
    /\ cursor = 0
    /\ stage = [p \in Runs |-> "idle"]
    /\ maxSeen = [p \in Runs |-> 0]
    /\ base = [p \in Runs |-> 0]
    /\ gaps = [p \in Runs |-> <<>>]
    /\ left = [p \in Runs |-> 0]
    /\ last = [p \in Runs |-> 0]
    /\ covered = {}
    /\ failures = 0

Goto(p, label) == stage' = [stage EXCEPT ![p] = label]

(* The run returns; what it knew is gone.                                  *)
Return(p) ==
    /\ Goto(p, "idle")
    /\ maxSeen' = [maxSeen EXCEPT ![p] = 0]
    /\ base' = [base EXCEPT ![p] = 0]
    /\ gaps' = [gaps EXCEPT ![p] = <<>>]
    /\ left' = [left EXCEPT ![p] = 0]
    /\ last' = [last EXCEPT ![p] = 0]

-----------------------------------------------------------------------------
(* MaxID; an empty table ends the run.  A manual run starts from --min-id. *)
ReadMax(p, minID) ==
    /\ stage[p] = "idle" /\ chars # {}
    /\ maxSeen' = [maxSeen EXCEPT ![p] = Max(chars)]
    /\ base' = [base EXCEPT ![p] = minID]
    /\ Goto(p, IF p \in Manual THEN "scan" ELSE "cursor")
    /\ UNCHANGED <<chars, cursor, gaps, left, last, covered, failures>>

ReadCursor(p) ==
    /\ stage[p] = "cursor"
    /\ base' = [base EXCEPT ![p] = cursor]
    /\ Goto(p, IF cursor >= maxSeen[p] THEN "wrap" ELSE "scan")
    /\ UNCHANGED <<chars, cursor, maxSeen, gaps, left, last, covered, failures>>

(* AdvanceFillGapsCursor(c, 0): a failed compare-and-set is accepted, for  *)
(* the cursor is never below 0.                                            *)
WrapCursor(p) ==
    /\ stage[p] = "wrap"
    /\ cursor' = IF cursor = base[p] THEN 0 ELSE cursor
    /\ base' = [base EXCEPT ![p] = 0]
    /\ Goto(p, "scan")
    /\ UNCHANGED <<chars, maxSeen, gaps, left, last, covered, failures>>

(* Mutant: a gap ends with the stored ID behind it.                        *)
GapRows_Closed(max) ==
    LET anchored == {0} \cup {i \in chars : i <= max}
        following(id) == {k \in anchored : k > id}
    IN  {[from |-> id + 1,
          to |-> IF following(id) = {} THEN max ELSE Min(following(id))] : id \in anchored}

(* The rows of the gaps-and-islands query: a gap after every stored ID and *)
(* after 0.                                                                *)
GapRows(max) ==
    LET anchored == {0} \cup {i \in chars : i <= max}
        following(id) == {k \in anchored : k > id}
    IN  {[from |-> id + 1,
          to |-> IF following(id) = {} THEN max ELSE Min(following(id)) - 1] : id \in anchored}

(* The window's ORDER BY id: the ranges of S in ascending order; no two of *)
(* them start at one ID.                                                   *)
Ascending(S) ==
    CHOOSE s \in [1 .. Cardinality(S) -> S] :
        \A i, j \in DOMAIN s : i < j => s[i].from < s[j].from

FirstOf(s, n) == SubSeq(s, 1, IF Len(s) < n THEN Len(s) ELSE n)

(* Mutant: a gap that straddles the cursor is skipped instead of trimmed.  *)
FindIDGapsAfter_NoTrim(after, max, limit) ==
    FirstOf(Ascending({g \in GapRows(max) : g.from > after /\ g.from <= g.to}), limit)

FindIDGapsAfter(after, max, limit) ==
    LET trimmed == {[from |-> IF g.from > after THEN g.from ELSE after + 1, to |-> g.to]
                       : g \in GapRows(max)}
    IN  FirstOf(Ascending({g \in trimmed : g.from <= g.to}), limit)

FindGaps(p) ==
    /\ stage[p] = "scan"
    /\ LET found == FindIDGapsAfter(base[p], maxSeen[p], Count)
       IN  IF found = <<>>
             THEN Return(p)
             ELSE /\ gaps' = [gaps EXCEPT ![p] = found]
                  /\ left' = [left EXCEPT ![p] = Count]
                  /\ Goto(p, "publish")
                  /\ UNCHANGED <<maxSeen, base, last>>
    /\ UNCHANGED <<chars, cursor, covered, failures>>

(* buildIDSweepJobs on the first gap that is left.                         *)
gapEnd(p) == chunkEnd(Head(gaps[p]).from, Head(gaps[p]).to)

Remaining(p) ==
    IF gapEnd(p) = Head(gaps[p]).to
      THEN Tail(gaps[p])
      ELSE <<[from |-> gapEnd(p) + 1, to |-> Head(gaps[p]).to]>> \o Tail(gaps[p])

GapQueued(p) == covered' = covered \cup (Head(gaps[p]).from .. gapEnd(p))

(* One job is published and confirmed; after the last one, or after count  *)
(* of them, a run with the cursor advances it.                             *)
PublishJob(p) ==
    /\ stage[p] = "publish"
    /\ GapQueued(p)
    /\ IF Remaining(p) = <<>> \/ left[p] = 1
         THEN IF p \in Manual
                THEN Return(p)
                ELSE /\ Goto(p, "advance")
                     /\ gaps' = [gaps EXCEPT ![p] = <<>>]
                     /\ last' = [last EXCEPT ![p] = gapEnd(p)]
                     /\ UNCHANGED <<maxSeen, base, left>>
         ELSE /\ gaps' = [gaps EXCEPT ![p] = Remaining(p)]
              /\ left' = [left EXCEPT ![p] = @ - 1]
              /\ last' = [last EXCEPT ![p] = gapEnd(p)]
              /\ UNCHANGED <<stage, maxSeen, base>>
    /\ UNCHANGED <<chars, cursor, failures>>

(* Mutant: the failed job is taken for the last published one.             *)
GapPublishFails_CountsFailed(p) ==
    /\ stage[p] = "publish"
    /\ Failure
    /\ Goto(p, "advance")
    /\ last' = [last EXCEPT ![p] = gapEnd(p)]
    /\ UNCHANGED <<chars, cursor, maxSeen, base, gaps, left, covered>>

(* A publish fails, although the job may have been queued: the cursor is   *)
(* advanced to the last job that was confirmed, if there was one.          *)
GapPublishFails(p) ==
    /\ stage[p] = "publish"
    /\ Failure
    /\ UNCHANGED covered \/ GapQueued(p)
    /\ IF p \in Manual \/ last[p] = 0
         THEN Return(p)
         ELSE Goto(p, "advance") /\ UNCHANGED <<maxSeen, base, gaps, left, last>>
    /\ UNCHANGED <<chars, cursor>>

Crash(p) ==
    /\ stage[p] # "idle"
    /\ Failure
    /\ Return(p)
    /\ UNCHANGED <<chars, cursor, covered>>

(* Mutant: the compare-and-set expects the last published ID.              *)
AdvanceFillGapsCursor_Swapped(p) ==
    /\ stage[p] = "advance"
    /\ cursor' = IF cursor = last[p] THEN base[p] ELSE cursor
    /\ Return(p)
    /\ UNCHANGED <<chars, covered, failures>>

AdvanceFillGapsCursor(p) ==
    /\ stage[p] = "advance"
    /\ cursor' = IF cursor = base[p] THEN last[p] ELSE cursor
    /\ Return(p)
    /\ UNCHANGED <<chars, covered, failures>>

-----------------------------------------------------------------------------
ScannerStep(p) ==
    \/ ReadMax(p, 0)
    \/ ReadCursor(p)
    \/ WrapCursor(p)
    \/ FindGaps(p)
    \/ PublishJob(p)
    \/ AdvanceFillGapsCursor(p)

ManualStep(p) ==
    \/ \E minID \in MinIDs : ReadMax(p, minID)
    \/ FindGaps(p)
    \/ PublishJob(p)

GapStep ==
    \/ \E p \in Scanners : ScannerStep(p)
    \/ \E p \in Manual : ManualStep(p)
    \/ \E p \in Runs : GapPublishFails(p) \/ Crash(p)

GapNext ==
    \/ GapStep
    \/ \E i \in IDs : StoreCharacter(i) /\ UNCHANGED <<cursor, runVars, covered, failures>>

GapSpec == GapInit /\ [][GapNext]_gapVars

(* The scanner is started again in every interval and goes on once started.*)
GapFairSpec == GapSpec /\ \A p \in Scanners : WF_gapVars(ScannerStep(p))

-----------------------------------------------------------------------------
(* Properties *)

Gap == [from : IDs, to : IDs]

GapTypeOK ==
    /\ chars \in SUBSET Population
    /\ cursor \in 0 .. MaxUint
    /\ stage \in [Runs -> {"idle", "cursor", "wrap", "scan", "publish", "advance"}]
    /\ maxSeen \in [Runs -> 0 .. MaxUint] /\ base \in [Runs -> 0 .. MaxUint]
    /\ \A p \in Runs : gaps[p] \in Seq(Gap)
    /\ left \in [Runs -> 0 .. Count] /\ last \in [Runs -> 0 .. MaxUint]
    /\ covered \in SUBSET IDs
    /\ failures \in 0 .. MaxFailures

(* The gaps-and-islands query with its trimming finds exactly the missing  *)
(* IDs after the cursor, as maximal ranges in ascending order.             *)
GapsExact ==
    \A max \in chars, after \in 0 .. MaxUint :
        LET found == FindIDGapsAfter(after, max, MaxUint)
        IN  /\ UNION {found[k].from .. found[k].to : k \in DOMAIN found}
                 = {i \in IDs : i > after /\ i <= max /\ i \notin chars}
            /\ \A k \in 1 .. Len(found) - 1 : found[k].to + 1 < found[k + 1].from

(* Duplicates rather than holes: every ID at or below the fill-gaps cursor *)
(* is stored or covered by a queued job, although scanners overlap, use    *)
(* stale maxima and cursors, and fail half-way (publishFillGapsIDSweep).   *)
GapNoSkip == 1 .. cursor \subseteq chars \cup covered

(* A gap ends below a stored ID, so the cursor never reaches the largest   *)
(* one: a scanner that wraps it has a stale MaxID, behind the job of       *)
(* another scanner, and one that runs alone never does                     *)
(* (publishFillGapsIDSweep).                                               *)
WrapIsStale ==
    /\ cursor = 0 \/ \E c \in chars : cursor < c
    /\ \A p \in Scanners : stage[p] = "wrap" => Scanners # {p} /\ \E c \in chars : maxSeen[p] < c

(* Every missing ID below a stored one is eventually queued or stored.     *)
GapsQueued ==
    \A i \in IDs : (\E c \in chars : i < c) ~> i \in chars \cup covered

(* The documented wrap: the sweep restarts, so an ID that stays missing is *)
(* queued again and again.                                                 *)
GapsRevisited ==
    \A i \in IDs : (\E c \in chars : i < c) ~>
        []<>(i \in chars \/ \E p \in Scanners, k \in 1 .. Count :
                k <= Len(gaps[p]) /\ i \in gaps[p][k].from .. gaps[p][k].to)
=============================================================================
