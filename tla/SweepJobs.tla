----------------------------- MODULE SweepJobs -----------------------------
(***************************************************************************)
(* What the two ID sweeps of cmd/cli/publish.go share: the characters they *)
(* read and their consumers store, and buildIDSweepJobs, which cuts a      *)
(* range of IDs into the chunks of one job each.                           *)
(***************************************************************************)
EXTENDS Integers

CONSTANTS
    ChunkSize,           \* --chunk-size (buildIDSweepJobs turns 0 into 100)
    MaxUint,             \* the largest uint32
    Initial, Population, \* characters stored at first, and existing ones
    MaxFailures          \* bound: failed publishes and crashes

IDs == 1 .. MaxUint

ASSUME WidthAssumption == MaxUint \in Nat \ {0} /\ ChunkSize \in 1 .. MaxUint
ASSUME CharactersAssumption == Initial \subseteq Population /\ Population \subseteq IDs
ASSUME FailuresAssumption == MaxFailures \in Nat

VARIABLES
    chars,      \* IDs in the characters table
    failures

Failure == failures < MaxFailures /\ failures' = failures + 1

Wrap(n) == n % (MaxUint + 1)

(* Mutant: the end of a chunk wraps around.                                *)
chunkEnd_NoGuard(lo, hi) ==
    LET end == Wrap(lo + ChunkSize - 1)
    IN  IF end > hi THEN hi ELSE end

(* buildIDSweepJobs: the last ID of the job that starts at lo, in a range  *)
(* that ends at hi.                                                        *)
chunkEnd(lo, hi) ==
    LET end == Wrap(lo + ChunkSize - 1)
    IN  IF end > hi \/ end < lo THEN hi ELSE end

(* A consumer stores a character it found, for a job of either sweep.      *)
StoreCharacter(i) ==
    /\ i \in Population \ chars
    /\ chars' = chars \cup {i}
=============================================================================
