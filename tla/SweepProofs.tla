---------------------------- MODULE SweepProofs ----------------------------
(***************************************************************************)
(* Proofs about the two sweeps over the character IDs, for every number of *)
(* runs, every width of the IDs, every count and every chunk size.  The    *)
(* gap sweep (FillGaps) comes first: what its query finds, the invariant   *)
(* GapInv that GapNoSkip needs, and why its cursor hardly ever wraps.  The *)
(* forward sweep (IDSweep) needs what a batch has queued so far.  Last,    *)
(* both keep their promises when they work on one table (Sweeps).          *)
(***************************************************************************)
EXTENDS Sweeps, FiniteSetTheorems, WellFoundedInduction, TLAPS

(* The sizes are what the flags allow.                                     *)
LEMMA Sizes ==
    /\ Count \in Nat \ {0} /\ MaxFailures \in Nat
    /\ MaxUint \in Nat \ {0} /\ ChunkSize \in 1 .. MaxUint
BY CountAssumption, FailuresAssumption, WidthAssumption, Zenon

(* A uint32 is within its width.                                           *)
LEMMA WrapType == ASSUME NEW n \in Nat PROVE Wrap(n) \in 0 .. MaxUint
BY WidthAssumption DEF Wrap

(* A chunk starts where its range does and ends inside it, also when the   *)
(* sum of its start and its size does not fit (buildIDSweepJobs).          *)
LEMMA ChunkInside ==
    ASSUME NEW lo \in 0 .. MaxUint, NEW hi \in 0 .. MaxUint, lo <= hi
    PROVE  /\ chunkEnd(lo, hi) \in 0 .. MaxUint
           /\ lo <= chunkEnd(lo, hi) /\ chunkEnd(lo, hi) <= hi
<1>1. lo + ChunkSize - 1 \in Nat
  BY WidthAssumption
<1>2. PICK end \in 0 .. MaxUint : end = Wrap(lo + ChunkSize - 1)
  BY <1>1, WrapType, Zenon
<1>3. chunkEnd(lo, hi) = IF end > hi \/ end < lo THEN hi ELSE end
  BY <1>2, Zenon DEF chunkEnd
<1> QED
  BY <1>2, <1>3, WidthAssumption

(* A nonempty set of naturals has a least element.                         *)
LEMMA LeastOf ==
    ASSUME NEW S \in SUBSET Nat, S # {}
    PROVE  \E n \in S : \A m \in S : n <= m
<1>1. PICK n \in S : \A m \in S : <<m, n>> \notin OpToRel(<, Nat)
  BY WFMin, NatLessThanWellFounded, Zenon
<1>2. \A m \in S : ~(m < n)
  BY <1>1, Zenon DEF OpToRel
<1> QED
  BY <1>2

(* Ranges that start at different IDs.                                     *)
Distinct(S) ==
    /\ IsFiniteSet(S)
    /\ \A g \in S : g.from \in Nat
    /\ \A g, h \in S : g.from = h.from => g = h

Before(S, g) == {h \in S : h.from < g.from}
Rank(S, g) == Cardinality(Before(S, g)) + 1

(* The rank of a range is below that of every range behind it.             *)
LEMMA Ranks ==
    ASSUME NEW S, Distinct(S), NEW g \in S
    PROVE  /\ Rank(S, g) \in 1 .. Cardinality(S)
           /\ \A h \in S : g.from <= h.from => Rank(S, g) <= Rank(S, h)
           /\ \A h \in S : g.from < h.from => Rank(S, g) < Rank(S, h)
<1>0. ASSUME NEW h \in S
      PROVE  IsFiniteSet(Before(S, h)) /\ Cardinality(Before(S, h)) \in Nat
  <2>1. Before(S, h) \in SUBSET S
    BY Zenon DEF Before
  <2> QED
    BY <2>1, FS_Subset, FS_CardinalityType, Zenon DEF Distinct
<1>1. Rank(S, g) \in 1 .. Cardinality(S)
  <2>1. Before(S, g) \in SUBSET S /\ g \notin Before(S, g)
    BY DEF Before, Distinct
  <2>2. Cardinality(Before(S, g)) <= Cardinality(S) /\ Cardinality(Before(S, g)) # Cardinality(S)
    BY <2>1, FS_Subset, Zenon DEF Distinct
  <2>3. Cardinality(S) \in Nat
    BY FS_CardinalityType, Zenon DEF Distinct
  <2> QED
    BY <1>0, <2>2, <2>3 DEF Rank
<1>2. ASSUME NEW h \in S, g.from <= h.from
      PROVE  Rank(S, g) <= Rank(S, h)
  <2>1. Before(S, g) \in SUBSET Before(S, h)
    BY <1>2 DEF Before, Distinct
  <2>2. Cardinality(Before(S, g)) <= Cardinality(Before(S, h))
    BY <1>0, <2>1, FS_Subset, Zenon
  <2> QED
    BY <1>0, <2>2 DEF Rank
<1>3. ASSUME NEW h \in S, g.from < h.from
      PROVE  Rank(S, g) < Rank(S, h)
  <2>1. Before(S, g) \in SUBSET Before(S, h) /\ Before(S, h) # Before(S, g)
    BY <1>3 DEF Before, Distinct
  <2>2. /\ Cardinality(Before(S, g)) <= Cardinality(Before(S, h))
        /\ Cardinality(Before(S, g)) # Cardinality(Before(S, h))
    BY <1>0, <2>1, FS_Subset, Zenon
  <2> QED
    BY <1>0, <2>2 DEF Rank
<1> QED
  BY <1>1, <1>2, <1>3, Zenon

(* ORDER BY: the ranges, each once, in ascending order.                    *)
LEMMA AscendingOK ==
    ASSUME NEW S, Distinct(S)
    PROVE  /\ Cardinality(S) \in Nat
           /\ Ascending(S) \in [1 .. Cardinality(S) -> S]
           /\ \A i, j \in 1 .. Cardinality(S) : i < j => Ascending(S)[i].from < Ascending(S)[j].from
           /\ \A g \in S : \E i \in 1 .. Cardinality(S) : Ascending(S)[i] = g
<1> DEFINE n == Cardinality(S)
           r == [g \in S |-> Rank(S, g)]
           Sorted(s) == \A i, j \in DOMAIN s : i < j => s[i].from < s[j].from
<1>1. n \in Nat /\ IsFiniteSet(1 .. n) /\ Cardinality(1 .. n) = n
  BY FS_CardinalityType, FS_Interval DEF Distinct
<1> HIDE DEF n
<1>2. r \in Injection(S, 1 .. n)
  <2>1. r \in [S -> 1 .. n]
    BY Ranks, Zenon DEF n
  <2>2. ASSUME NEW g \in S, NEW h \in S, r[g] = r[h]
        PROVE  g = h
    <3>1. Rank(S, g) = Rank(S, h) /\ g.from \in Nat /\ h.from \in Nat
      BY <2>2, Zenon DEF Distinct
    <3>2. ~(g.from < h.from) /\ ~(h.from < g.from)
      BY <3>1, Ranks
    <3> QED
      BY <3>1, <3>2 DEF Distinct
  <2> HIDE DEF r
  <2> QED
    BY <2>1, <2>2, Zenon DEF Injection, IsInjective
<1>3. r \in Surjection(S, 1 .. n)
  BY <1>1, <1>2, FS_Injection, Zenon DEF n
<1>4. \A k \in 1 .. n : \E g \in S : Rank(S, g) = k
  BY <1>3, Zenon DEF Surjection
<1> DEFINE t == [k \in 1 .. n |-> CHOOSE g \in S : Rank(S, g) = k]
<1>5. \A k \in 1 .. n : t[k] \in S /\ Rank(S, t[k]) = k
  BY <1>4, Zenon
<1>6. t \in [1 .. n -> S] /\ DOMAIN t = 1 .. n
  BY <1>5, Zenon
<1> HIDE DEF t, r
<1>7. Sorted(t)
  <2> SUFFICES ASSUME NEW i \in 1 .. n, NEW j \in 1 .. n, i < j
               PROVE  t[i].from < t[j].from
    BY <1>6, Zenon
  <2>1. t[i].from \in Nat /\ t[j].from \in Nat
    BY <1>5, Zenon DEF Distinct
  <2>2. ~(t[j].from <= t[i].from)
    BY <1>1, <1>5, Ranks
  <2> QED
    BY <2>1, <2>2
<1> DEFINE s == Ascending(S)
<1>8. s \in [1 .. n -> S] /\ Sorted(s)
  BY <1>6, <1>7, Zenon DEF Ascending, n
<1> HIDE DEF s
<1>9. s \in Injection(1 .. n, S)
  <2>1. ASSUME NEW i \in 1 .. n, NEW j \in 1 .. n, s[i] = s[j]
        PROVE  i = j
    <3>1. s[i].from \in Nat /\ s[j].from \in Nat /\ DOMAIN s = 1 .. n
      BY <1>8, Zenon DEF Distinct
    <3>2. ~(i < j) /\ ~(j < i)
      BY <1>8, <2>1, <3>1
    <3> QED
      BY <1>1, <3>2
  <2> QED
    BY <1>8, <2>1, Zenon DEF Injection, IsInjective
<1>10. s \in Surjection(1 .. n, S)
  BY <1>1, <1>9, FS_Injection, Zenon DEF Distinct, n
<1>11. \A g \in S : \E i \in 1 .. n : s[i] = g
  BY <1>10, Zenon DEF Surjection
<1>12. \A i, j \in 1 .. n : i < j => s[i].from < s[j].from
  BY <1>8, Zenon
<1> QED
  BY <1>1, <1>8, <1>11, <1>12, Zenon DEF s, n

-----------------------------------------------------------------------------
(* The gaps-and-islands query.                                             *)

Anchors(max) == {0} \cup {i \in chars : i <= max}
Following(max, id) == {k \in Anchors(max) : k > id}
EndOf(max, id) == IF Following(max, id) = {} THEN max ELSE Min(Following(max, id)) - 1

Trim(after, max, id) ==
    [from |-> IF id + 1 > after THEN id + 1 ELSE after + 1, to |-> EndOf(max, id)]

(* What the query finds before ORDER BY and LIMIT.                         *)
Trimmed(after, max) == {g \in {Trim(after, max, id) : id \in Anchors(max)} : g.from <= g.to}

(* The query, in these terms.                                              *)
LEMMA QueryIs ==
    ASSUME NEW after, NEW max, NEW limit
    PROVE  FindIDGapsAfter(after, max, limit) = FirstOf(Ascending(Trimmed(after, max)), limit)
<1> DEFINE rows == {[from |-> id + 1, to |-> EndOf(max, id)] : id \in Anchors(max)}
           cut(g) == [from |-> IF g.from > after THEN g.from ELSE after + 1, to |-> g.to]
<1>1. GapRows(max) = rows
  BY Zenon DEF GapRows, Anchors, Following, EndOf
<1>2. \A id : cut([from |-> id + 1, to |-> EndOf(max, id)]) = Trim(after, max, id)
  BY Zenon DEF Trim
<1>3. {cut(g) : g \in rows} = {Trim(after, max, id) : id \in Anchors(max)}
  BY <1>2, Zenon
<1>4. FindIDGapsAfter(after, max, limit)
        = FirstOf(Ascending({g \in {cut(g) : g \in rows} : g.from <= g.to}), limit)
  BY <1>1, Zenon DEF FindIDGapsAfter
<1> HIDE DEF rows, cut
<1> QED
  BY <1>3, <1>4, Zenon DEF Trimmed

(* The stored IDs up to max, and 0.                                        *)
LEMMA AnchorType ==
    ASSUME chars \subseteq IDs, NEW max \in 0 .. MaxUint
    PROVE  max \in Nat /\ 0 \in Anchors(max) /\ Anchors(max) \subseteq 0 .. max
<1>1. max \in Nat /\ chars \subseteq Nat
  BY Sizes DEF IDs
<1>2. ASSUME NEW k \in Anchors(max)
      PROVE  k \in 0 .. max
  BY <1>1 DEF Anchors
<1> QED
  BY <1>1, <1>2, Zenon DEF Anchors

(* An island ends before the next stored ID, and at max behind the last.   *)
LEMMA EndOfOK ==
    ASSUME chars \subseteq IDs, NEW max \in 0 .. MaxUint, NEW id \in Anchors(max)
    PROVE  /\ id \in 0 .. max /\ EndOf(max, id) \in id .. max
           /\ \A k \in Anchors(max) : k > id => EndOf(max, id) < k
           /\ EndOf(max, id) < max => EndOf(max, id) + 1 \in chars
<1> DEFINE F == Following(max, id)
<1>1. Anchors(max) \subseteq 0 .. max /\ F \subseteq 0 .. max /\ max \in Nat
  BY AnchorType, Zenon DEF Following
<1>2. \A k \in Anchors(max) : k > id <=> k \in F
  BY Zenon DEF Following
<1>3. CASE F = {}
  BY <1>1, <1>2, <1>3 DEF EndOf
<1>4. CASE F # {}
  <2>1. \E n \in F : \A m \in F : n <= m
    BY <1>1, <1>4, LeastOf
  <2>2. PICK n \in F : n = Min(F) /\ \A m \in F : n <= m
    BY <2>1, Zenon DEF Min
  <2>3. EndOf(max, id) = n - 1
    BY <1>4, <2>2, Zenon DEF EndOf
  <2>4. n \in Nat /\ id \in Nat /\ n > id /\ n <= max /\ n \in chars
    BY <1>1, <2>2 DEF Following, Anchors
  <2> QED
    BY <1>1, <1>2, <2>2, <2>3, <2>4
<1> QED
  BY <1>3, <1>4, Zenon

(* Every ID above 0 has a nearest stored ID, or 0, below it.               *)
LEMMA AnchorBelow ==
    ASSUME chars \subseteq IDs, NEW max \in 0 .. MaxUint, NEW i \in 1 .. max
    PROVE  \E id \in Anchors(max) : id < i /\ \A k \in Anchors(max) : k < i => k <= id
<1> DEFINE D == {i - k : k \in {k \in Anchors(max) : k < i}}
<1>1. Anchors(max) \subseteq 0 .. max /\ max \in Nat /\ 0 \in Anchors(max)
  BY AnchorType, Zenon
<1>2. D \in SUBSET Nat /\ i - 0 \in D
  BY <1>1
<1>3. PICK n \in D : \A m \in D : n <= m
  BY <1>2, LeastOf, Zenon
<1>4. PICK id \in Anchors(max) : id < i /\ n = i - id
  BY <1>3, Zenon
<1>5. ASSUME NEW k \in Anchors(max), k < i
      PROVE  k <= id
  <2>1. i - k \in D
    BY <1>5, Zenon
  <2> QED
    BY <1>1, <1>3, <1>4, <2>1
<1> QED
  BY <1>4, <1>5, Zenon

(* The query finds ranges of missing IDs behind the cursor up to max.      *)
LEMMA FoundMissing ==
    ASSUME chars \subseteq IDs, NEW max \in 0 .. MaxUint, NEW after \in 0 .. MaxUint,
           NEW g \in Trimmed(after, max)
    PROVE  /\ g.from \in IDs /\ g.to \in IDs /\ g \in Gap
           /\ g.from <= g.to /\ after < g.from /\ g.to <= max
           /\ \A i \in g.from .. g.to : i \notin chars
<1>1. PICK id \in Anchors(max) : g = Trim(after, max, id)
  BY Zenon DEF Trimmed
<1>2. /\ g.from = (IF id + 1 > after THEN id + 1 ELSE after + 1) /\ g.to = EndOf(max, id)
      /\ g = [from |-> g.from, to |-> g.to] /\ g.from <= g.to
  BY <1>1, Zenon DEF Trim, Trimmed
<1>3. /\ id \in 0 .. max /\ g.to \in id .. max /\ max \in Nat /\ MaxUint \in Nat
      /\ \A k \in Anchors(max) : k > id => g.to < k
  BY <1>2, EndOfOK, Sizes
<1>4. g.from \in IDs /\ g.to \in IDs /\ id < g.from /\ after < g.from /\ g.to <= max
  BY <1>2, <1>3 DEF IDs
<1>5. ASSUME NEW i \in g.from .. g.to, i \in chars
      PROVE  FALSE
  <2>1. i \in Anchors(max) /\ i > id /\ ~(g.to < i)
    BY <1>3, <1>4, <1>5 DEF Anchors, IDs
  <2> QED
    BY <1>3, <2>1, Zenon
<1> QED
  BY <1>2, <1>4, <1>5, Zenon DEF Gap

(* It finds every such ID.                                                 *)
LEMMA MissingFound ==
    ASSUME chars \subseteq IDs, NEW max \in 0 .. MaxUint, NEW after \in 0 .. MaxUint,
           NEW i \in IDs, after < i, i <= max, i \notin chars
    PROVE  \E g \in Trimmed(after, max) : g.from <= i /\ i <= g.to
<1>1. i \in 1 .. max /\ max \in Nat
  BY Sizes DEF IDs
<1>2. PICK id \in Anchors(max) : id < i /\ \A k \in Anchors(max) : k < i => k <= id
  BY <1>1, AnchorBelow, Zenon
<1>3. /\ id \in 0 .. max /\ EndOf(max, id) \in id .. max
      /\ EndOf(max, id) < max => EndOf(max, id) + 1 \in chars
  BY EndOfOK, Zenon
<1>4. i <= EndOf(max, id)
  <2> SUFFICES ASSUME EndOf(max, id) < i PROVE FALSE
    BY <1>1, <1>3
  <2>1. EndOf(max, id) + 1 \in chars /\ EndOf(max, id) + 1 <= max
    BY <1>1, <1>3
  <2>2. EndOf(max, id) + 1 \in Anchors(max) /\ EndOf(max, id) + 1 # i
    BY <2>1, Zenon DEF Anchors
  <2> QED
    BY <1>1, <1>2, <1>3, <2>2
<1>5. Trim(after, max, id).from <= i /\ Trim(after, max, id).to = EndOf(max, id)
  BY <1>1, <1>2, <1>3 DEF Trim
<1>6. Trim(after, max, id).from \in Nat
  BY <1>3 DEF Trim
<1>7. Trim(after, max, id) \in Trimmed(after, max)
  BY <1>1, <1>3, <1>4, <1>5, <1>6 DEF Trimmed
<1> QED
  BY <1>4, <1>5, <1>7, Zenon

(* Two ranges are apart, with a stored ID between them.                    *)
LEMMA FoundApart ==
    ASSUME chars \subseteq IDs, NEW max \in 0 .. MaxUint, NEW after \in 0 .. MaxUint,
           NEW g \in Trimmed(after, max), NEW h \in Trimmed(after, max)
    PROVE  g = h \/ g.to + 1 < h.from \/ h.to + 1 < g.from
<1>1. PICK a \in Anchors(max) : g = Trim(after, max, a)
  BY Zenon DEF Trimmed
<1>2. PICK b \in Anchors(max) : h = Trim(after, max, b)
  BY Zenon DEF Trimmed
<1>3. /\ a \in 0 .. max /\ b \in 0 .. max /\ max \in Nat
      /\ EndOf(max, a) \in 0 .. max /\ EndOf(max, b) \in 0 .. max
      /\ b > a => EndOf(max, a) < b
      /\ a > b => EndOf(max, b) < a
  BY EndOfOK, Sizes
<1>4. /\ g.from > a /\ g.to = EndOf(max, a) /\ h.from > b /\ h.to = EndOf(max, b)
      /\ g.from \in Nat /\ h.from \in Nat
  BY <1>1, <1>2, <1>3 DEF Trim
<1>5. CASE a = b
  BY <1>1, <1>2, <1>5, Zenon
<1>6. CASE a # b
  BY <1>3, <1>4, <1>6
<1> QED
  BY <1>5, <1>6, Zenon

(* No two of the ranges start at one ID, so there are at most MaxUint.     *)
LEMMA FoundDistinct ==
    ASSUME chars \subseteq IDs, NEW max \in 0 .. MaxUint, NEW after \in 0 .. MaxUint
    PROVE  Distinct(Trimmed(after, max)) /\ Cardinality(Trimmed(after, max)) <= MaxUint
<1> DEFINE T == Trimmed(after, max)
           f == [g \in T |-> g.from]
<1>1. \A g \in T : g.from \in IDs /\ g.from \in Nat /\ g.to \in Nat /\ g.from <= g.to
  BY FoundMissing, Sizes DEF IDs
<1>2. ASSUME NEW g \in T, NEW h \in T, g.from = h.from
      PROVE  g = h
  BY <1>1, <1>2, FoundApart
<1> HIDE DEF T
<1>3. f \in Injection(T, IDs)
  BY <1>1, <1>2, Zenon DEF Injection, IsInjective
<1>4. IsFiniteSet(IDs) /\ Cardinality(IDs) = MaxUint
  BY Sizes, FS_Interval DEF IDs
<1>5. IsFiniteSet(T) /\ Cardinality(T) <= Cardinality(IDs)
  BY <1>3, <1>4, FS_Injection, Zenon
<1> QED
  BY <1>1, <1>2, <1>4, <1>5, Zenon DEF Distinct, T

(* What FindIDGapsAfter returns: the first ranges, apart and in order, and *)
(* every missing ID is in one of them or behind the last.                  *)
FoundAll(found, after, max) ==
    \A i \in IDs : after < i /\ i <= max /\ i \notin chars =>
        \E k \in DOMAIN found : found[k].from <= i /\ i <= found[k].to

FoundFirst(found, after, max) ==
    \A i \in IDs : after < i /\ i <= max /\ i \notin chars =>
        \/ \E k \in DOMAIN found : found[k].from <= i /\ i <= found[k].to
        \/ found # <<>> /\ found[Len(found)].to < i

LEMMA FindOK ==
    ASSUME chars \subseteq IDs, NEW max \in 0 .. MaxUint, NEW after \in 0 .. MaxUint,
           NEW limit \in Nat \ {0}
    PROVE  LET found == FindIDGapsAfter(after, max, limit) IN
           /\ found \in Seq(Gap)
           /\ \A k \in DOMAIN found : found[k] \in Trimmed(after, max)
           /\ \A j, k \in DOMAIN found : j < k => found[j].to + 1 < found[k].from
           /\ FoundFirst(found, after, max)
           /\ limit >= MaxUint => FoundAll(found, after, max)
<1> DEFINE T == Trimmed(after, max)
           s == Ascending(T)
           n == Cardinality(T)
           m == IF n < limit THEN n ELSE limit
           found == FindIDGapsAfter(after, max, limit)
<1>1. Distinct(T) /\ n <= MaxUint
  BY FoundDistinct, Zenon
<1>2. \A g \in T : g \in Gap /\ g.from \in Nat /\ g.to \in Nat /\ g.from <= g.to
  BY FoundMissing, Sizes DEF IDs
<1>3. \A g, h \in T : g = h \/ g.to + 1 < h.from \/ h.to + 1 < g.from
  BY FoundApart, Zenon
<1>4. \A i \in IDs : after < i /\ i <= max /\ i \notin chars => \E g \in T : g.from <= i /\ i <= g.to
  BY MissingFound, Zenon
<1>5. found = FirstOf(s, limit)
  BY QueryIs, Zenon
<1> HIDE DEF T, found
<1>6. /\ n \in Nat /\ s \in [1 .. n -> T]
      /\ \A i, j \in 1 .. n : i < j => s[i].from < s[j].from
      /\ \A g \in T : \E i \in 1 .. n : s[i] = g
  BY <1>1, AscendingOK, Zenon
<1> HIDE DEF s, n
<1>7. s \in Seq(T) /\ Len(s) = n /\ m \in 0 .. n /\ (limit >= MaxUint => m = n)
  BY <1>1, <1>6, Sizes
<1>8. found = SubSeq(s, 1, m)
  BY <1>5, <1>7, Zenon DEF FirstOf
<1> HIDE DEF m
<1>9. /\ found \in Seq(T) /\ Len(found) = m /\ DOMAIN found = 1 .. m
      /\ \A k \in 1 .. m : found[k] = s[k]
  BY <1>6, <1>7, <1>8
<1>10. \A j, k \in 1 .. n : j < k => s[j].to + 1 < s[k].from
  <2> SUFFICES ASSUME NEW j \in 1 .. n, NEW k \in 1 .. n, j < k
               PROVE  s[j].to + 1 < s[k].from
    BY Zenon
  <2>1. s[j] \in T /\ s[k] \in T /\ s[j].from < s[k].from
    BY <1>6, Zenon
  <2> QED
    BY <1>2, <1>3, <2>1
<1>11. ASSUME NEW i \in IDs, after < i, i <= max, i \notin chars
       PROVE  /\ \/ \E k \in 1 .. m : found[k].from <= i /\ i <= found[k].to
                 \/ m # 0 /\ m # n /\ found[m].to < i
  <2>1. PICK k \in 1 .. n : s[k].from <= i /\ i <= s[k].to
    BY <1>4, <1>6, <1>11, Zenon
  <2>2. CASE k <= m
    BY <1>7, <1>9, <2>1, <2>2
  <2>3. CASE m < k
    <3>1. m \in 1 .. n /\ m # n /\ found[m] = s[m]
      BY <1>6, <1>7, <1>9, <2>3 DEF m
    <3>2. s[m].to + 1 < s[k].from /\ s[m] \in T /\ s[k] \in T
      BY <1>6, <1>10, <2>3, <3>1, Zenon
    <3>3. i \in Nat
      BY DEF IDs
    <3> QED
      BY <1>2, <2>1, <3>1, <3>2, <3>3
  <2> QED
    BY <1>7, <2>2, <2>3
<1>12. FoundFirst(found, after, max)
  BY <1>9, <1>11, Zenon DEF FoundFirst
<1>13. limit >= MaxUint => FoundAll(found, after, max)
  BY <1>7, <1>9, <1>11, Zenon DEF FoundAll
<1>14. found \in Seq(Gap)
  BY <1>2, <1>9
<1>15. \A j, k \in DOMAIN found : j < k => found[j].to + 1 < found[k].from
  BY <1>7, <1>9, <1>10
<1> QED
  BY <1>9, <1>12, <1>13, <1>14, <1>15 DEF found, T

(* GapsExact needs no more than that the table holds IDs.                  *)
LEMMA QueryExact ==
    ASSUME chars \subseteq IDs
    PROVE  GapsExact
<1> SUFFICES ASSUME NEW max \in chars, NEW after \in 0 .. MaxUint
             PROVE  LET found == FindIDGapsAfter(after, max, MaxUint)
                    IN  /\ UNION {found[k].from .. found[k].to : k \in DOMAIN found}
                             = {i \in IDs : i > after /\ i <= max /\ i \notin chars}
                        /\ \A k \in 1 .. Len(found) - 1 : found[k].to + 1 < found[k + 1].from
  BY Zenon DEF GapsExact
<1> DEFINE found == FindIDGapsAfter(after, max, MaxUint)
           missing == {i \in IDs : i > after /\ i <= max /\ i \notin chars}
<1>1. max \in 0 .. MaxUint /\ MaxUint \in Nat \ {0}
  BY Sizes DEF IDs
<1>2. /\ found \in Seq(Gap)
      /\ \A k \in DOMAIN found : found[k] \in Trimmed(after, max)
      /\ \A j, k \in DOMAIN found : j < k => found[j].to + 1 < found[k].from
      /\ FoundAll(found, after, max)
  BY <1>1, FindOK
<1> HIDE DEF found
<1>3. ASSUME NEW k \in DOMAIN found, NEW i \in found[k].from .. found[k].to
      PROVE  i \in missing
  <2>1. /\ found[k].from \in IDs /\ found[k].to \in IDs
        /\ after < found[k].from /\ found[k].to <= max
        /\ \A j \in found[k].from .. found[k].to : j \notin chars
    BY <1>1, <1>2, FoundMissing, Zenon
  <2> QED
    BY <1>1, <2>1 DEF IDs
<1>4. ASSUME NEW i \in missing
      PROVE  \E k \in DOMAIN found : i \in found[k].from .. found[k].to
  <2>1. PICK k \in DOMAIN found : found[k].from <= i /\ i <= found[k].to
    BY <1>2, <1>4, Zenon DEF FoundAll
  <2>2. found[k].from \in Int /\ found[k].to \in Int /\ i \in Int
    BY <1>1, <1>2, FoundMissing DEF IDs
  <2> QED
    BY <2>1, <2>2
<1>5. UNION {found[k].from .. found[k].to : k \in DOMAIN found} = missing
  BY <1>3, <1>4, Zenon
<1>6. \A k \in 1 .. Len(found) - 1 : found[k].to + 1 < found[k + 1].from
  BY <1>2
<1> QED
  BY <1>5, <1>6, Zenon DEF found

-----------------------------------------------------------------------------
(* The runs.                                                               *)

Reached == chars \cup covered

(* What a run still has to publish: ranges in ascending order behind the   *)
(* cursor it read, its last job before them, and no ID between the cursor  *)
(* and their end that is neither in one of them nor stored or queued.      *)
Publishing(p) ==
    /\ gaps[p] # <<>> /\ left[p] >= 1
    /\ last[p] < gaps[p][1].from
    /\ \A k \in DOMAIN gaps[p] : gaps[p][k].from <= gaps[p][k].to
    /\ \A j, k \in DOMAIN gaps[p] : j < k => gaps[p][j].to < gaps[p][k].from
    /\ \A i \in IDs :
          base[p] < i /\ i <= gaps[p][Len(gaps[p])].to /\ i \notin Reached =>
              \E k \in DOMAIN gaps[p] : gaps[p][k].from <= i /\ i <= gaps[p][k].to

Advancing(p) == \A i \in IDs : base[p] < i /\ i <= last[p] => i \in Reached

RunOK(p) ==
    /\ stage[p] = "publish" => Publishing(p)
    /\ stage[p] = "advance" => Advancing(p)
    /\ stage[p] \notin {"publish", "advance"} => last[p] = 0

GapInv ==
    /\ GapTypeOK /\ gaps = [p \in Runs |-> gaps[p]] /\ GapNoSkip
    /\ \A p \in Runs : RunOK(p)

(* The first state.                                                        *)
LEMMA GapInitOK == GapInit => GapInv
BY Sizes, CharactersAssumption, MinIDsAssumption
DEF GapInit, GapInv, GapTypeOK, GapNoSkip, RunOK, Gap, IDs

(* A run that waits while IDs are stored and queued.                       *)
LEMMA RunKept ==
    ASSUME GapInv, NEW q \in Runs, chars \subseteq chars', covered \subseteq covered',
           stage'[q] = stage[q], base'[q] = base[q], gaps'[q] = gaps[q], left'[q] = left[q],
           last'[q] = last[q]
    PROVE  RunOK(q)'
<1>1. Reached \subseteq Reached'
  BY Zenon DEF Reached
<1>2. RunOK(q)
  BY Zenon DEF GapInv
<1>3. Publishing(q) => Publishing(q)'
  BY <1>1, Zenon DEF Publishing
<1>4. Advancing(q) => Advancing(q)'
  BY <1>1, Zenon DEF Advancing
<1> QED
  BY <1>2, <1>3, <1>4, Zenon DEF RunOK

Waits(q) ==
    /\ stage'[q] = stage[q] /\ base'[q] = base[q] /\ gaps'[q] = gaps[q] /\ left'[q] = left[q]
    /\ last'[q] = last[q]

(* A step of one run, while the others wait.                               *)
LEMMA RunStep ==
    ASSUME GapInv, NEW p \in Runs, GapTypeOK', gaps' = [q \in Runs |-> gaps'[q]], GapNoSkip',
           chars \subseteq chars', covered \subseteq covered', RunOK(p)',
           \A q \in Runs : q # p => Waits(q)
    PROVE  GapInv'
<1>1. ASSUME NEW q \in Runs
      PROVE  RunOK(q)'
  BY RunKept, Zenon DEF Waits
<1> QED
  BY <1>1, Zenon DEF GapInv

(* A run that returns has nothing left.                                    *)
LEMMA ReturnOK ==
    ASSUME GapInv, NEW p \in Runs, Return(p), chars \subseteq chars', covered \subseteq covered',
           chars' \in SUBSET Population, covered' \in SUBSET IDs,
           cursor' \in 0 .. MaxUint, GapNoSkip', failures' \in 0 .. MaxFailures
    PROVE  GapInv'
<1>0. gaps' = [q \in Runs |-> gaps'[q]] /\ \A q \in Runs : gaps'[q] = gaps[q] \/ gaps'[q] = <<>>
  BY Zenon DEF GapInv, Return
<1>1. GapTypeOK'
  <2>1. \A q \in Runs : gaps'[q] \in Seq(Gap)
    <3>1. <<>> \in Seq(Gap) /\ \A q \in Runs : gaps[q] \in Seq(Gap)
      BY DEF GapInv, GapTypeOK
    <3> QED
      BY <1>0, <3>1, Zenon
  <2>2. /\ stage' \in [Runs -> {"idle", "cursor", "wrap", "scan", "publish", "advance"}]
        /\ maxSeen' \in [Runs -> 0 .. MaxUint] /\ base' \in [Runs -> 0 .. MaxUint]
        /\ left' \in [Runs -> 0 .. Count] /\ last' \in [Runs -> 0 .. MaxUint]
    BY Sizes DEF GapInv, GapTypeOK, Return, Goto
  <2> QED
    BY <2>1, <2>2, Zenon DEF GapTypeOK
<1>2. RunOK(p)'
  BY Zenon DEF RunOK, Return, Goto, GapInv, GapTypeOK
<1>3. \A q \in Runs : q # p => Waits(q)
  BY Zenon DEF Waits, Return, Goto, GapInv, GapTypeOK
<1> QED
  BY <1>0, <1>1, <1>2, <1>3, RunStep, Zenon

(* MaxID is the largest stored ID.                                         *)
LEMMA MaxOK ==
    ASSUME chars \subseteq IDs, chars # {}
    PROVE  Max(chars) \in chars /\ \A i \in chars : i <= Max(chars)
<1> DEFINE D == {MaxUint - i : i \in chars}
<1>1. MaxUint \in Nat /\ \A i \in chars : i \in 1 .. MaxUint
  BY Sizes, Zenon DEF IDs
<1>2. D \in SUBSET Nat /\ D # {}
  <2>1. \A i \in chars : MaxUint - i \in Nat
    BY <1>1
  <2> QED
    BY <2>1, Zenon
<1>3. PICK n \in D : \A m \in D : n <= m
  BY <1>2, LeastOf, Zenon
<1>4. PICK k \in chars : n = MaxUint - k
  BY <1>3, Zenon
<1>5. ASSUME NEW y \in chars
      PROVE  k >= y
  <2>1. MaxUint - y \in D /\ y \in Int /\ k \in Int
    BY <1>1
  <2>2. MaxUint - k <= MaxUint - y
    BY <1>3, <1>4, <2>1, Zenon
  <2> QED
    BY <1>1, <2>1, <2>2
<1>6. Max(chars) \in chars /\ \A y \in chars : Max(chars) >= y
  BY <1>5, Zenon DEF Max
<1>7. \A y \in chars : y \in Int
  BY <1>1
<1> QED
  BY <1>6, <1>7, Zenon

(* Reading the maximum and the cursor, and wrapping it.                    *)
LEMMA ReadOK ==
    ASSUME GapInv, NEW p \in Runs,
           \/ \E minID \in MinIDs \cup {0} : ReadMax(p, minID)
           \/ ReadCursor(p)
           \/ WrapCursor(p)
    PROVE  GapInv'
<1>1. /\ stage'[p] \in {"cursor", "wrap", "scan"}
      /\ stage' \in [Runs -> {"idle", "cursor", "wrap", "scan", "publish", "advance"}]
  BY Zenon DEF GapInv, GapTypeOK, ReadMax, ReadCursor, WrapCursor, Goto
<1>2. chars # {} => Max(chars) \in 0 .. MaxUint
  <2>1. chars \subseteq IDs /\ \A i \in IDs : i \in 0 .. MaxUint
    BY CharactersAssumption, Sizes DEF GapInv, GapTypeOK, IDs
  <2> QED
    BY <2>1, MaxOK, Zenon
<1>3. GapTypeOK' /\ UNCHANGED gaps
  <2>1. /\ UNCHANGED <<chars, gaps, left, last, covered, failures>>
        /\ cursor' = cursor \/ cursor' = 0
    BY Zenon DEF ReadMax, ReadCursor, WrapCursor
  <2>2. maxSeen' \in [Runs -> 0 .. MaxUint]
    BY <1>2, Zenon DEF GapInv, GapTypeOK, ReadMax, ReadCursor, WrapCursor
  <2>3. \A i \in MinIDs \cup {0} : i \in 0 .. MaxUint
    BY Sizes, CharactersAssumption, MinIDsAssumption DEF IDs
  <2>4. base' \in [Runs -> 0 .. MaxUint]
    BY <2>3, Zenon DEF GapInv, GapTypeOK, ReadMax, ReadCursor, WrapCursor
  <2> QED
    BY <1>1, <2>1, <2>2, <2>3, <2>4, Zenon DEF GapInv, GapTypeOK
<1>4. GapNoSkip'
  BY Sizes DEF GapInv, GapTypeOK, GapNoSkip, ReadMax, ReadCursor, WrapCursor
<1>5. RunOK(p)'
  <2>1. last[p] = 0 /\ last' = last
    BY Zenon DEF GapInv, RunOK, ReadMax, ReadCursor, WrapCursor
  <2> QED
    BY <1>1, <2>1, Zenon DEF RunOK
<1>6. \A q \in Runs : q # p => Waits(q)
  BY Zenon DEF Waits, GapInv, GapTypeOK, ReadMax, ReadCursor, WrapCursor, Goto
<1>7. chars \subseteq chars' /\ covered \subseteq covered' /\ gaps' = [q \in Runs |-> gaps'[q]]
  BY <1>3, Zenon DEF GapInv, ReadMax, ReadCursor, WrapCursor
<1> QED
  BY <1>3, <1>4, <1>5, <1>6, <1>7, RunStep, Zenon

(* The query gives a run its gaps, or sends it home.                       *)
LEMMA FindGapsOK ==
    ASSUME GapInv, NEW p \in Runs, FindGaps(p)
    PROVE  GapInv'
<1> DEFINE found == FindIDGapsAfter(base[p], maxSeen[p], Count)
<1>0. /\ chars \subseteq IDs /\ base[p] \in 0 .. MaxUint /\ maxSeen[p] \in 0 .. MaxUint
      /\ Count \in Nat \ {0} /\ UNCHANGED <<chars, cursor, covered, failures>>
  BY CharactersAssumption, Sizes, Zenon DEF GapInv, GapTypeOK, FindGaps
<1>1. CASE Return(p)
  BY <1>0, <1>1, ReturnOK, Zenon DEF GapInv, GapTypeOK, GapNoSkip
<1>2. CASE /\ found # <<>>
           /\ gaps' = [gaps EXCEPT ![p] = found]
           /\ left' = [left EXCEPT ![p] = Count]
           /\ Goto(p, "publish")
           /\ UNCHANGED <<maxSeen, base, last>>
  <2>1. /\ found \in Seq(Gap)
        /\ \A k \in DOMAIN found : found[k] \in Trimmed(base[p], maxSeen[p])
        /\ \A j, k \in DOMAIN found : j < k => found[j].to + 1 < found[k].from
        /\ FoundFirst(found, base[p], maxSeen[p])
    BY <1>0, FindOK, Zenon
  <2> HIDE DEF found
  <2>2. \A k \in DOMAIN found : /\ found[k].from \in IDs /\ found[k].to \in IDs
                                /\ found[k].from <= found[k].to /\ base[p] < found[k].from
                                /\ found[k].to <= maxSeen[p]
    BY <1>0, <2>1, FoundMissing, Zenon
  <2>3. /\ stage'[p] = "publish" /\ gaps'[p] = found /\ left'[p] = Count
        /\ base'[p] = base[p] /\ last'[p] = last[p] /\ Reached' = Reached
    BY <1>0, <1>2, Zenon DEF GapInv, GapTypeOK, Goto, Reached
  <2>4. Publishing(p)'
    <3>1. Len(found) \in DOMAIN found /\ 1 \in DOMAIN found
      BY <1>2, <2>1
    <3>2. last[p] < found[1].from
      <4>1. last[p] = 0
        BY Zenon DEF FindGaps, GapInv, RunOK
      <4> QED
        BY <2>2, <3>1, <4>1 DEF IDs
    <3>3. \A j, k \in DOMAIN found : j < k => found[j].to < found[k].from
      BY <2>1, <2>2 DEF IDs
    <3>4. ASSUME NEW i \in IDs, base[p] < i, i <= found[Len(found)].to, i \notin Reached
          PROVE  \E k \in DOMAIN found : found[k].from <= i /\ i <= found[k].to
      <4>1. i <= maxSeen[p] /\ ~(found[Len(found)].to < i)
        BY <1>0, <2>2, <3>1, <3>4 DEF IDs
      <4> QED
        BY <2>1, <3>4, <4>1, Zenon DEF FoundFirst, Reached
    <3> QED
      BY <1>0, <1>2, <2>2, <2>3, <3>2, <3>3, <3>4 DEF Publishing
  <2>5. GapTypeOK' /\ gaps' = [q \in Runs |-> gaps'[q]] /\ GapNoSkip'
    <3>1. \A q \in Runs : gaps'[q] \in Seq(Gap)
      BY <1>2, <2>1, Zenon DEF GapInv, GapTypeOK
    <3>2. left' \in [Runs -> 0 .. Count]
      BY <1>0, <1>2 DEF GapInv, GapTypeOK
    <3>3. stage' \in [Runs -> {"idle", "cursor", "wrap", "scan", "publish", "advance"}]
      BY <1>2, Zenon DEF GapInv, GapTypeOK, Goto
    <3> QED
      BY <1>0, <1>2, <3>1, <3>2, <3>3, Zenon DEF GapInv, GapTypeOK, GapNoSkip
  <2>6. RunOK(p)'
    BY <2>3, <2>4, Zenon DEF RunOK
  <2>7. \A q \in Runs : q # p => Waits(q)
    BY <1>2, Zenon DEF Waits, GapInv, GapTypeOK, Goto
  <2> QED
    BY <1>0, <2>5, <2>6, <2>7, RunStep, Zenon
<1> QED
  BY <1>1, <1>2, Zenon DEF FindGaps

(* The gaps of a publishing run, and the chunk of the first one.           *)
LEMMA ChunkOK ==
    ASSUME GapInv, NEW p \in Runs, stage[p] = "publish"
    PROVE  /\ gaps[p] \in Seq(Gap) /\ gaps[p] # <<>> /\ Head(gaps[p]) = gaps[p][1]
           /\ \A k \in DOMAIN gaps[p] : gaps[p][k].from \in IDs /\ gaps[p][k].to \in IDs
           /\ gapEnd(p) \in gaps[p][1].from .. gaps[p][1].to
           /\ gapEnd(p) \in IDs /\ gaps[p][1].from .. gapEnd(p) \subseteq IDs
<1>1. gaps[p] \in Seq(Gap) /\ gaps[p] # <<>> /\ Publishing(p)
  BY Zenon DEF GapInv, GapTypeOK, RunOK, Publishing
<1>2. 1 \in DOMAIN gaps[p] /\ Head(gaps[p]) = gaps[p][1]
  BY <1>1
<1>3. \A k \in DOMAIN gaps[p] : gaps[p][k] \in Gap
  BY <1>1
<1>4. \A k \in DOMAIN gaps[p] : gaps[p][k].from \in IDs /\ gaps[p][k].to \in IDs
  BY <1>3, Zenon DEF Gap
<1>5. /\ gaps[p][1].from \in 1 .. MaxUint /\ gaps[p][1].to \in 1 .. MaxUint
      /\ gaps[p][1].from <= gaps[p][1].to
  BY <1>1, <1>2, <1>4, Zenon DEF IDs, Publishing
<1>6. gapEnd(p) \in gaps[p][1].from .. gaps[p][1].to
  <2>1. gapEnd(p) = chunkEnd(gaps[p][1].from, gaps[p][1].to)
    BY <1>2, Zenon DEF gapEnd
  <2>2. gaps[p][1].from \in 0 .. MaxUint /\ gaps[p][1].to \in 0 .. MaxUint
    BY <1>5
  <2> QED
    BY <1>5, <2>1, <2>2, ChunkInside
<1>7. gapEnd(p) \in IDs /\ gaps[p][1].from .. gapEnd(p) \subseteq IDs
  BY <1>5, <1>6, Sizes DEF IDs
<1> QED
  BY <1>1, <1>2, <1>4, <1>6, <1>7, Zenon

(* The IDs before the first gap are stored or queued.                      *)
LEMMA BeforeFirst ==
    ASSUME GapInv, NEW p \in Runs, stage[p] = "publish",
           NEW i \in IDs, base[p] < i, i < gaps[p][1].from
    PROVE  i \in Reached
<1> DEFINE g == gaps[p]
<1>1. g \in Seq(Gap) /\ g # <<>> /\ \A k \in DOMAIN g : g[k].from \in IDs /\ g[k].to \in IDs
  BY ChunkOK, Zenon
<1>2. Publishing(p)
  BY Zenon DEF GapInv, RunOK
<1>3. 1 \in DOMAIN g /\ Len(g) \in DOMAIN g /\ Len(g) \in Nat /\ DOMAIN g = 1 .. Len(g)
  BY <1>1
<1>4. \A k \in DOMAIN g : i < g[k].from /\ i <= g[k].to
  <2> SUFFICES ASSUME NEW k \in DOMAIN g PROVE i < g[k].from /\ i <= g[k].to
    BY Zenon
  <2>1. k = 1 \/ g[1].to < g[k].from
    BY <1>2, <1>3 DEF Publishing
  <2>2. g[1].from <= g[1].to /\ g[k].from <= g[k].to
    BY <1>2, <1>3, Zenon DEF Publishing
  <2> QED
    BY <1>1, <1>3, <2>1, <2>2 DEF IDs
<1>5. \A k \in DOMAIN g : ~(g[k].from <= i)
  BY <1>1, <1>4 DEF IDs
<1> QED
  BY <1>2, <1>3, <1>4, <1>5, Zenon DEF Publishing

(* Queueing the chunk covers the IDs up to its end.                        *)
LEMMA QueuedOK ==
    ASSUME GapInv, NEW p \in Runs, stage[p] = "publish", GapQueued(p), UNCHANGED chars
    PROVE  /\ covered \subseteq covered' /\ covered' \in SUBSET IDs 
           /\ \A i \in IDs : base[p] < i /\ i <= gapEnd(p) => i \in Reached'
<1>1. covered' = covered \cup (gaps[p][1].from .. gapEnd(p))
  BY ChunkOK, Zenon DEF GapQueued
<1>2. covered \subseteq covered' /\ covered' \in SUBSET IDs
  BY <1>1, ChunkOK, Zenon DEF GapInv, GapTypeOK
<1>3. ASSUME NEW i \in IDs, base[p] < i, i <= gapEnd(p)
      PROVE  i \in Reached'
  <2>1. CASE i < gaps[p][1].from
    BY <1>2, <1>3, <2>1, BeforeFirst, Zenon DEF Reached
  <2>2. CASE ~(i < gaps[p][1].from)
    <3>1. gaps[p][1].from \in Int /\ gapEnd(p) \in Int /\ i \in Int
      BY ChunkOK, Sizes DEF IDs
    <3> QED
      BY <1>1, <1>3, <2>2, <3>1 DEF Reached
  <2> QED
    BY <2>1, <2>2, Zenon
<1> QED
  BY <1>2, <1>3, Zenon

(* What is left after a chunk: the rest of the first gap and the others.   *)
LEMMA RemainingOK ==
    ASSUME GapInv, NEW p \in Runs, stage[p] = "publish", Remaining(p) # <<>>
    PROVE  LET r == Remaining(p) IN
           /\ r \in Seq(Gap) /\ gapEnd(p) < r[1].from
           /\ \A k \in DOMAIN r : r[k].from <= r[k].to
           /\ \A j, k \in DOMAIN r : j < k => r[j].to < r[k].from
           /\ r[Len(r)].to = gaps[p][Len(gaps[p])].to
           /\ \A i \in IDs, k \in DOMAIN gaps[p] :
                 gapEnd(p) < i /\ gaps[p][k].from <= i /\ i <= gaps[p][k].to =>
                     \E m \in DOMAIN r : r[m].from <= i /\ i <= r[m].to
<1> DEFINE g == gaps[p]
           e == gapEnd(p)
           r == Remaining(p)
           rest == [from |-> e + 1, to |-> g[1].to]
<1>1. /\ g \in Seq(Gap) /\ g # <<>> /\ Head(g) = g[1] /\ e \in g[1].from .. g[1].to
      /\ \A k \in DOMAIN g : g[k].from \in IDs /\ g[k].to \in IDs
  BY ChunkOK, Zenon
<1>2. /\ \A k \in DOMAIN g : g[k].from <= g[k].to
      /\ \A j, k \in DOMAIN g : j < k => g[j].to < g[k].from
  BY Zenon DEF GapInv, RunOK, Publishing
<1>3. r = IF e = g[1].to THEN Tail(g) ELSE <<rest>> \o Tail(g)
  BY <1>1, Zenon DEF Remaining
<1>4. r # <<>>
  BY Zenon
<1> HIDE DEF g, e, r
<1>5. /\ Len(g) \in Nat /\ Len(g) >= 1 /\ DOMAIN g = 1 .. Len(g) /\ Tail(g) \in Seq(Gap)
      /\ Len(Tail(g)) = Len(g) - 1 /\ \A k \in 1 .. Len(g) - 1 : Tail(g)[k] = g[k + 1]
  BY <1>1
<1>6. \A k \in DOMAIN g : g[k].from \in 1 .. MaxUint /\ g[k].to \in 1 .. MaxUint
  BY <1>1, Zenon DEF IDs
<1>7. e \in 1 .. MaxUint /\ e <= g[1].to /\ 1 \in DOMAIN g
  BY <1>1, <1>5, <1>6, Sizes, SMTT(30)
<1>8. CASE e = g[1].to
  <2>1. /\ r \in Seq(Gap) /\ DOMAIN r = 1 .. Len(g) - 1 /\ Len(r) = Len(g) - 1 /\ Len(g) >= 2
        /\ \A k \in 1 .. Len(g) - 1 : r[k] = g[k + 1] /\ k + 1 \in DOMAIN g
    BY <1>3, <1>4, <1>5, <1>8
  <2>2. e < r[1].from
    BY <1>2, <1>5, <1>8, <2>1
  <2>3. \A k \in DOMAIN r : r[k].from <= r[k].to
    BY <1>2, <1>5, <2>1, Zenon
  <2>4. ASSUME NEW j \in DOMAIN r, NEW k \in DOMAIN r, j < k
        PROVE  r[j].to < r[k].from
    <3>1. j + 1 < k + 1 /\ j + 1 \in DOMAIN g /\ k + 1 \in DOMAIN g
      BY <1>5, <2>1, <2>4
    <3>2. g[j + 1].to < g[k + 1].from
      BY <1>2, <3>1, Zenon
    <3> QED
      BY <2>1, <3>2, Zenon
  <2>5. r[Len(r)].to = g[Len(g)].to
    BY <1>5, <2>1
  <2>6. ASSUME NEW i \in IDs, NEW k \in DOMAIN g, e < i, g[k].from <= i, i <= g[k].to
        PROVE  \E m \in DOMAIN r : r[m].from <= i /\ i <= r[m].to
    <3>1. k # 1
      BY <1>6, <1>7, <1>8, <2>6 DEF IDs
    <3>2. k - 1 \in DOMAIN r /\ r[k - 1] = g[k]
      BY <1>5, <2>1, <3>1
    <3> QED
      BY <2>6, <3>2, Zenon
  <2> QED
    BY <2>1, <2>2, <2>3, <2>4, <2>5, <2>6, Zenon DEF g, e, r
<1>9. CASE e # g[1].to
  <2>1. rest \in Gap /\ rest.from = e + 1 /\ rest.to = g[1].to /\ e + 1 <= g[1].to
    BY <1>6, <1>7, <1>9, Sizes DEF Gap, IDs
  <2> HIDE DEF rest
  <2>2. <<rest>> \in Seq(Gap) /\ Len(<<rest>>) = 1 /\ <<rest>>[1] = rest
    BY <2>1
  <2>3. /\ r \in Seq(Gap) /\ Len(r) = Len(g) /\ DOMAIN r = 1 .. Len(g)
        /\ r[1] = rest /\ \A k \in 2 .. Len(g) : r[k] = g[k]
    BY <1>3, <1>5, <1>9, <2>2
  <2>4. \A k \in DOMAIN r : r[k].to = g[k].to /\ g[k].from <= r[k].from /\ r[k].from <= r[k].to
    <3> SUFFICES ASSUME NEW k \in DOMAIN r
                 PROVE  r[k].to = g[k].to /\ g[k].from <= r[k].from /\ r[k].from <= r[k].to
      BY Zenon
    <3>1. CASE k = 1
      <4>1. g[1].from <= e /\ g[1].from \in Int /\ e \in Int
        BY <1>1, <1>6, <1>7
      <4> QED
        BY <2>1, <2>3, <3>1, <4>1
    <3>2. CASE k # 1
      <4>1. r[k] = g[k] /\ k \in DOMAIN g
        BY <1>5, <2>3, <3>2
      <4> QED
        BY <1>2, <1>6, <4>1
    <3> QED
      BY <3>1, <3>2, Zenon
  <2>5. ASSUME NEW j \in DOMAIN r, NEW k \in DOMAIN r, j < k
        PROVE  r[j].to < r[k].from
    <3>1. j \in DOMAIN g /\ k \in DOMAIN g /\ k \in 2 .. Len(g)
      BY <1>5, <2>3, <2>5
    <3> QED
      BY <1>2, <2>3, <2>4, <2>5, <3>1, Zenon
  <2>6. r[Len(r)].to = g[Len(g)].to
    BY <1>5, <2>3, <2>4
  <2>7. e < r[1].from
    BY <1>7, <2>1, <2>3
  <2>8. ASSUME NEW i \in IDs, NEW k \in DOMAIN g, e < i, g[k].from <= i, i <= g[k].to
        PROVE  \E m \in DOMAIN r : r[m].from <= i /\ i <= r[m].to
    <3>1. k \in DOMAIN r
      BY <1>5, <2>3, Zenon
    <3>2. CASE k = 1
      BY <1>7, <2>1, <2>3, <2>8, <3>1, <3>2 DEF IDs
    <3>3. CASE k # 1
      <4>1. r[k] = g[k]
        BY <1>5, <2>3, <3>3
      <4> QED
        BY <2>8, <3>1, <4>1, Zenon
    <3> QED
      BY <3>2, <3>3, Zenon
  <2> QED
    BY <2>3, <2>4, <2>5, <2>6, <2>7, <2>8, Zenon DEF g, e, r
<1> QED
  BY <1>8, <1>9, Zenon

(* One published job: the run goes on with the rest, turns to the cursor   *)
(* or returns.                                                             *)
LEMMA PublishJobOK ==
    ASSUME GapInv, NEW p \in Runs, PublishJob(p)
    PROVE  GapInv'
<1>0. stage[p] = "publish" /\ GapQueued(p) /\ UNCHANGED <<chars, cursor, failures>>
  BY Zenon DEF PublishJob
<1>1. /\ covered \subseteq covered' /\ covered' \in SUBSET IDs /\ Reached \subseteq Reached'
      /\ \A i \in IDs : base[p] < i /\ i <= gapEnd(p) => i \in Reached'
  BY <1>0, QueuedOK, Zenon DEF Reached
<1>2. /\ GapNoSkip' /\ chars \subseteq chars' /\ chars' \in SUBSET Population
      /\ cursor' \in 0 .. MaxUint /\ failures' \in 0 .. MaxFailures
  BY <1>0, <1>1, Zenon DEF GapInv, GapTypeOK, GapNoSkip, Reached
<1>3. gapEnd(p) \in 0 .. MaxUint
  BY <1>0, ChunkOK, Sizes DEF IDs
<1>4. CASE Return(p)
  BY <1>1, <1>2, <1>4, ReturnOK, Zenon
<1>5. CASE /\ Goto(p, "advance")
           /\ gaps' = [gaps EXCEPT ![p] = <<>>]
           /\ last' = [last EXCEPT ![p] = gapEnd(p)]
           /\ UNCHANGED <<maxSeen, base, left>>
  <2>0. gaps' = [q \in Runs |-> gaps'[q]] /\ \A q \in Runs : gaps'[q] = gaps[q] \/ gaps'[q] = <<>>
    BY <1>5, Zenon DEF GapInv
  <2>1. gaps' = [q \in Runs |-> gaps'[q]] /\ \A q \in Runs : gaps'[q] \in Seq(Gap)
    <3>1. <<>> \in Seq(Gap) /\ \A q \in Runs : gaps[q] \in Seq(Gap)
      BY DEF GapInv, GapTypeOK
    <3> QED
      BY <2>0, <3>1, Zenon
  <2>2. GapTypeOK'
    BY <1>1, <1>2, <1>3, <1>5, <2>1, Zenon DEF GapInv, GapTypeOK, Goto
  <2>3. stage'[p] = "advance" /\ last'[p] = gapEnd(p) /\ base'[p] = base[p]
    BY <1>5, Zenon DEF GapInv, GapTypeOK, Goto
  <2>4. RunOK(p)'
    BY <1>1, <2>3, Zenon DEF RunOK, Advancing
  <2>5. \A q \in Runs : q # p => Waits(q)
    BY <1>5, Zenon DEF Waits, GapInv, GapTypeOK, Goto
  <2> QED
    BY <1>1, <1>2, <2>1, <2>2, <2>4, <2>5, RunStep, Zenon
<1>6. CASE /\ Remaining(p) # <<>> /\ left[p] # 1
           /\ gaps' = [gaps EXCEPT ![p] = Remaining(p)]
           /\ left' = [left EXCEPT ![p] = @ - 1]
           /\ last' = [last EXCEPT ![p] = gapEnd(p)]
           /\ UNCHANGED <<stage, maxSeen, base>>
  <2> DEFINE r == Remaining(p)
             g == gaps[p]
  <2>1. /\ r \in Seq(Gap) /\ gapEnd(p) < r[1].from
        /\ \A k \in DOMAIN r : r[k].from <= r[k].to
        /\ \A j, k \in DOMAIN r : j < k => r[j].to < r[k].from
        /\ r[Len(r)].to = g[Len(g)].to
        /\ \A i \in IDs, k \in DOMAIN g :
              gapEnd(p) < i /\ g[k].from <= i /\ i <= g[k].to =>
                  \E m \in DOMAIN r : r[m].from <= i /\ i <= r[m].to
    BY <1>0, <1>6, RemainingOK, Zenon
  <2>2. Publishing(p)
    BY <1>0, Zenon DEF GapInv, RunOK
  <2>3. left[p] \in 1 .. Count /\ left[p] - 1 \in 1 .. Count
    BY <1>6, <2>2, Sizes DEF GapInv, GapTypeOK, Publishing
  <2>4. /\ stage'[p] = "publish" /\ gaps'[p] = r /\ left'[p] = left[p] - 1
        /\ last'[p] = gapEnd(p) /\ base'[p] = base[p]
    BY <1>0, <1>6, Zenon DEF GapInv, GapTypeOK
  <2>5. gaps' = [q \in Runs |-> gaps'[q]] /\ \A q \in Runs : gaps'[q] \in Seq(Gap)
    BY <1>6, <2>1, Zenon DEF GapInv, GapTypeOK
  <2>6. left' \in [Runs -> 0 .. Count]
    BY <1>6, <2>3, Sizes DEF GapInv, GapTypeOK
  <2>7. GapTypeOK'
    BY <1>1, <1>2, <1>3, <1>6, <2>5, <2>6, Zenon DEF GapInv, GapTypeOK
  <2> HIDE DEF r
  <2>8. ASSUME NEW i \in IDs, base[p] < i, i <= r[Len(r)].to, i \notin Reached'
        PROVE  \E k \in DOMAIN r : r[k].from <= i /\ i <= r[k].to
    <3>1. i \notin Reached /\ gapEnd(p) < i
      BY <1>1, <1>3, <2>8 DEF IDs
    <3>2. PICK k \in DOMAIN g : g[k].from <= i /\ i <= g[k].to
      BY <2>1, <2>2, <2>8, <3>1, Zenon DEF Publishing
    <3> QED
      BY <2>1, <3>1, <3>2, Zenon
  <2>9. Publishing(p)'
    BY <1>6, <2>1, <2>3, <2>4, <2>8, SMTT(30) DEF Publishing, r
  <2>10. RunOK(p)'
    BY <2>4, <2>9, Zenon DEF RunOK
  <2>11. \A q \in Runs : q # p => Waits(q)
    BY <1>6, Zenon DEF Waits, GapInv, GapTypeOK
  <2> QED
    BY <1>1, <1>2, <2>5, <2>7, <2>10, <2>11, RunStep
<1> QED
  BY <1>4, <1>5, <1>6, Zenon DEF PublishJob

(* A failed publish: the confirmed jobs end before the gaps that are left. *)
LEMMA PublishFailsOK ==
    ASSUME GapInv, NEW p \in Runs, GapPublishFails(p)
    PROVE  GapInv'
<1>0. /\ stage[p] = "publish" /\ UNCHANGED <<chars, cursor>>
      /\ failures' \in 0 .. MaxFailures
  BY Sizes DEF GapPublishFails, Failure, GapInv, GapTypeOK
<1>1. covered \subseteq covered' /\ covered' \in SUBSET IDs /\ Reached \subseteq Reached'
  BY <1>0, QueuedOK, Zenon DEF GapPublishFails, GapInv, GapTypeOK, Reached
<1>2. /\ GapNoSkip' /\ chars \subseteq chars' /\ chars' \in SUBSET Population
      /\ cursor' \in 0 .. MaxUint
  BY <1>0, <1>1, Zenon DEF GapInv, GapTypeOK, GapNoSkip, Reached
<1>3. CASE Return(p)
  BY <1>0, <1>1, <1>2, <1>3, ReturnOK, Zenon
<1>4. CASE Goto(p, "advance") /\ UNCHANGED <<maxSeen, base, gaps, left, last>>
  <2>1. GapTypeOK' /\ gaps' = [q \in Runs |-> gaps'[q]]
    BY <1>0, <1>1, <1>2, <1>4, Zenon DEF GapInv, GapTypeOK, Goto
  <2>2. stage'[p] = "advance" /\ last'[p] = last[p] /\ base'[p] = base[p]
    BY <1>4, Zenon DEF GapInv, GapTypeOK, Goto
  <2>3. last[p] < gaps[p][1].from /\ last[p] \in Int /\ gaps[p][1].from \in Int
    <3>1. gaps[p] \in Seq(Gap) /\ gaps[p] # <<>> /\ \A k \in DOMAIN gaps[p] : gaps[p][k].from \in IDs
      BY <1>0, ChunkOK, Zenon
    <3>2. 1 \in DOMAIN gaps[p]
      BY <3>1
    <3> QED
      BY <1>0, <3>1, <3>2 DEF GapInv, GapTypeOK, RunOK, Publishing, IDs
  <2>4. ASSUME NEW i \in IDs, base[p] < i, i <= last[p]
        PROVE  i \in Reached'
    <3>1. i < gaps[p][1].from
      BY <2>3, <2>4 DEF IDs
    <3> QED
      BY <1>0, <1>1, <2>4, <3>1, BeforeFirst, Zenon
  <2>5. RunOK(p)'
    BY <2>2, <2>4, Zenon DEF RunOK, Advancing
  <2>6. \A q \in Runs : q # p => Waits(q)
    BY <1>4, Zenon DEF Waits, GapInv, GapTypeOK, Goto
  <2> QED
    BY <1>1, <1>2, <2>1, <2>5, <2>6, RunStep, Zenon
<1> QED
  BY <1>3, <1>4, Zenon DEF GapPublishFails

(* The compare-and-set moves the cursor over IDs that are stored or queued.*)
LEMMA AdvanceOK ==
    ASSUME GapInv, NEW p \in Runs, AdvanceFillGapsCursor(p)
    PROVE  GapInv'
<1>1. Advancing(p) /\ last[p] \in 0 .. MaxUint /\ base[p] \in 0 .. MaxUint /\ cursor \in 0 .. MaxUint
  BY Zenon DEF AdvanceFillGapsCursor, GapInv, RunOK, GapTypeOK
<1>2. Return(p) /\ UNCHANGED <<chars, covered, failures>> /\ Reached' = Reached
  BY Zenon DEF AdvanceFillGapsCursor, Reached
<1>3. cursor' = cursor \/ (cursor = base[p] /\ cursor' = last[p])
  BY Zenon DEF AdvanceFillGapsCursor
<1>4. 1 .. cursor \subseteq Reached
  BY Zenon DEF GapInv, GapNoSkip, Reached
<1>5. ASSUME NEW i \in 1 .. cursor'
      PROVE  i \in Reached
  <2>1. CASE cursor' = cursor
    BY <1>4, <2>1, Zenon
  <2>2. CASE cursor = base[p] /\ cursor' = last[p]
    <3>1. i \in IDs /\ i <= last[p]
      BY <1>1, <2>2, Sizes DEF IDs
    <3>2. base[p] < i \/ i \in 1 .. cursor
      BY <1>1, <2>2, <3>1 DEF IDs
    <3> QED
      BY <1>1, <1>4, <3>1, <3>2, Zenon DEF Advancing
  <2> QED
    BY <1>3, <2>1, <2>2, Zenon
<1>6. GapNoSkip' /\ cursor' \in 0 .. MaxUint
  BY <1>1, <1>2, <1>3, <1>5, Zenon DEF GapNoSkip, Reached
<1> QED
  BY <1>2, <1>6, ReturnOK, Zenon DEF GapInv, GapTypeOK

(* A consumer stores a character, of either sweep.                         *)
LEMMA StoreGapsOK ==
    ASSUME GapInv, NEW i, StoreCharacter(i), UNCHANGED <<cursor, runVars, covered, failures>>
    PROVE  GapInv'
<1>1. /\ UNCHANGED <<cursor, stage, maxSeen, base, gaps, left, last, covered, failures>>
      /\ chars \subseteq chars' /\ chars' \in SUBSET Population
  BY Zenon DEF StoreCharacter, runVars, GapInv, GapTypeOK
<1>2. \A q \in Runs : RunOK(q)'
  BY <1>1, RunKept, Zenon
<1>3. GapNoSkip'
  BY <1>1, Zenon DEF GapInv, GapNoSkip
<1> QED
  BY <1>1, <1>2, <1>3, Zenon DEF GapInv, GapTypeOK

(* A run that rests.                                                       *)
LEMMA RestGapsOK == ASSUME GapInv, UNCHANGED gapVars PROVE GapInv'
<1>1. UNCHANGED <<chars, cursor, stage, maxSeen, base, gaps, left, last, covered, failures>>
  BY Zenon DEF gapVars, runVars
<1>2. \A q \in Runs : RunOK(q)'
  BY <1>1, RunKept, Zenon
<1> QED
  BY <1>1, <1>2, Zenon DEF GapInv, GapTypeOK, GapNoSkip

(* A step of any run.                                                      *)
LEMMA GapStepOK == ASSUME GapInv, GapStep PROVE GapInv'
<1>1. ASSUME NEW p \in Scanners, ScannerStep(p)
      PROVE  GapInv'
  <2>1. p \in Runs /\ 0 \in MinIDs \cup {0}
    BY Zenon DEF Runs
  <2> QED
    BY <1>1, <2>1, ReadOK, FindGapsOK, PublishJobOK, AdvanceOK, Zenon DEF ScannerStep
<1>2. ASSUME NEW p \in Manual, ManualStep(p)
      PROVE  GapInv'
  <2>1. p \in Runs
    BY Zenon DEF Runs
  <2> QED
    BY <1>2, <2>1, ReadOK, FindGapsOK, PublishJobOK, Zenon DEF ManualStep
<1>3. ASSUME NEW p \in Runs, Crash(p)
      PROVE  GapInv'
  <2>1. Return(p) /\ UNCHANGED <<chars, cursor, covered>> /\ failures' \in 0 .. MaxFailures
    BY <1>3, Sizes DEF Crash, Failure, GapInv, GapTypeOK
  <2> QED
    BY <2>1, ReturnOK, Zenon DEF GapInv, GapTypeOK, GapNoSkip
<1> QED
  BY <1>1, <1>2, <1>3, PublishFailsOK, Zenon DEF GapStep

(* The invariant holds in every state.                                     *)
LEMMA GapInvariance == GapSpec => []GapInv
<1>1. GapInv /\ [GapNext]_gapVars => GapInv'
  BY GapStepOK, StoreGapsOK, RestGapsOK, Zenon DEF GapNext
<1> QED
  BY <1>1, GapInitOK, PTL DEF GapSpec

(* The cursor, what the runs know and the queued IDs stay within the IDs   *)
(* and the count (publishFillGapsIDSweep, FindIDGapsAfter).                *)
THEOREM GapTypeTheorem == GapSpec => []GapTypeOK
BY GapInvariance, PTL DEF GapInv

(* However many scanners and manual runs overlap, use stale maxima and     *)
(* cursors, fail or die, every ID at or below the fill-gaps cursor is      *)
(* stored or queued (publishFillGapsIDSweep, AdvanceFillGapsCursor).       *)
THEOREM GapNoSkipTheorem == GapSpec => []GapNoSkip
BY GapInvariance, PTL DEF GapInv

(* Whatever characters are stored, the gaps-and-islands query with its     *)
(* trimming finds exactly the missing IDs after the cursor and up to the   *)
(* maximum, as maximal ranges in ascending order (FindIDGapsAfter).        *)
THEOREM GapsExactTheorem == GapSpec => []GapsExact
<1>1. GapInv => GapsExact
  <2> SUFFICES ASSUME GapInv PROVE GapsExact
    BY Zenon
  <2>1. chars \subseteq IDs
    BY CharactersAssumption, Zenon DEF GapInv, GapTypeOK
  <2> QED
    BY <2>1, QueryExact, Zenon
<1> QED
  BY <1>1, GapInvariance, PTL

-----------------------------------------------------------------------------
(* Why the sweep hardly ever restarts.  What a run knows of MaxID stays a  *)
(* stored ID, the gaps it found end below it, and so does its last job.    *)
Bounded(p) ==
    /\ stage[p] # "idle" => maxSeen[p] \in chars
    /\ stage[p] = "publish" => gaps[p][Len(gaps[p])].to < maxSeen[p]
    /\ last[p] = 0 \/ (stage[p] # "idle" /\ last[p] < maxSeen[p])
    /\ stage[p] = "cursor" /\ Scanners = {p} => cursor < maxSeen[p]
    /\ stage[p] = "wrap" => Scanners # {p} /\ \E c \in chars : maxSeen[p] < c

WrapInv == WrapIsStale /\ \A p \in Runs : Bounded(p)

(* A run that waits; only a scanner moves the cursor.                      *)
LEMMA BoundedKept ==
    ASSUME NEW q \in Runs, Bounded(q), chars \subseteq chars', cursor' = cursor \/ Scanners # {q},
           stage'[q] = stage[q], maxSeen'[q] = maxSeen[q], gaps'[q] = gaps[q], last'[q] = last[q]
    PROVE  Bounded(q)'
BY Zenon DEF Bounded

(* A step of one run.                                                      *)
LEMMA BoundedStep ==
    ASSUME WrapInv, NEW p \in Runs, chars \subseteq chars', Bounded(p)',
           cursor' = cursor \/ (p \in Scanners /\ (cursor' = 0 \/ \E c \in chars : cursor' < c)),
           \A q \in Runs : q # p => /\ stage'[q] = stage[q] /\ maxSeen'[q] = maxSeen[q]
                                    /\ gaps'[q] = gaps[q] /\ last'[q] = last[q]
    PROVE  WrapInv'
<1>1. ASSUME NEW q \in Runs
      PROVE  Bounded(q)'
  <2>1. CASE q = p
    BY <2>1, Zenon
  <2>2. CASE q # p
    <3>1. cursor' = cursor \/ Scanners # {q}
      BY <2>2, Zenon
    <3> QED
      BY <2>2, <3>1, BoundedKept, Zenon DEF WrapInv
  <2> QED
    BY <2>1, <2>2, Zenon
<1>2. cursor' = 0 \/ \E c \in chars' : cursor' < c
  BY Zenon DEF WrapInv, WrapIsStale
<1>3. \A q \in Scanners :
          stage'[q] = "wrap" => Scanners # {q} /\ \E c \in chars' : maxSeen'[q] < c
  BY <1>1, Zenon DEF Bounded, Runs
<1> QED
  BY <1>1, <1>2, <1>3, Zenon DEF WrapInv, WrapIsStale

(* A run that returns.                                                     *)
LEMMA BoundedReturn ==
    ASSUME GapInv, WrapInv, NEW p \in Runs, Return(p), UNCHANGED chars,
           cursor' = cursor \/ (p \in Scanners /\ (cursor' = 0 \/ \E c \in chars : cursor' < c))
    PROVE  WrapInv'
<1>1. stage'[p] = "idle" /\ last'[p] = 0
  BY Zenon DEF GapInv, GapTypeOK, Return, Goto
<1>2. Bounded(p)'
  BY <1>1, Zenon DEF Bounded
<1>3. ASSUME NEW q \in Runs, q # p
      PROVE  /\ stage'[q] = stage[q] /\ maxSeen'[q] = maxSeen[q]
             /\ gaps'[q] = gaps[q] /\ last'[q] = last[q]
  BY <1>3, Zenon DEF GapInv, GapTypeOK, Return, Goto
<1> QED
  BY <1>2, <1>3, BoundedStep, Zenon

(* Reading the maximum, the cursor, and wrapping.                          *)
LEMMA BoundedRead ==
    ASSUME GapInv, WrapInv, NEW p \in Runs,
           \/ \E minID : ReadMax(p, minID)
           \/ p \in Scanners /\ (ReadCursor(p) \/ WrapCursor(p))
    PROVE  WrapInv'
<1>0. /\ chars \subseteq IDs /\ \A c \in chars : c \in 1 .. MaxUint
      /\ MaxUint \in Nat /\ cursor \in 0 .. MaxUint
  BY CharactersAssumption, Sizes, Zenon DEF GapInv, GapTypeOK, IDs
<1>1. /\ UNCHANGED <<chars, gaps, last>> /\ last[p] = 0
      /\ cursor' = cursor \/ (p \in Scanners /\ cursor' = 0)
  BY Zenon DEF ReadMax, ReadCursor, WrapCursor, GapInv, RunOK
<1>2. ASSUME NEW q \in Runs, q # p
      PROVE  stage'[q] = stage[q] /\ maxSeen'[q] = maxSeen[q]
  BY <1>2, Zenon DEF GapInv, GapTypeOK, ReadMax, ReadCursor, WrapCursor, Goto
<1>3. CASE \E minID : ReadMax(p, minID)
  <2>1. maxSeen'[p] = Max(chars) /\ stage'[p] \in {"scan", "cursor"} /\ cursor' = cursor /\ chars # {}
    BY <1>3, Zenon DEF GapInv, GapTypeOK, ReadMax, Goto
  <2>2. Max(chars) \in chars /\ \A c \in chars : c <= Max(chars)
    BY <1>0, <2>1, MaxOK, Zenon
  <2>3. cursor < Max(chars)
    BY <1>0, <2>2 DEF WrapInv, WrapIsStale
  <2>4. Bounded(p)'
    BY <1>1, <2>1, <2>2, <2>3, Zenon DEF Bounded
  <2> QED
    BY <1>1, <1>2, <2>4, BoundedStep, Zenon
<1>4. CASE p \in Scanners /\ ReadCursor(p)
  <2>1. /\ stage[p] = "cursor" /\ maxSeen'[p] = maxSeen[p] /\ cursor' = cursor
        /\ stage'[p] = IF cursor >= maxSeen[p] THEN "wrap" ELSE "scan"
    BY <1>4, Zenon DEF GapInv, GapTypeOK, ReadCursor, Goto
  <2>2. Bounded(p) /\ maxSeen[p] \in chars /\ (cursor = 0 \/ \E c \in chars : cursor < c)
    BY <2>1, Zenon DEF WrapInv, WrapIsStale, Bounded
  <2>3. cursor >= maxSeen[p] => Scanners # {p} /\ \E c \in chars : maxSeen[p] < c
    BY <1>0, <2>1, <2>2 DEF Bounded
  <2>4. Bounded(p)'
    BY <1>0, <1>1, <2>1, <2>2, <2>3, Zenon DEF Bounded
  <2> QED
    BY <1>1, <1>2, <2>4, BoundedStep
<1>5. CASE p \in Scanners /\ WrapCursor(p)
  <2>1. stage[p] = "wrap" /\ maxSeen'[p] = maxSeen[p] /\ stage'[p] = "scan"
    BY <1>5, Zenon DEF GapInv, GapTypeOK, WrapCursor, Goto
  <2>2. Bounded(p)'
    BY <1>1, <2>1, Zenon DEF Bounded, WrapInv
  <2> QED
    BY <1>1, <1>2, <2>2, BoundedStep
<1> QED
  BY <1>3, <1>4, <1>5, Zenon

(* A gap that the query found ends below the stored maximum.               *)
LEMMA BoundedFind ==
    ASSUME GapInv, WrapInv, NEW p \in Runs, FindGaps(p)
    PROVE  WrapInv'
<1> DEFINE found == FindIDGapsAfter(base[p], maxSeen[p], Count)
<1>0. /\ chars \subseteq IDs /\ base[p] \in 0 .. MaxUint /\ maxSeen[p] \in 0 .. MaxUint
      /\ Count \in Nat \ {0} /\ UNCHANGED <<chars, cursor>> /\ stage[p] = "scan"
  BY CharactersAssumption, Sizes, Zenon DEF GapInv, GapTypeOK, FindGaps
<1>1. CASE Return(p)
  BY <1>0, <1>1, BoundedReturn, Zenon
<1>2. CASE /\ found # <<>>
           /\ gaps' = [gaps EXCEPT ![p] = found]
           /\ Goto(p, "publish")
           /\ UNCHANGED <<maxSeen, last>>
  <2>1. found \in Seq(Gap) /\ \A k \in DOMAIN found : found[k] \in Trimmed(base[p], maxSeen[p])
    BY <1>0, FindOK, Zenon
  <2> HIDE DEF found
  <2>2. Len(found) \in DOMAIN found
    BY <1>2, <2>1
  <2>3. /\ found[Len(found)].to \in IDs /\ found[Len(found)].from \in IDs
        /\ found[Len(found)].to <= maxSeen[p] /\ found[Len(found)].from <= found[Len(found)].to
        /\ \A i \in found[Len(found)].from .. found[Len(found)].to : i \notin chars
    BY <1>0, <2>1, <2>2, FoundMissing, Zenon
  <2>4. maxSeen[p] \in chars /\ last[p] = 0
    BY <1>0, Zenon DEF WrapInv, Bounded, GapInv, RunOK
  <2>5. found[Len(found)].to < maxSeen[p]
    <3>1. found[Len(found)].to # maxSeen[p]
      BY <2>3, <2>4 DEF IDs
    <3> QED
      BY <1>0, <2>3, <3>1 DEF IDs
  <2>6. /\ stage'[p] = "publish" /\ gaps'[p] = found /\ maxSeen'[p] = maxSeen[p]
        /\ last'[p] = last[p]
    BY <1>2, Zenon DEF GapInv, GapTypeOK, Goto
  <2>7. Bounded(p)'
    BY <1>0, <2>4, <2>5, <2>6, Zenon DEF Bounded
  <2>8. ASSUME NEW q \in Runs, q # p
        PROVE  /\ stage'[q] = stage[q] /\ maxSeen'[q] = maxSeen[q]
               /\ gaps'[q] = gaps[q] /\ last'[q] = last[q]
    BY <1>2, <2>8, Zenon DEF GapInv, GapTypeOK, Goto
  <2> QED
    BY <1>0, <2>7, <2>8, BoundedStep, Zenon
<1> QED
  BY <1>1, <1>2, Zenon DEF FindGaps

(* A job ends in a gap that is below the maximum.                          *)
LEMMA BoundedJob ==
    ASSUME GapInv, WrapInv, NEW p \in Runs, PublishJob(p)
    PROVE  WrapInv'
<1> DEFINE g == gaps[p]
<1>0. stage[p] = "publish" /\ UNCHANGED <<chars, cursor>>
  BY Zenon DEF PublishJob
<1>1. /\ g \in Seq(Gap) /\ g # <<>> /\ \A k \in DOMAIN g : g[k].from \in IDs /\ g[k].to \in IDs
      /\ gapEnd(p) \in g[1].from .. g[1].to /\ gapEnd(p) \in IDs
  BY <1>0, ChunkOK, Zenon
<1>2. Publishing(p) /\ maxSeen[p] \in 0 .. MaxUint
  BY <1>0, Zenon DEF GapInv, RunOK, GapTypeOK
<1>3. maxSeen[p] \in chars /\ g[Len(g)].to < maxSeen[p]
  BY <1>0, Zenon DEF WrapInv, Bounded
<1>4. gapEnd(p) < maxSeen[p]
  <2>1. 1 \in DOMAIN g /\ Len(g) \in DOMAIN g /\ DOMAIN g = 1 .. Len(g) /\ Len(g) \in Nat
    BY <1>1
  <2>2. Len(g) = 1 \/ g[1].to < g[Len(g)].from
    <3>1. \A j, k \in DOMAIN g : j < k => g[j].to < g[k].from
      BY <1>2, Zenon DEF Publishing
    <3>2. Len(g) = 1 \/ 1 < Len(g)
      <4>1. \A n \in Nat : 1 \in 1 .. n => n = 1 \/ 1 < n
        OBVIOUS
      <4> QED
        BY <2>1, <4>1, Zenon
    <3> QED
      BY <2>1, <3>1, <3>2, Zenon
  <2>3. g[Len(g)].from <= g[Len(g)].to
    BY <1>2, <2>1, Zenon DEF Publishing
  <2>4. /\ g[1].from \in Int /\ g[1].to \in Int /\ g[Len(g)].from \in Int /\ g[Len(g)].to \in Int
        /\ gapEnd(p) \in Int /\ maxSeen[p] \in Int
    BY <1>1, <1>2, <2>1 DEF IDs
  <2> HIDE DEF g
  <2> QED
    BY <1>1, <1>3, <2>2, <2>3, <2>4
<1>5. CASE Return(p)
  BY <1>0, <1>5, BoundedReturn, Zenon
<1>6. CASE /\ Goto(p, "advance")
           /\ gaps' = [gaps EXCEPT ![p] = <<>>]
           /\ last' = [last EXCEPT ![p] = gapEnd(p)]
           /\ UNCHANGED maxSeen
  <2>1. stage'[p] = "advance" /\ last'[p] = gapEnd(p) /\ maxSeen'[p] = maxSeen[p]
    BY <1>6, Zenon DEF GapInv, GapTypeOK, Goto
  <2>2. Bounded(p)'
    BY <1>0, <1>3, <1>4, <2>1, Zenon DEF Bounded
  <2>3. ASSUME NEW q \in Runs, q # p
        PROVE  /\ stage'[q] = stage[q] /\ maxSeen'[q] = maxSeen[q]
               /\ gaps'[q] = gaps[q] /\ last'[q] = last[q]
    BY <1>6, <2>3, Zenon DEF GapInv, GapTypeOK, Goto
  <2> QED
    BY <1>0, <2>2, <2>3, BoundedStep, Zenon
<1>7. CASE /\ Remaining(p) # <<>>
           /\ gaps' = [gaps EXCEPT ![p] = Remaining(p)]
           /\ last' = [last EXCEPT ![p] = gapEnd(p)]
           /\ UNCHANGED <<stage, maxSeen>>
  <2>1. Remaining(p)[Len(Remaining(p))].to = g[Len(g)].to
    BY <1>0, <1>7, RemainingOK, Zenon
  <2>2. /\ stage'[p] = "publish" /\ last'[p] = gapEnd(p) /\ maxSeen'[p] = maxSeen[p]
        /\ gaps'[p] = Remaining(p)
    BY <1>0, <1>7, Zenon DEF GapInv, GapTypeOK
  <2>3. Bounded(p)'
    BY <1>0, <1>3, <1>4, <2>1, <2>2, Zenon DEF Bounded
  <2>4. ASSUME NEW q \in Runs, q # p
        PROVE  /\ stage'[q] = stage[q] /\ maxSeen'[q] = maxSeen[q]
               /\ gaps'[q] = gaps[q] /\ last'[q] = last[q]
    BY <1>7, <2>4, Zenon DEF GapInv, GapTypeOK
  <2> QED
    BY <1>0, <2>3, <2>4, BoundedStep
<1> QED
  BY <1>5, <1>6, <1>7, Zenon DEF PublishJob

(* A failed publish, and the compare-and-set.                              *)
LEMMA BoundedFails ==
    ASSUME GapInv, WrapInv, NEW p \in Runs, GapPublishFails(p)
    PROVE  WrapInv'
<1>0. stage[p] = "publish" /\ UNCHANGED <<chars, cursor>>
  BY Zenon DEF GapPublishFails
<1>1. CASE Return(p)
  BY <1>0, <1>1, BoundedReturn
<1>2. CASE Goto(p, "advance") /\ UNCHANGED <<maxSeen, gaps, last>>
  <2>1. stage'[p] = "advance"
    BY <1>2, Zenon DEF GapInv, GapTypeOK, Goto
  <2>2. Bounded(p)'
    BY <1>0, <1>2, <2>1, Zenon DEF Bounded, WrapInv
  <2>3. ASSUME NEW q \in Runs, q # p
        PROVE  stage'[q] = stage[q]
    BY <1>2, <2>3, Zenon DEF GapInv, GapTypeOK, Goto
  <2> QED
    BY <1>0, <1>2, <2>2, <2>3, BoundedStep, Zenon
<1> QED
  BY <1>1, <1>2, Zenon DEF GapPublishFails

LEMMA BoundedAdvance ==
    ASSUME GapInv, WrapInv, NEW p \in Scanners, AdvanceFillGapsCursor(p)
    PROVE  WrapInv'
<1>1. p \in Runs /\ Return(p) /\ UNCHANGED chars /\ (cursor' = cursor \/ cursor' = last[p])
  BY Zenon DEF AdvanceFillGapsCursor, Runs
<1>2. last[p] = 0 \/ (maxSeen[p] \in chars /\ last[p] < maxSeen[p])
  BY <1>1, Zenon DEF WrapInv, Bounded
<1> QED
  BY <1>1, <1>2, BoundedReturn, Zenon

(* The restart that publishFillGapsIDSweep announces is never due: the     *)
(* cursor stays below a stored ID, and only a scanner whose MaxID is stale *)
(* sends it back to 0.                                                     *)
THEOREM WrapIsStaleTheorem == GapSpec => []WrapIsStale
<1>1. GapInit => WrapInv
  BY Zenon DEF GapInit, WrapInv, WrapIsStale, Bounded, Runs
<1>2. ASSUME GapInv, WrapInv, [GapNext]_gapVars PROVE WrapInv'
  <2>1. CASE UNCHANGED gapVars
    BY <1>2, <2>1, BoundedKept, Zenon DEF gapVars, runVars, WrapInv, WrapIsStale
  <2>2. ASSUME NEW p \in Scanners, ScannerStep(p)
        PROVE  WrapInv'
    BY <1>2, <2>2, BoundedRead, BoundedFind, BoundedJob, BoundedAdvance, Zenon DEF ScannerStep, Runs
  <2>3. ASSUME NEW p \in Manual, ManualStep(p)
        PROVE  WrapInv'
    BY <1>2, <2>3, BoundedRead, BoundedFind, BoundedJob, Zenon DEF ManualStep, Runs
  <2>4. ASSUME NEW p \in Runs, Crash(p)
        PROVE  WrapInv'
    BY <1>2, <2>4, BoundedReturn, Zenon DEF Crash
  <2>5. ASSUME NEW i, StoreCharacter(i), UNCHANGED <<cursor, runVars, covered, failures>>
        PROVE  WrapInv'
    <3>1. chars \subseteq chars' /\ UNCHANGED <<cursor, stage, maxSeen, gaps, last>>
      BY <2>5, Zenon DEF StoreCharacter, runVars
    <3> QED
      BY <1>2, <3>1, BoundedKept, Zenon DEF WrapInv, WrapIsStale
  <2> QED
    BY <1>2, <2>1, <2>2, <2>3, <2>4, <2>5, BoundedFails, Zenon DEF GapNext, GapStep
<1>3. GapInv /\ WrapInv /\ [GapNext]_gapVars => WrapInv'
  BY <1>2, Zenon
<1>4. WrapInv => WrapIsStale
  BY Zenon DEF WrapInv
<1> QED
  BY <1>1, <1>3, <1>4, GapInvariance, PTL DEF GapSpec

-----------------------------------------------------------------------------
(* A batch has queued its range up to its next job; one that is about to   *)
(* advance the cursor has queued all of it.                                *)
BatchProgress ==
    \A p \in Publishers :
        /\ pc[p] # "idle" => 1 <= from[p] /\ from[p] <= at[p] /\ at[p] <= to[p]
        /\ pc[p] = "publish" => from[p] .. at[p] - 1 \subseteq published
        /\ pc[p] = "advance" => from[p] .. to[p] \subseteq published

RowCreated == (first = 0 <=> nextId = 0) /\ first <= nextId

SweepInv == TypeOK /\ BatchProgress /\ RowCreated /\ NoSkip

(* The job at the head of a batch stays inside its range.                  *)
LEMMA JobInside ==
    ASSUME TypeOK, NEW p \in Publishers, at[p] <= to[p]
    PROVE  jobEnd(p) \in 0 .. MaxUint /\ at[p] <= jobEnd(p) /\ jobEnd(p) <= to[p]
BY ChunkInside, Zenon DEF TypeOK, jobEnd

(* The ids of a chunk are ids.                                             *)
LEMMA ChunkIDs ==
    ASSUME TypeOK, NEW p \in Publishers, 1 <= at[p], at[p] <= to[p]
    PROVE  at[p] .. jobEnd(p) \subseteq IDs
<1>1. jobEnd(p) \in 0 .. MaxUint /\ at[p] \in 0 .. MaxUint
  BY JobInside, Zenon DEF TypeOK
<1>2. QED
  BY <1>1, WidthAssumption, FlagsAssumption DEF IDs

(* The first state: nothing is published and nothing is skipped.           *)
LEMMA SweepInit == Init => SweepInv
BY WidthAssumption, CharactersAssumption, FailuresAssumption, FlagsAssumption
DEF Init, SweepInv, TypeOK, BatchProgress, RowCreated, NoSkip, IDs

(* A batch that starts has published nothing of its range yet.             *)
LEMMA StartKeeps ==
    ASSUME SweepInv, NEW p \in Publishers,
           NEW lo \in 1 .. MaxUint, NEW hi \in 0 .. MaxUint, lo <= hi, StartBatch(p, lo, hi)
    PROVE  SweepInv' /\ nextId' = nextId
<1>1. TypeOK'
  BY DEF SweepInv, TypeOK, StartBatch
<1>2. BatchProgress'
  BY DEF SweepInv, TypeOK, BatchProgress, StartBatch
<1>3. QED
  BY <1>1, <1>2, Zenon DEF SweepInv, RowCreated, NoSkip, StartBatch

(* A chunk extends the published part of its range.                        *)
LEMMA ChunkKeeps ==
    ASSUME SweepInv, NEW p \in Publishers, PublishChunk(p)
    PROVE  SweepInv'
<1>1. /\ jobEnd(p) \in 0 .. MaxUint
      /\ at[p] <= jobEnd(p) /\ jobEnd(p) <= to[p]
      /\ 1 <= from[p] /\ from[p] <= at[p] /\ at[p] \in 0 .. MaxUint /\ to[p] \in 0 .. MaxUint
      /\ from[p] .. at[p] - 1 \subseteq published
  BY JobInside, Zenon DEF SweepInv, TypeOK, BatchProgress, PublishChunk
<1>2. published' = published \cup (at[p] .. jobEnd(p))
  BY Zenon DEF PublishChunk, Queued
<1>3. from[p] .. jobEnd(p) \subseteq published' /\ published \subseteq published'
  BY <1>1, <1>2
<1>4. TypeOK'
  <2>1. published' \in SUBSET IDs
    BY <1>1, <1>2, ChunkIDs, SMTT(30) DEF SweepInv, TypeOK
  <2>2. jobEnd(p) # to[p] => jobEnd(p) + 1 \in 0 .. MaxUint
    BY <1>1, WidthAssumption, FlagsAssumption
  <2>3. at' \in [Publishers -> 0 .. MaxUint]
    BY <2>2, Zenon DEF SweepInv, TypeOK, PublishChunk
  <2>4. pc' \in [Publishers -> {"idle", "publish", "advance"}]
    BY Zenon DEF SweepInv, TypeOK, PublishChunk
  <2>5. QED
    BY <2>1, <2>3, <2>4, Zenon DEF SweepInv, TypeOK, PublishChunk
<1>5. BatchProgress'
  BY <1>1, <1>3 DEF SweepInv, TypeOK, BatchProgress, PublishChunk
<1>6. QED
  BY <1>3, <1>4, <1>5, Zenon DEF SweepInv, RowCreated, NoSkip, PublishChunk

(* A publish that fails, with the chunk queued or not, ends the batch.     *)
LEMMA FailKeeps ==
    ASSUME SweepInv, NEW p \in Publishers, PublishFails(p)
    PROVE  SweepInv'
<1>1. published \subseteq published' /\ published' \in SUBSET IDs
  <2>1. CASE UNCHANGED published
    BY <2>1, Zenon DEF SweepInv, TypeOK
  <2>2. CASE pc[p] = "publish" /\ Queued(p)
    <3>1. 1 <= at[p] /\ at[p] <= to[p]
      BY <2>2 DEF SweepInv, TypeOK, BatchProgress
    <3>2. at[p] .. jobEnd(p) \subseteq IDs
      BY <3>1, ChunkIDs, Zenon DEF SweepInv
    <3>3. QED
      BY <2>2, <3>2, Zenon DEF SweepInv, TypeOK, Queued
  <2>3. QED
    BY <2>1, <2>2, Zenon DEF PublishFails
<1>2. TypeOK'
  BY <1>1, Sizes DEF SweepInv, TypeOK, PublishFails, Failure
<1>3. BatchProgress'
  BY <1>1, Zenon DEF SweepInv, TypeOK, BatchProgress, PublishFails
<1>4. QED
  BY <1>1, <1>2, <1>3, Zenon DEF SweepInv, RowCreated, NoSkip, PublishFails

(* The cursor moves over a range that is published.                        *)
LEMMA AdvanceKeeps ==
    ASSUME SweepInv, NEW p \in Publishers, AdvanceIDSweepCursor(p)
    PROVE  SweepInv' /\ nextId' >= nextId
<1>1. /\ from[p] \in 1 .. MaxUint /\ to[p] \in 0 .. MaxUint /\ from[p] <= to[p]
      /\ from[p] .. to[p] \subseteq published
  BY DEF SweepInv, TypeOK, BatchProgress, AdvanceIDSweepCursor
<1>2. nextId' = nextId \/ (nextId = from[p] /\ nextId' = to[p] + 1)
  BY Zenon DEF AdvanceIDSweepCursor
<1>3. TypeOK' /\ nextId' >= nextId
  BY <1>1, <1>2, WidthAssumption, FlagsAssumption DEF SweepInv, TypeOK, AdvanceIDSweepCursor
<1>4. BatchProgress'
  BY Zenon DEF SweepInv, TypeOK, BatchProgress, AdvanceIDSweepCursor
<1>5. RowCreated' /\ NoSkip'
  BY <1>1, <1>2
  DEF SweepInv, TypeOK, RowCreated, NoSkip, AdvanceIDSweepCursor
<1>6. QED
  BY <1>3, <1>4, <1>5, Zenon DEF SweepInv

(* A consumer stores a character, of either sweep.                         *)
LEMMA StoreKeeps ==
    ASSUME SweepInv, NEW i, StoreCharacter(i), UNCHANGED <<nextId, first, batchVars, published, failures>>
    PROVE  SweepInv'
BY Zenon DEF StoreCharacter, batchVars, SweepInv, TypeOK, BatchProgress, RowCreated, NoSkip

(* A run that rests.                                                       *)
LEMMA RestKeeps == ASSUME SweepInv, UNCHANGED vars PROVE SweepInv'
BY Zenon DEF vars, batchVars, SweepInv, TypeOK, BatchProgress, RowCreated, NoSkip

(* One step of any run or operator keeps the invariant and never moves the *)
(* cursor back.                                                            *)
LEMMA ForwardStepOK ==
    ASSUME SweepInv, ForwardStep
    PROVE  SweepInv' /\ nextId' >= nextId
<1>0. nextId \in 0 .. MaxUint + 1
  BY Zenon DEF SweepInv, TypeOK
<1>2. CASE CreateCursor
  <2>1. PICK maxId \in chars \cup {0} :
           nextId = 0 /\ nextId' = maxId + 1 /\ first' = maxId + 1
    BY <1>2, Zenon DEF CreateCursor
  <2>2. maxId \in 0 .. MaxUint
    BY WidthAssumption, CharactersAssumption, FlagsAssumption DEF SweepInv, TypeOK, IDs
  <2>3. TypeOK' /\ BatchProgress'
    BY <1>2, <2>1, <2>2, WidthAssumption, FlagsAssumption, SMTT(30)
    DEF SweepInv, TypeOK, BatchProgress, CreateCursor, batchVars
  <2>4. RowCreated' /\ NoSkip'
    BY <2>1, <2>2 DEF RowCreated, NoSkip
  <2>5. QED
    BY <2>1, <2>2, <2>3, <2>4 DEF SweepInv
<1>3. ASSUME NEW p \in Daemons, NEW count \in Counts, StartAuto(p, count)
      PROVE  SweepInv' /\ nextId' >= nextId
  <2>1. count \in 1 .. MaxUint /\ nextId \in 1 .. MaxUint /\ count <= MaxUint - nextId
    BY <1>3, WidthAssumption, FlagsAssumption, Zenon DEF StartAuto, IDs
  <2>2. Wrap(nextId + count - 1) = nextId + count - 1
    BY <2>1, WidthAssumption, FlagsAssumption DEF Wrap
  <2>3. nextId + count - 1 \in 0 .. MaxUint /\ nextId <= nextId + count - 1
    BY <2>1, WidthAssumption, FlagsAssumption
  <2>4. QED
    BY <1>0, <1>3, <2>1, <2>2, <2>3, StartKeeps, SMTT(30) DEF StartAuto, Publishers
<1>4. ASSUME NEW p \in Operators, NEW lo \in Flags, NEW hi \in Flags, NEW count \in Counts,
             StartRange(p, lo, hi, count)
      PROVE  SweepInv' /\ nextId' >= nextId
  <2>1. lo \in 0 .. MaxUint /\ hi \in 0 .. MaxUint /\ count \in 1 .. MaxUint
    BY WidthAssumption, FlagsAssumption, Zenon
  <2>2. rangeFrom(lo) \in 1 .. MaxUint
    BY <2>1, WidthAssumption, FlagsAssumption DEF rangeFrom
  <2>3. rangeTo(lo, hi, count) \in 0 .. MaxUint
    BY <2>1, WrapType, WidthAssumption, FlagsAssumption, SMTT(30) DEF rangeTo
  <2>4. QED
    BY <1>0, <1>4, <2>2, <2>3, StartKeeps DEF StartRange, Publishers
<1>5. ASSUME NEW p \in Publishers, PublisherStep(p) \/ PublishFails(p)
      PROVE  SweepInv' /\ nextId' >= nextId
  BY <1>0, <1>5, ChunkKeeps, AdvanceKeeps, FailKeeps, SMTT(30)
  DEF PublisherStep, PublishChunk, PublishFails
<1>7. QED
  BY <1>2, <1>3, <1>4, <1>5, Zenon DEF ForwardStep

(* So does every step.                                                     *)
LEMMA SweepNext == SweepInv /\ [Next]_vars => SweepInv' /\ nextId' >= nextId
<1> SUFFICES ASSUME SweepInv, [Next]_vars PROVE SweepInv' /\ nextId' >= nextId
  BY Zenon
<1>1. nextId \in Int
  BY DEF SweepInv, TypeOK
<1>2. CASE UNCHANGED vars
  BY <1>1, <1>2, RestKeeps DEF vars
<1>3. ASSUME NEW i, StoreCharacter(i), UNCHANGED <<nextId, first, batchVars, published, failures>>
      PROVE  SweepInv' /\ nextId' >= nextId
  BY <1>1, <1>3, StoreKeeps
<1> QED
  BY <1>2, <1>3, ForwardStepOK, Zenon DEF Next

(* The invariant holds in every state.                                     *)
LEMMA SweepInvariance == Spec => []SweepInv
BY SweepInit, SweepNext, PTL DEF Spec

(* The cursor, the ranges and the queued IDs stay within the width of the  *)
(* IDs (publishAutoIDSweep, computeIDSweepRange, buildIDSweepJobs).        *)
THEOREM TypeCorrect == Spec => []TypeOK
BY SweepInvariance, PTL DEF SweepInv

(* However many runs overlap, fail or die, the forward cursor has passed   *)
(* no ID that was not queued (publishAutoIDSweep).                         *)
THEOREM NoSkipTheorem == Spec => []NoSkip
BY SweepInvariance, PTL DEF SweepInv

(* The forward cursor never goes back (AdvanceIDSweepCursor).              *)
THEOREM CursorForwardTheorem == Spec => CursorForward
<1>1. SweepInv /\ [Next]_vars => [nextId' >= nextId]_vars
  BY SweepNext, Zenon
<1>2. QED
  BY <1>1, SweepInvariance, PTL DEF Spec, CursorForward

-----------------------------------------------------------------------------
(* A sweep whose runs wait while the other one works.                      *)
LEMMA ScansWait ==
    ASSUME GapInv, UNCHANGED <<chars, scanVars>>, failures' \in 0 .. MaxFailures
    PROVE  GapInv'
<1>1. UNCHANGED <<chars, cursor, stage, maxSeen, base, gaps, left, last, covered>>
  BY Zenon DEF scanVars, runVars
<1>2. \A q \in Runs : RunOK(q)'
  BY <1>1, RunKept, Zenon
<1> QED
  BY <1>1, <1>2, Zenon DEF GapInv, GapTypeOK, GapNoSkip

LEMMA BatchesWait ==
    ASSUME SweepInv, UNCHANGED <<chars, sweepVars>>, failures' \in 0 .. MaxFailures
    PROVE  SweepInv'
BY Zenon DEF sweepVars, batchVars, SweepInv, TypeOK, BatchProgress, RowCreated, NoSkip

(* Only a consumer stores characters.                                      *)
LEMMA PublishersStoreNothing == (ForwardStep \/ GapStep) => UNCHANGED chars
<1>1. ForwardStep => UNCHANGED chars
  BY Zenon DEF ForwardStep, PublisherStep, CreateCursor, StartAuto, StartRange, StartBatch, PublishChunk, PublishFails,
         AdvanceIDSweepCursor
<1>2. GapStep => UNCHANGED chars
  BY Zenon DEF GapStep, ScannerStep, ManualStep, ReadMax, ReadCursor, WrapCursor, FindGaps, PublishJob,
         GapPublishFails, Crash, AdvanceFillGapsCursor
<1> QED
  BY <1>1, <1>2, Zenon

(* Both sweeps on one table (publish.go): whatever runs of the two overlap *)
(* and whatever their consumers store, an ID the gap cursor has passed, or *)
(* the forward cursor since its row was created, is stored or queued.      *)
THEOREM NoHoleTheorem == AllSpec => []NoHole
<1>1. AllInit => GapInv /\ SweepInv
  BY GapInitOK, SweepInit, Zenon DEF AllInit
<1>2. ASSUME GapInv, SweepInv, [AllNext]_allVars PROVE GapInv' /\ SweepInv'
  <2>1. CASE UNCHANGED allVars
    <3>1. UNCHANGED gapVars /\ UNCHANGED vars
      BY <2>1, Zenon DEF allVars, sweepVars, scanVars, gapVars, vars
    <3> QED
      BY <1>2, <3>1, RestGapsOK, RestKeeps, Zenon
  <2>2. CASE ForwardStep /\ UNCHANGED scanVars
    <3>1. SweepInv' /\ UNCHANGED chars
      BY <1>2, <2>2, ForwardStepOK, PublishersStoreNothing, Zenon
    <3> QED
      BY <1>2, <2>2, <3>1, ScansWait, Zenon DEF SweepInv, TypeOK
  <2>3. CASE GapStep /\ UNCHANGED sweepVars
    <3>1. GapInv' /\ UNCHANGED chars
      BY <1>2, <2>3, GapStepOK, PublishersStoreNothing, Zenon
    <3> QED
      BY <1>2, <2>3, <3>1, BatchesWait, Zenon DEF GapInv, GapTypeOK
  <2>4. CASE Consume /\ UNCHANGED <<failures, sweepVars, scanVars>>
    <3>1. PICK i : StoreCharacter(i)
      BY <2>4, Zenon DEF Consume
    <3>2. /\ UNCHANGED <<cursor, runVars, covered, failures>>
          /\ UNCHANGED <<nextId, first, batchVars, published, failures>>
      BY <2>4, Zenon DEF sweepVars, scanVars
    <3> QED
      BY <1>2, <3>1, <3>2, StoreGapsOK, StoreKeeps, Zenon
  <2> QED
    BY <1>2, <2>1, <2>2, <2>3, <2>4, Zenon DEF AllNext
<1>3. GapInv /\ SweepInv => NoHole
  BY Sizes DEF GapInv, GapTypeOK, GapNoSkip, SweepInv, TypeOK, NoSkip, NoHole, IDs
<1>4. GapInv /\ SweepInv /\ [AllNext]_allVars => GapInv' /\ SweepInv'
  BY <1>2, Zenon
<1> QED
  BY <1>1, <1>3, <1>4, PTL DEF AllSpec
=============================================================================
