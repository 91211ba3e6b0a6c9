-------------------------- MODULE DiscoveryProofs --------------------------
(***************************************************************************)
(* Proofs about Discovery for every set of addresses, commands and         *)
(* consumers, all providers and lists, every limit and number of faults:   *)
(* type correctness, PublishedIsDurable, Covered and EvidenceKept; and     *)
(* that the rotating client gets past the proxies a provider refuses.      *)
(*                                                                         *)
(* Covered speaks of commands that have ended.  Along the way a command    *)
(* has covered the providers before the current one, and of the current    *)
(* one what is neither on a list still to be read nor left of the list it  *)
(* is reading: Progress.  This only stands because an address, once safe,  *)
(* stays safe whatever the others do.                                      *)
(***************************************************************************)
EXTENDS Discovery, FiniteSetTheorems, WellFoundedInduction, TLAPS

Positions == [pc : {"next", "publish", "done"}, prov : 0 .. Len(Providers), left : SUBSET Nat,
              todo : Seq(Tuples), cut : BOOLEAN, fetched : BOOLEAN]

CommandType == [at : Positions, published : Nat, errors : 0 .. Len(Providers),
                claims : SUBSET Tuples, quiet : SUBSET Nat,
                session : {"open", "channel", "connection"}]

(* A running command is at a provider, with lists of it left, an address   *)
(* at hand when it publishes, and published less than its limit.  It has   *)
(* counted at most one failure per provider.                               *)
Running(c) ==
    /\ c.at.prov \in DOMAIN Providers
    /\ c.at.left \subseteq DOMAIN Units(Providers[c.at.prov])
    /\ c.at.pc = "publish" => c.at.todo # None
    /\ c.errors < c.at.prov
    /\ Limit > 0 => c.published < Limit

Shape(c) ==
    /\ c \in CommandType
    /\ IF c.at.pc = "done" THEN c.at = Done /\ (Limit > 0 => c.published <= Limit) ELSE Running(c)

(* The addresses of S include what the i-th provider lists.                *)
Covers(S, i) == Kind(Providers[i]) # "text" => Listed(Providers[i]) \subseteq S

(* What a command has not come to yet of its current provider.             *)
Ahead(c) ==
    ToSet(c.at.todo) \cup
    UNION {ToSet(List(c, u)) : u \in c.at.left \cap Announced(Providers[c.at.prov])}

(* How far a command without a failure has come, S the safe addresses.     *)
Progress(c, S) ==
    c.errors = 0 =>
        IF c.at.pc = "done"
          THEN Limit = 0 \/ c.published < Limit =>
                  \A i \in DOMAIN Providers : i \in c.quiet \/ Covers(S, i)
          ELSE /\ \A i \in DOMAIN Providers : i < c.at.prov => i \in c.quiet \/ Covers(S, i)
               /\ c.at.cut \/ Covers(S \cup Ahead(c), c.at.prov)

SafeSet == {t \in Tuples : Safe(t)}

CommandOK(c, S) == Shape(c) /\ Progress(c, S) /\ c.claims \subseteq S

StoreOK ==
    /\ rows \in [Tuples -> {"none", "new", "scanned"}]
    /\ queue \subseteq Tuples
    /\ held \in [Consumers -> Tuples \cup {None}]

IInv ==
    /\ StoreOK
    /\ cmd = [d \in Commands |-> cmd[d]]
    /\ \A d \in Commands : CommandOK(cmd[d], SafeSet)

-----------------------------------------------------------------------------
(* The steps of one command.                                               *)

(* The fields of a command record.                                         *)
LEMMA Fields ==
    ASSUME NEW c \in CommandType
    PROVE  /\ c.at \in Positions /\ c.published \in Nat /\ c.errors \in 0 .. Len(Providers)
           /\ c.claims \in SUBSET Tuples /\ c.quiet \in SUBSET Nat
           /\ c.session \in {"open", "channel", "connection"}
           /\ c.at.pc \in {"next", "publish", "done"} /\ c.at.prov \in 0 .. Len(Providers)
           /\ c.at.left \in SUBSET Nat /\ c.at.todo \in Seq(Tuples)
           /\ c.at.cut \in BOOLEAN /\ c.at.fetched \in BOOLEAN
<1>1. c.at \in Positions
  BY Zenon DEF CommandType
<1> QED
  BY <1>1, Zenon DEF CommandType, Positions

(* Replacing the position of a command leaves its counters alone.          *)
LEMMA MoveTo ==
    ASSUME NEW c \in CommandType, NEW p \in Positions
    PROVE  LET m == [c EXCEPT !.at = p] IN
           /\ m \in CommandType /\ m.at = p
           /\ m.published = c.published /\ m.errors = c.errors /\ m.claims = c.claims
           /\ m.quiet = c.quiet
BY Zenon DEF CommandType

(* Starting on a provider, and being done, are positions.                  *)
LEMMA StartType ==
    ASSUME NEW n \in DOMAIN Providers
    PROVE  /\ Start(n) \in Positions /\ Start(n).pc = "next" /\ Start(n).prov = n
           /\ Start(n).left = DOMAIN Units(Providers[n]) /\ Start(n).todo = None
           /\ Start(n).cut = FALSE
<1>1. DOMAIN Units(Providers[n]) \in SUBSET Nat
  BY ListsAssumption
<1> QED
  BY <1>1, ProvidersAssumption DEF Start, Positions, None

LEMMA DoneType == Done \in Positions /\ Done.pc = "done"
BY ProvidersAssumption DEF Done, Positions, None

(* A fresh start has the whole provider ahead of it.                       *)
LEMMA StartAhead ==
    ASSUME NEW c \in CommandType, NEW n \in DOMAIN Providers, c.at = Start(n)
    PROVE  Ahead(c) = Listed(Providers[n])
<1>1. c.at.prov = n /\ c.at.left = DOMAIN Units(Providers[n]) /\ c.at.todo = None
  BY StartType, Zenon
<1>2. ToSet(None) = {}
  BY DEF ToSet, None
<1>3. Announced(Providers[n]) = c.at.left \cap Announced(Providers[n])
  BY <1>1, Zenon DEF Announced
<1> QED
  BY <1>1, <1>2, <1>3, Zenon DEF Ahead, Listed, List

(* NextProvider: the command is done, or starts on the provider after.     *)
LEMMA NextProviderCases ==
    ASSUME NEW c, Shape(c), c.at.pc # "done"
    PROVE  \/ c.at.prov = Len(Providers) /\ NextProvider(c) = Done
           \/ /\ c.at.prov < Len(Providers) /\ c.at.prov + 1 \in DOMAIN Providers
              /\ NextProvider(c) = Start(c.at.prov + 1)
BY ProvidersAssumption DEF Shape, Running, NextProvider

(* Where a command goes on is a position.                                  *)
LEMMA NextProviderType ==
    ASSUME NEW c, Shape(c), c.at.pc # "done"
    PROVE  NextProvider(c) \in Positions
<1>1. CASE NextProvider(c) = Done
  BY <1>1, DoneType, Zenon
<1>2. CASE c.at.prov + 1 \in DOMAIN Providers /\ NextProvider(c) = Start(c.at.prov + 1)
  <2>1. Start(c.at.prov + 1) \in Positions
    BY <1>2, StartType, Zenon
  <2> QED
    BY <1>2, <2>1, Zenon
<1> QED
  BY <1>1, <1>2, NextProviderCases, Zenon

(* A provider that failed: no claim is made about what the command covers. *)
LEMMA FailedOK ==
    ASSUME NEW c, NEW S, CommandOK(c, S), c.at.pc # "done"
    PROVE  CommandOK(Failed(c), S)
<1> DEFINE f == Failed(c)
<1>1. c \in CommandType /\ Running(c) /\ c.claims \subseteq S
  BY Zenon DEF CommandOK, Shape
<1>2. c.errors \in Nat /\ c.errors < c.at.prov /\ c.at.prov \in 1 .. Len(Providers)
  BY <1>1, Fields, ProvidersAssumption DEF Running
<1>3. PICK p \in Positions : p = NextProvider(c)
  BY NextProviderType, Zenon DEF CommandOK
<1>4. /\ f \in CommandType /\ f.at = NextProvider(c) /\ f.published = c.published
      /\ f.errors = c.errors + 1 /\ f.claims = c.claims
  <2>1. f = [c EXCEPT !.errors = c.errors + 1, !.at = p]
    BY <1>1, <1>3, Zenon DEF Failed, CommandType
  <2>2. c.errors + 1 \in 0 .. Len(Providers)
    BY <1>2, ProvidersAssumption
  <2> QED
    BY <2>1, <2>2, <1>1, <1>3, Zenon DEF CommandType
<1> HIDE DEF f
<1>5. Progress(f, S)
  BY <1>2, <1>4 DEF Progress
<1>6. CASE f.at = Done
  <2>1. Shape(f)
    BY <1>1, <1>4, <1>6, DoneType, Fields, DiscoveryAssumption, SMTT(30) DEF Shape, Running
  <2> QED
    BY <2>1, <1>1, <1>4, <1>5, Zenon DEF CommandOK, f
<1>7. CASE c.at.prov + 1 \in DOMAIN Providers /\ f.at = Start(c.at.prov + 1)
  <2>0. /\ f.at.pc = "next" /\ f.at.prov = c.at.prov + 1
        /\ f.at.left = DOMAIN Units(Providers[f.at.prov])
    <3>1. PICK n \in DOMAIN Providers : n = c.at.prov + 1
      BY <1>7, Zenon
    <3>2. f.at = Start(n)
      BY <1>7, <3>1, Zenon
    <3>3. /\ Start(n).pc = "next" /\ Start(n).prov = n
          /\ Start(n).left = DOMAIN Units(Providers[n])
      BY <3>1, StartType, Zenon
    <3> QED
      BY <3>1, <3>2, <3>3, Zenon
  <2>1. f.at.pc = "next" /\ Running(f)
    BY <1>1, <1>2, <1>4, <1>7, <2>0, SMTT(30) DEF Running
  <2> QED
    BY <2>1, <1>1, <1>4, <1>5, Zenon DEF CommandOK, Shape, f
<1> QED
  BY <1>4, <1>6, <1>7, NextProviderCases, Zenon DEF CommandOK

(* A provider that was read to its end.                                    *)
LEMMA SucceededOK ==
    ASSUME NEW c, NEW S, CommandOK(c, S), c.at.pc # "done",
           c.errors = 0 => c.at.prov \in c.quiet \/ Covers(S, c.at.prov)
    PROVE  CommandOK(Succeeded(c), S)
<1> DEFINE f == Succeeded(c)
<1>1. c \in CommandType /\ Running(c) /\ c.claims \subseteq S
  BY Zenon DEF CommandOK, Shape
<1>2. c.errors \in Nat /\ c.errors < c.at.prov /\ c.at.prov \in 1 .. Len(Providers)
  BY <1>1, Fields, ProvidersAssumption DEF Running
<1>3. NextProvider(c) \in Positions
  BY NextProviderType, Zenon DEF CommandOK
<1>4. /\ f \in CommandType /\ f.at = NextProvider(c) /\ f.published = c.published
      /\ f.errors = c.errors /\ f.claims = c.claims /\ f.quiet = c.quiet
  BY <1>1, <1>3, MoveTo, Zenon DEF Succeeded
<1>5. ASSUME c.errors = 0, NEW i \in DOMAIN Providers, i <= c.at.prov
      PROVE  i \in c.quiet \/ Covers(S, i)
  BY <1>2, <1>5, ProvidersAssumption DEF CommandOK, Progress
<1> HIDE DEF f
<1>6. CASE c.at.prov = Len(Providers) /\ f.at = Done
  <2>1. Shape(f)
    BY <1>1, <1>4, <1>6, DoneType, Fields, DiscoveryAssumption, SMTT(30) DEF Shape, Running
  <2>2. Progress(f, S)
    BY <1>4, <1>5, <1>6, DoneType, ProvidersAssumption, SMTT(30) DEF Progress
  <2> QED
    BY <2>1, <2>2, <1>1, <1>4, Zenon DEF CommandOK, f
<1>7. CASE c.at.prov + 1 \in DOMAIN Providers /\ f.at = Start(c.at.prov + 1)
  <2>0. /\ f.at.pc = "next" /\ f.at.prov = c.at.prov + 1
        /\ f.at.left = DOMAIN Units(Providers[f.at.prov])
    <3>1. PICK n \in DOMAIN Providers : n = c.at.prov + 1
      BY <1>7, Zenon
    <3>2. f.at = Start(n)
      BY <1>7, <3>1, Zenon
    <3>3. /\ Start(n).pc = "next" /\ Start(n).prov = n
          /\ Start(n).left = DOMAIN Units(Providers[n])
      BY <3>1, StartType, Zenon
    <3> QED
      BY <3>1, <3>2, <3>3, Zenon
  <2>1. f.at.pc = "next" /\ f.at.prov = c.at.prov + 1 /\ Running(f)
    BY <1>1, <1>2, <1>4, <1>7, <2>0, SMTT(30) DEF Running
  <2>2. Ahead(f) = Listed(Providers[f.at.prov])
    BY <1>4, <1>7, <2>1, StartAhead, Zenon
  <2>3. Covers(S \cup Ahead(f), f.at.prov)
    BY <2>2, Zenon DEF Covers
  <2>4. Progress(f, S)
    BY <1>2, <1>4, <1>5, <2>1, <2>3, ProvidersAssumption, SMTT(30) DEF Progress
  <2> QED
    BY <2>1, <2>4, <1>1, <1>4, Zenon DEF CommandOK, Shape, f
<1> QED
  BY <1>4, <1>6, <1>7, NextProviderCases, Zenon DEF CommandOK

(* What covers stays covering as more addresses become safe.               *)
LEMMA MoreSafe ==
    ASSUME NEW c, NEW S, NEW T, CommandOK(c, S), S \subseteq T
    PROVE  CommandOK(c, T)
<1>1. \A i \in DOMAIN Providers : Covers(S, i) => Covers(T, i)
  BY Zenon DEF Covers
<1>2. Covers(S \cup Ahead(c), c.at.prov) => Covers(T \cup Ahead(c), c.at.prov)
  BY Zenon DEF Covers
<1>3. Progress(c, S) => Progress(c, T)
  BY <1>1, <1>2, Zenon DEF Progress
<1> QED
  BY <1>3, Zenon DEF CommandOK

(* The first address of a list and the rest are the list.                  *)
LEMMA HeadAndTail ==
    ASSUME NEW s \in Seq(Tuples), s # None
    PROVE  /\ Head(s) \in Tuples /\ Tail(s) \in Seq(Tuples)
           /\ ToSet(s) = {Head(s)} \cup ToSet(Tail(s))
<1>1. Head(s) = s[1] /\ 1 \in DOMAIN s /\ Head(s) \in Tuples /\ Tail(s) \in Seq(Tuples)
  BY DEF None
<1>2. \A i \in DOMAIN Tail(s) : i + 1 \in DOMAIN s /\ Tail(s)[i] = s[i + 1]
  BY DEF None
<1>3. \A i \in DOMAIN s : i # 1 => i - 1 \in DOMAIN Tail(s) /\ Tail(s)[i - 1] = s[i]
  BY DEF None
<1>4. ASSUME NEW i \in DOMAIN s
      PROVE  s[i] \in {Head(s)} \cup ToSet(Tail(s))
  BY <1>1, <1>3, Zenon DEF ToSet
<1>5. ToSet(Tail(s)) \subseteq ToSet(s) /\ Head(s) \in ToSet(s)
  BY <1>1, <1>2 DEF ToSet
<1> QED
  BY <1>1, <1>4, <1>5, Zenon DEF ToSet

(* The fields of a command that has passed an address.                     *)
LEMMA PassedFields ==
    ASSUME NEW c \in CommandType, c.at.todo # None
    PROVE  /\ Passed(c) \in CommandType /\ Passed(c).at.pc = "next"
           /\ Passed(c).at.prov = c.at.prov /\ Passed(c).at.left = c.at.left
           /\ Passed(c).at.todo = Tail(c.at.todo) /\ Passed(c).at.cut = c.at.cut
           /\ Passed(c).published = c.published /\ Passed(c).errors = c.errors
           /\ Passed(c).claims = c.claims /\ Passed(c).quiet = c.quiet
<1> DEFINE p == [c.at EXCEPT !.pc = "next", !.todo = Tail(c.at.todo), !.fetched = TRUE]
<1>1. Tail(c.at.todo) \in Seq(Tuples) /\ c.at \in Positions
  BY Fields, HeadAndTail, Zenon
<1>2. /\ p \in Positions /\ p.pc = "next" /\ p.prov = c.at.prov /\ p.left = c.at.left
      /\ p.todo = Tail(c.at.todo) /\ p.cut = c.at.cut
  BY <1>1, Zenon DEF Positions
<1>3. Passed(c) = [c EXCEPT !.at = p]
  BY <1>1, Zenon DEF Passed, Positions, CommandType
<1> HIDE DEF p
<1> QED
  BY <1>2, <1>3, MoveTo, SMTT(30)

(* An address that is safe may be passed.                                  *)
LEMMA PassedOK ==
    ASSUME NEW c, NEW S, CommandOK(c, S), c.at.pc # "done", c.at.todo # None,
           Head(c.at.todo) \in S
    PROVE  CommandOK(Passed(c), S)
<1> DEFINE f == Passed(c)
<1>1. c \in CommandType /\ Running(c) /\ c.at.todo \in Seq(Tuples)
  BY Fields, Zenon DEF CommandOK, Shape
<1>2. /\ f \in CommandType /\ f.at.pc = "next"
      /\ f.at.prov = c.at.prov /\ f.at.left = c.at.left
      /\ f.at.todo = Tail(c.at.todo) /\ f.at.cut = c.at.cut
      /\ f.published = c.published /\ f.errors = c.errors
      /\ f.claims = c.claims /\ f.quiet = c.quiet
  BY <1>1, PassedFields, Zenon
<1> HIDE DEF f
<1>3. Running(f)
  BY <1>1, <1>2, Zenon DEF Running
<1>4. Ahead(f) \cup {Head(c.at.todo)} = Ahead(c)
  BY <1>1, <1>2, HeadAndTail DEF Ahead, List
<1>5. S \cup Ahead(f) = S \cup Ahead(c)
  BY <1>4, Zenon
<1>6. Progress(f, S)
  BY <1>2, <1>5, Zenon DEF Progress, CommandOK
<1> QED
  BY <1>2, <1>3, <1>6, Zenon DEF CommandOK, Shape, f

(* A confirmed publication: the address is safe, and the limit ends the    *)
(* command once it is reached.                                             *)
LEMMA CountedOK ==
    ASSUME NEW c, NEW S, CommandOK(c, S), c.at.pc # "done", c.at.todo # None,
           Head(c.at.todo) \in S
    PROVE  CommandOK(Counted(c, Head(c.at.todo)), S)
<1> DEFINE t == Head(c.at.todo)
           k == [c EXCEPT !.published = @ + 1, !.claims = @ \cup {t}, !.session = "open"]
<1>1. /\ c \in CommandType /\ Running(c) /\ c.at.todo \in Seq(Tuples) /\ c.published \in Nat
      /\ c.claims \in SUBSET Tuples /\ c.errors \in 0 .. Len(Providers)
  BY Fields, Zenon DEF CommandOK, Shape
<1>2. t \in Tuples
  BY <1>1, HeadAndTail, Zenon
<1> HIDE DEF t
<1>3. /\ k \in CommandType /\ k.at = c.at /\ k.published = c.published + 1
      /\ k.errors = c.errors /\ k.claims = c.claims \cup {t} /\ k.quiet = c.quiet
  <2>1. c.published + 1 \in Nat /\ c.claims \cup {t} \in SUBSET Tuples
    BY <1>1, <1>2
  <2> DEFINE u == c.claims \cup {t}
             n == c.published + 1
  <2>2. k = [c EXCEPT !.published = n, !.claims = u, !.session = "open"]
    BY <1>1, Zenon DEF CommandType
  <2> HIDE DEF k, u, n
  <2>3. /\ k \in CommandType /\ k.at = c.at /\ k.published = n /\ k.errors = c.errors
        /\ k.claims = u /\ k.quiet = c.quiet
    BY <2>1, <2>2, <1>1, Zenon DEF CommandType, u, n
  <2> QED
    BY <2>3, Zenon DEF u, n
<1>4. Counted(c, t) = IF Limit > 0 /\ k.published >= Limit THEN [k EXCEPT !.at = Done] ELSE Passed(k)
  BY Zenon DEF Counted
<1>5. k.claims \subseteq S
  BY <1>3, Zenon DEF CommandOK, t
<1> HIDE DEF k
<1>6. CASE Limit > 0 /\ k.published >= Limit
  <2> DEFINE f == [k EXCEPT !.at = Done]
  <2>1. /\ f \in CommandType /\ f.at = Done /\ f.published = k.published
        /\ f.errors = k.errors /\ f.claims = k.claims
    BY <1>3, DoneType, MoveTo, Zenon
  <2>2. f = Counted(c, t)
    BY <1>4, <1>6, Zenon
  <2> HIDE DEF f
  <2>3. Shape(f) /\ Progress(f, S)
    BY <2>1, <1>1, <1>3, <1>6, DoneType, DiscoveryAssumption, SMTT(30) DEF Shape, Running, Progress
  <2> QED
    BY <2>1, <2>2, <2>3, <1>5, Zenon DEF CommandOK, t
<1>7. CASE ~(Limit > 0 /\ k.published >= Limit)
  <2>1. Running(k)
    BY <1>1, <1>3, <1>7, DiscoveryAssumption, SMTT(30) DEF Running
  <2>2. Ahead(k) = Ahead(c)
    BY <1>3, Zenon DEF Ahead, List
  <2>3. Progress(k, S)
    BY <1>3, <2>2, Zenon DEF Progress, CommandOK
  <2>4. CommandOK(k, S)
    BY <1>3, <1>5, <2>1, <2>3, Zenon DEF CommandOK, Shape
  <2> QED
    BY <2>4, <1>3, <1>4, <1>7, PassedOK, ZenonT(30) DEF t
<1> QED
  BY <1>6, <1>7, Zenon

(* The fields of a command that reads a list.                              *)
LEMMA ReadsFields ==
    ASSUME NEW c \in CommandType, NEW left \in SUBSET Nat, NEW todo \in Seq(Tuples),
           NEW cut \in BOOLEAN
    PROVE  /\ Reads(c, left, todo, cut) \in CommandType
           /\ Reads(c, left, todo, cut).at.pc = c.at.pc
           /\ Reads(c, left, todo, cut).at.prov = c.at.prov
           /\ Reads(c, left, todo, cut).at.left = left
           /\ Reads(c, left, todo, cut).at.todo = todo
           /\ Reads(c, left, todo, cut).at.cut = cut
           /\ Reads(c, left, todo, cut).published = c.published
           /\ Reads(c, left, todo, cut).errors = c.errors
           /\ Reads(c, left, todo, cut).claims = c.claims
           /\ Reads(c, left, todo, cut).quiet = c.quiet
<1> DEFINE p == [c.at EXCEPT !.left = left, !.todo = todo, !.cut = cut]
<1>1. c.at \in Positions
  BY Fields, Zenon
<1>2. /\ p \in Positions /\ p.pc = c.at.pc /\ p.prov = c.at.prov /\ p.left = left
      /\ p.todo = todo /\ p.cut = cut
  BY <1>1, Zenon DEF Positions
<1>3. Reads(c, left, todo, cut) = [c EXCEPT !.at = p]
  BY <1>1, Zenon DEF Reads, Positions, CommandType
<1> HIDE DEF p
<1> QED
  BY <1>2, <1>3, MoveTo

(* A list may be read when it, and the lists then left, hold all that was  *)
(* ahead, or when the reading broke off.                                   *)
LEMMA ReadsOK ==
    ASSUME NEW c, NEW S, CommandOK(c, S), c.at.pc = "next", ~c.at.cut,
           NEW left \in SUBSET c.at.left, NEW todo \in Seq(Tuples), NEW cut \in BOOLEAN,
           cut \/ Ahead(c) \subseteq
                     ToSet(todo) \cup
                     UNION {ToSet(List(c, u)) : u \in left \cap Announced(Providers[c.at.prov])}
    PROVE  CommandOK(Reads(c, left, todo, cut), S)
<1> DEFINE f == Reads(c, left, todo, cut)
<1>1. c \in CommandType /\ Running(c) /\ left \in SUBSET Nat
  BY Fields, Zenon DEF CommandOK, Shape
<1>2. /\ f \in CommandType /\ f.at.pc = c.at.pc /\ f.at.prov = c.at.prov
      /\ f.at.left = left /\ f.at.todo = todo /\ f.at.cut = cut
      /\ f.published = c.published /\ f.errors = c.errors
      /\ f.claims = c.claims /\ f.quiet = c.quiet
  BY <1>1, ReadsFields
<1> HIDE DEF f
<1>3. Running(f)
  BY <1>1, <1>2, Zenon DEF Running
<1>4. ASSUME ~cut
      PROVE  Ahead(c) \subseteq Ahead(f)
  <2>1. Ahead(f) =
            ToSet(todo) \cup
            UNION {ToSet(List(c, u)) : u \in left \cap Announced(Providers[c.at.prov])}
    BY <1>2, ZenonT(30) DEF Ahead, List
  <2> QED
    BY <1>4, <2>1, Zenon
<1>5. ASSUME ~cut, Covers(S \cup Ahead(c), c.at.prov)
      PROVE  Covers(S \cup Ahead(f), c.at.prov)
  BY <1>4, <1>5, Zenon DEF Covers
<1>6. Progress(f, S)
  BY <1>2, <1>5, Zenon DEF Progress, CommandOK
<1> QED
  BY <1>2, <1>3, <1>6, Zenon DEF CommandOK, Shape, f

(* The lists of a provider hold addresses.                                 *)
LEMMA ListType ==
    ASSUME NEW c, Shape(c), c.at.pc # "done", NEW u \in c.at.left
    PROVE  List(c, u) \in Seq(Tuples)
<1>1. Units(Providers[c.at.prov]) \in Seq(Seq(Tuples)) /\ u \in DOMAIN Units(Providers[c.at.prov])
  BY ListsAssumption, Zenon DEF Shape, Running
<1> QED
  BY <1>1 DEF List

(* What broke off holds addresses.                                         *)
LEMMA BrokenType ==
    ASSUME NEW list \in Seq(Tuples), NEW read \in Broken(list)
    PROVE  read \in Seq(Tuples)
BY DEF Broken

(* Between two lists nothing but the lists left is ahead.                  *)
LEMMA AheadOfLists ==
    ASSUME NEW c, c.at.todo = None
    PROVE  Ahead(c) = UNION {ToSet(List(c, u)) : u \in c.at.left \cap Announced(Providers[c.at.prov])}
<1>1. ToSet(None) = {}
  BY DEF ToSet, None
<1> QED
  BY <1>1, Zenon DEF Ahead

(* A nonempty set of page numbers has a first one.                         *)
LEMMA FirstPage ==
    ASSUME NEW L \in SUBSET Nat, L # {}
    PROVE  LET page == CHOOSE u \in L : \A v \in L : u <= v
           IN  page \in L /\ \A v \in L : page <= v
<1>1. PICK n \in L : \A m \in L : <<m, n>> \notin OpToRel(<, Nat)
  BY WFMin, NatLessThanWellFounded, Zenon
<1>2. \A m \in L : ~(m < n)
  BY <1>1, Zenon DEF OpToRel
<1>3. \E u \in L : \A v \in L : u <= v
  BY <1>2
<1> QED
  BY <1>3, Zenon

(* After the first page left, the pages told of are that page and those    *)
(* NextPages leaves: where it stops, the page itself announces no other.   *)
LEMMA PagesLeft ==
    ASSUME NEW i \in DOMAIN Providers, Kind(Providers[i]) = "paged",
           NEW L \in SUBSET DOMAIN Units(Providers[i]), NEW page \in L, \A v \in L : page <= v
    PROVE  /\ NextPages(L, page, Reported(Providers[i], page)) \in SUBSET L
           /\ \A u \in L \cap Announced(Providers[i]) :
                 u = page \/ u \in NextPages(L, page, Reported(Providers[i], page))
<1> DEFINE p == Providers[i]
           report == Reported(p, page)
           next == NextPages(L, page, report)
<1>1. L \subseteq Nat
  BY ListsAssumption
<1>2. PageLimit \in Nat /\ report.count \in Nat /\ report.total \in Nat
  BY PagesAssumption
<1> HIDE DEF report
<1>3. next \subseteq L
  BY Zenon DEF NextPages
<1>4. ASSUME NEW u \in L \cap Announced(p), u # page
      PROVE  u \in next
  <2>1. page < u
    BY <1>1, <1>4
  <2>2. report.count >= PageLimit /\ report.total > page * PageLimit
    BY <2>1, Zenon DEF Announced, report
  <2>3. ~(report.count < PageLimit \/ page * PageLimit >= report.total)
    <3> DEFINE n == page * PageLimit
    <3>1. n \in Nat
      BY <1>1, <1>2
    <3> HIDE DEF n
    <3>2. report.total > n
      BY <2>2, Zenon DEF n
    <3>3. ~(report.count < PageLimit \/ n >= report.total)
      BY <1>2, <2>2, <3>1, <3>2, SMTT(30)
    <3> QED
      BY <3>3, Zenon DEF n
  <2> QED
    BY <1>4, <2>3, Zenon DEF NextPages
<1> QED
  BY <1>3, <1>4, Zenon DEF report

-----------------------------------------------------------------------------
(* The store, and the steps of the system.                                 *)

(* An address is only unsafe while nobody knows it: whatever step is       *)
(* taken, a stored address stays stored, and one in the queue or with a    *)
(* consumer is stored, delivered or requeued.                              *)
LEMMA SafeKept ==
    ASSUME StoreOK, [Next]_vars
    PROVE  SafeSet \subseteq SafeSet'
<1> SUFFICES ASSUME NEW t \in Tuples, Safe(t)
             PROVE  Safe(t)'
  BY Zenon DEF SafeSet
<1> USE DEF Safe, Exists, StoreOK
<1>1. CASE UNCHANGED <<rows, held>> /\ queue \subseteq queue'
  BY <1>1, Zenon
<1>2. ASSUME NEW c \in Consumers, NEW u \in Tuples, Deliver(c, u)
      PROVE  Safe(t)'
  <2>1. held[c] = None /\ t # None
    BY <1>2, TuplesAssumption, Zenon DEF Deliver
  <2>2. CASE Exists(t)
    BY <1>2, <2>2, Zenon DEF Deliver
  <2>3. CASE t = u /\ ~Exists(t)
    <3>1. held'[c] = t
      BY <1>2, <2>3, Zenon DEF Deliver
    <3> QED
      BY <3>1, Zenon
  <2>4. CASE t # u /\ t \in queue
    BY <1>2, <2>4, Zenon DEF Deliver
  <2>5. CASE \E e \in Consumers : held[e] = t
    <3>1. PICK e \in Consumers : held[e] = t
      BY <2>5, Zenon
    <3>2. held'[e] = t
      BY <1>2, <2>1, <3>1, Zenon DEF Deliver
    <3> QED
      BY <3>2, Zenon
  <2> QED
    BY <2>2, <2>3, <2>4, <2>5, Zenon
<1>3. ASSUME NEW c \in Consumers, Insert(c)
      PROVE  Safe(t)'
  <2>1. held[c] \in Tuples
    BY <1>3, Zenon DEF Insert
  <2> QED
    BY <1>3, <2>1, Zenon DEF Insert, InsertIfAbsent
<1>4. ASSUME NEW c \in Consumers, InsertFails(c)
      PROVE  Safe(t)'
  BY <1>4, Zenon DEF InsertFails
<1>5. ASSUME NEW u \in Tuples, Scan(u)
      PROVE  Safe(t)'
  BY <1>5, Zenon DEF Scan
<1>6. ASSUME NEW d \in Commands, Discover(d) \/ SessionLost(d)
      PROVE  UNCHANGED <<rows, held>> /\ queue \subseteq queue'
  BY <1>6, Zenon DEF Discover, SessionLost, UnitEnds, FetchStream, FetchPage, FetchText, Lookup,
     LookupFails, Publish, PublishFails
<1> QED
  BY <1>1, <1>2, <1>3, <1>4, <1>5, <1>6, ZenonT(30) DEF Next, Consume, vars

(* A step of one command keeps the invariant when it keeps what the        *)
(* invariant says of that command.                                         *)
LEMMA CommandStep ==
    ASSUME IInv, SafeSet \subseteq SafeSet', StoreOK', NEW d \in Commands,
           NEW x, cmd' = [cmd EXCEPT ![d] = x], CommandOK(x, SafeSet')
    PROVE  IInv'
<1>1. cmd' = [e \in Commands |-> cmd'[e]]
  BY Zenon DEF IInv
<1>2. ASSUME NEW e \in Commands
      PROVE  CommandOK(cmd'[e], SafeSet')
  <2>1. CASE e = d
    BY <2>1, Zenon DEF IInv
  <2>2. CASE e # d
    <3>1. cmd'[e] = cmd[e] /\ CommandOK(cmd[e], SafeSet)
      BY <2>2, Zenon DEF IInv
    <3> QED
      BY <3>1, MoreSafe, Zenon
  <2> QED
    BY <2>1, <2>2, Zenon
<1> QED
  BY <1>1, <1>2, Zenon DEF IInv

(* The end of a list.                                                      *)
LEMMA UnitEndsOK ==
    ASSUME IInv, SafeSet \subseteq SafeSet', NEW d \in Commands, UnitEnds(d)
    PROVE  IInv'
<1> DEFINE c == cmd[d]
           x == IF c.at.cut /\ KindOf(c) # "text" THEN Failed(c)
                ELSE IF c.at.left # {} THEN [c EXCEPT !.at.cut = FALSE]
                ELSE IF KindOf(c) = "text" /\ ~c.at.fetched THEN Failed(c)
                ELSE Succeeded(c)
<1>1. cmd' = [cmd EXCEPT ![d] = x] /\ StoreOK'
  BY Zenon DEF UnitEnds, IInv, StoreOK
<1>2. CommandOK(c, SafeSet') /\ c.at.pc = "next" /\ c.at.todo = None
  BY MoreSafe, Zenon DEF IInv, UnitEnds, Pulls
<1>3. c \in CommandType /\ Running(c)
  BY <1>2, Zenon DEF CommandOK, Shape
<1> HIDE DEF c
<1>4. ASSUME c.at.cut /\ KindOf(c) # "text"
      PROVE  CommandOK(x, SafeSet')
  BY <1>2, <1>4, FailedOK, Zenon
<1>5. ASSUME ~(c.at.cut /\ KindOf(c) # "text") /\ c.at.left # {}
      PROVE  CommandOK(x, SafeSet')
  <2> DEFINE r == [c EXCEPT !.at.cut = FALSE]
             p == [c.at EXCEPT !.cut = FALSE]
  <2>1. c.at \in Positions
    BY <1>3, Fields, Zenon
  <2>2. /\ p \in Positions /\ p.pc = c.at.pc /\ p.prov = c.at.prov /\ p.left = c.at.left
        /\ p.todo = c.at.todo
    BY <2>1, Zenon DEF Positions
  <2>3. r = [c EXCEPT !.at = p]
    BY <1>3, <2>1, Zenon DEF CommandType, Positions
  <2> HIDE DEF p
  <2>4. /\ r \in CommandType /\ r.at = p /\ r.published = c.published /\ r.errors = c.errors
        /\ r.claims = c.claims /\ r.quiet = c.quiet
    BY <1>3, <2>2, <2>3, MoveTo, ZenonT(30)
  <2> HIDE DEF r
  <2>5. Running(r)
    BY <1>3, <2>2, <2>4, Zenon DEF Running
  <2>6. KindOf(c) = "text"
    BY <1>5, UnitEnds(d), Zenon DEF UnitEnds, c
  <2>7. Covers(SafeSet' \cup Ahead(r), c.at.prov)
    BY <2>6, Zenon DEF Covers, KindOf
  <2>8. Progress(r, SafeSet')
    BY <1>2, <2>2, <2>4, <2>7, Zenon DEF CommandOK, Progress
  <2>9. CommandOK(r, SafeSet')
    BY <1>2, <2>2, <2>4, <2>5, <2>8, Zenon DEF CommandOK, Shape
  <2> QED
    BY <1>5, <2>9, Zenon DEF r
<1>6. ASSUME ~(c.at.cut /\ KindOf(c) # "text"), c.at.left = {},
             KindOf(c) = "text" /\ ~c.at.fetched
      PROVE  CommandOK(x, SafeSet')
  BY <1>2, <1>6, FailedOK, Zenon
<1>7. ASSUME ~(c.at.cut /\ KindOf(c) # "text"), c.at.left = {},
             ~(KindOf(c) = "text" /\ ~c.at.fetched)
      PROVE  CommandOK(x, SafeSet')
  <2>1. Ahead(c) = {}
    BY <1>2, <1>7, AheadOfLists, SMTT(30)
  <2>2. c.errors = 0 => Covers(SafeSet', c.at.prov)
    BY <1>2, <1>7, <2>1, Zenon DEF CommandOK, Progress, Covers, KindOf
  <2>3. CommandOK(Succeeded(c), SafeSet')
    BY <1>2, <2>2, SucceededOK, Zenon
  <2> QED
    BY <1>7, <2>3, Zenon
<1>8. CommandOK(x, SafeSet')
  BY <1>4, <1>5, <1>6, <1>7, Zenon
<1> HIDE DEF x
<1> QED
  BY <1>1, <1>8, CommandStep, Zenon

(* A request for one of the lists: it is read, breaks off, or fails.       *)
LEMMA FetchOK ==
    ASSUME IInv, SafeSet \subseteq SafeSet', NEW d \in Commands, NEW kind, Requests(d, kind),
           UNCHANGED <<rows, queue, held>>, NEW u \in cmd[d].at.left,
           NEW rest \in SUBSET cmd[d].at.left,
           \A v \in cmd[d].at.left \cap Announced(Providers[cmd[d].at.prov]) : v = u \/ v \in rest,
           \/ cmd' = [cmd EXCEPT ![d] = Reads(cmd[d], rest, List(cmd[d], u), FALSE)]
           \/ \E read \in Broken(List(cmd[d], u)) :
                cmd' = [cmd EXCEPT ![d] = Reads(cmd[d], rest, read, TRUE)]
           \/ cmd' = [cmd EXCEPT ![d] = Failed(cmd[d])]
    PROVE  IInv'
<1> DEFINE c == cmd[d]
           told == Announced(Providers[c.at.prov])
<1>1. StoreOK'
  BY Zenon DEF IInv, StoreOK
<1>2. CommandOK(c, SafeSet') /\ c.at.pc = "next" /\ c.at.todo = None /\ ~c.at.cut
  BY MoreSafe, Zenon DEF IInv, Requests, Pulls
<1>3. List(c, u) \in Seq(Tuples) /\ u \in c.at.left
  BY <1>2, ListType, Zenon DEF CommandOK
<1>4. CASE cmd' = [cmd EXCEPT ![d] = Reads(c, rest, List(c, u), FALSE)]
  <2>1. Ahead(c) = UNION {ToSet(List(c, v)) : v \in c.at.left \cap told}
    BY <1>2, AheadOfLists, Zenon
  <2>2. \A v \in c.at.left \cap told : v = u \/ v \in rest \cap told
    BY Zenon
  <2> HIDE DEF told, c
  <2>3. Ahead(c) \subseteq ToSet(List(c, u)) \cup UNION {ToSet(List(c, v)) : v \in rest \cap told}
    BY <2>1, <2>2, Zenon
  <2>4. rest \in SUBSET c.at.left
    BY Zenon DEF c
  <2>5. CommandOK(Reads(c, rest, List(c, u), FALSE), SafeSet')
    BY <1>2, <1>3, <2>3, <2>4, ReadsOK, Zenon DEF told
  <2> QED
    BY <1>1, <1>4, <2>5, CommandStep, Zenon DEF c
<1>5. CASE \E read \in Broken(List(c, u)) : cmd' = [cmd EXCEPT ![d] = Reads(c, rest, read, TRUE)]
  <2>1. PICK read \in Broken(List(c, u)) : cmd' = [cmd EXCEPT ![d] = Reads(c, rest, read, TRUE)]
    BY <1>5, Zenon
  <2>2. read \in Seq(Tuples)
    BY <1>3, BrokenType, Zenon
  <2>3. CommandOK(Reads(c, rest, read, TRUE), SafeSet')
    BY <1>2, <2>2, ReadsOK, Zenon
  <2> QED
    BY <1>1, <2>1, <2>3, CommandStep, Zenon
<1>6. CASE cmd' = [cmd EXCEPT ![d] = Failed(c)]
  <2>1. CommandOK(Failed(c), SafeSet')
    BY <1>2, FailedOK, Zenon
  <2> QED
    BY <1>1, <1>6, <2>1, CommandStep, Zenon
<1> QED
  BY <1>4, <1>5, <1>6, Zenon

(* A provider may be noted as one that ended before its list began.        *)
LEMMA SilentOK ==
    ASSUME NEW c, NEW S, CommandOK(c, S), c.at.pc = "next"
    PROVE  CommandOK(Silent(c), S) /\ Silent(c).at = c.at /\ c.at.prov \in Silent(c).quiet
<1> DEFINE q == c.quiet \cup {c.at.prov}
           r == [c EXCEPT !.quiet = q]
<1>1. c \in CommandType /\ Running(c)
  BY Zenon DEF CommandOK, Shape
<1>2. q \in SUBSET Nat
  BY <1>1, Fields, ProvidersAssumption, SMTT(30) DEF Running
<1>3. Silent(c) = r
  BY <1>1, Zenon DEF Silent, CommandType
<1> HIDE DEF q
<1>4. /\ r \in CommandType /\ r.at = c.at /\ r.published = c.published /\ r.errors = c.errors
      /\ r.claims = c.claims /\ r.quiet = q
  BY <1>1, <1>2, Zenon DEF CommandType
<1> HIDE DEF r
<1>5. Ahead(r) = Ahead(c) /\ c.quiet \subseteq r.quiet /\ c.at.prov \in r.quiet
  BY <1>4, Zenon DEF Ahead, List, q
<1>6. Progress(r, S)
  BY <1>4, <1>5, Zenon DEF CommandOK, Progress
<1>7. Running(r)
  BY <1>1, <1>4, Zenon DEF Running
<1>8. CommandOK(r, S)
  BY <1>4, <1>6, <1>7, Zenon DEF CommandOK, Shape
<1> QED
  BY <1>3, <1>4, <1>5, <1>8, Zenon

(* The one response of a stream provider.                                  *)
LEMMA FetchStreamOK ==
    ASSUME IInv, SafeSet \subseteq SafeSet', NEW d \in Commands, FetchStream(d)
    PROVE  IInv'
<1> DEFINE c == cmd[d]
<1>1. Requests(d, "stream") /\ UNCHANGED <<rows, queue, held>>
  BY Zenon DEF FetchStream
<1>2. c.at.left = {1}
  <2>1. Running(c) /\ c.at.left # {} /\ Kind(Providers[c.at.prov]) = "stream"
    BY <1>1, Zenon DEF Requests, Pulls, KindOf, IInv, CommandOK, Shape
  <2>2. DOMAIN Units(Providers[c.at.prov]) = {1}
    BY <2>1, ListsAssumption DEF Running
  <2> QED
    BY <2>1, <2>2, Zenon DEF Running
<1>3. /\ {} \in SUBSET c.at.left /\ 1 \in c.at.left
      /\ \A v \in c.at.left \cap Announced(Providers[c.at.prov]) : v = 1 \/ v \in {}
  BY <1>2, Zenon
<1>4. CASE \/ cmd' = [cmd EXCEPT ![d] = Reads(c, {}, List(c, 1), FALSE)]
           \/ \E read \in Broken(List(c, 1)) : cmd' = [cmd EXCEPT ![d] = Reads(c, {}, read, TRUE)]
           \/ cmd' = [cmd EXCEPT ![d] = Failed(c)]
  BY <1>1, <1>3, <1>4, FetchOK, Zenon
<1>5. CASE cmd' = [cmd EXCEPT ![d] = Succeeded(Silent(c))]
  <2> DEFINE r == Silent(c)
  <2>1. CommandOK(c, SafeSet') /\ c.at.pc = "next" /\ StoreOK'
    BY <1>1, MoreSafe, Zenon DEF IInv, StoreOK, Requests, Pulls
  <2>2. CommandOK(r, SafeSet') /\ r.at = c.at /\ r.at.prov \in r.quiet
    BY <2>1, SilentOK, Zenon
  <2> HIDE DEF r
  <2>3. CommandOK(Succeeded(r), SafeSet')
    BY <2>1, <2>2, SucceededOK, Zenon
  <2> QED
    BY <1>5, <2>1, <2>3, CommandStep, Zenon DEF r
<1> QED
  BY <1>4, <1>5, Zenon DEF FetchStream

(* A page of geonode.                                                      *)
LEMMA FetchPageOK ==
    ASSUME IInv, SafeSet \subseteq SafeSet', NEW d \in Commands, FetchPage(d)
    PROVE  IInv'
<1> DEFINE c == cmd[d]
           page == CHOOSE u \in c.at.left : \A v \in c.at.left : u <= v
           next == NextPages(c.at.left, page, Reported(Providers[c.at.prov], page))
<1>1. Requests(d, "paged") /\ UNCHANGED <<rows, queue, held>>
  BY Zenon DEF FetchPage
<1>2. /\ c.at.left \in SUBSET Nat /\ c.at.left # {} /\ c.at.prov \in DOMAIN Providers
      /\ c.at.left \in SUBSET DOMAIN Units(Providers[c.at.prov])
      /\ Kind(Providers[c.at.prov]) = "paged"
  BY <1>1, Fields, Zenon DEF Requests, Pulls, KindOf, IInv, CommandOK, Shape, Running
<1>3. page \in c.at.left /\ \A v \in c.at.left : page <= v
  BY <1>2, FirstPage, Zenon
<1>4. \/ cmd' = [cmd EXCEPT ![d] = Reads(c, next, List(c, page), FALSE)]
      \/ cmd' = [cmd EXCEPT ![d] = Failed(c)]
  BY Zenon DEF FetchPage
<1> HIDE DEF page
<1>5. /\ next \in SUBSET c.at.left
      /\ \A v \in c.at.left \cap Announced(Providers[c.at.prov]) : v = page \/ v \in next
  <2>1. PICK i \in DOMAIN Providers : i = c.at.prov
    BY <1>2, Zenon
  <2>2. PICK L \in SUBSET DOMAIN Units(Providers[i]) : L = c.at.left
    BY <1>2, <2>1, Zenon
  <2>3. Kind(Providers[i]) = "paged" /\ page \in L /\ \A v \in L : page <= v
    BY <1>2, <1>3, <2>1, <2>2, Zenon
  <2>4. /\ NextPages(L, page, Reported(Providers[i], page)) \in SUBSET L
        /\ \A u \in L \cap Announced(Providers[i]) :
              u = page \/ u \in NextPages(L, page, Reported(Providers[i], page))
    BY <2>3, PagesLeft, Zenon
  <2> QED
    BY <2>1, <2>2, <2>4, Zenon
<1> HIDE DEF next
<1> QED
  BY <1>1, <1>3, <1>4, <1>5, FetchOK, ZenonT(30)

(* An url of a text provider.                                              *)
LEMMA FetchTextOK ==
    ASSUME IInv, SafeSet \subseteq SafeSet', NEW d \in Commands, FetchText(d)
    PROVE  IInv'
<1> DEFINE c == cmd[d]
<1>1. Requests(d, "text") /\ UNCHANGED <<rows, queue, held>>
  BY Zenon DEF FetchText
<1>2. PICK u \in c.at.left :
        \/ cmd' = [cmd EXCEPT ![d] = Reads(c, c.at.left \ {u}, List(c, u), FALSE)]
        \/ \E read \in Broken(List(c, u)) :
             cmd' = [cmd EXCEPT ![d] = Reads(c, c.at.left \ {u}, read, TRUE)]
  BY Zenon DEF FetchText
<1> DEFINE rest == c.at.left \ {u}
<1>3. rest \in SUBSET c.at.left /\ \A v \in c.at.left \cap Announced(Providers[c.at.prov]) :
                                     v = u \/ v \in rest
  BY Zenon
<1>4. \/ cmd' = [cmd EXCEPT ![d] = Reads(c, rest, List(c, u), FALSE)]
      \/ \E read \in Broken(List(c, u)) : cmd' = [cmd EXCEPT ![d] = Reads(c, rest, read, TRUE)]
  BY <1>2, ZenonT(30)
<1> HIDE DEF rest
<1> QED
  BY <1>1, <1>3, <1>4, FetchOK, Zenon

(* The lookup: a stored address is passed, an unknown one is at hand.      *)
LEMMA LookupOK ==
    ASSUME IInv, SafeSet \subseteq SafeSet', NEW d \in Commands, Lookup(d)
    PROVE  IInv'
<1> DEFINE c == cmd[d]
           x == IF Exists(Head(c.at.todo)) THEN Passed(c) ELSE [c EXCEPT !.at.pc = "publish"]
<1>1. cmd' = [cmd EXCEPT ![d] = x] /\ StoreOK'
  BY Zenon DEF Lookup, IInv, StoreOK
<1>2. CommandOK(c, SafeSet') /\ c.at.pc = "next" /\ c.at.todo # None
  BY MoreSafe, Zenon DEF IInv, Lookup, Emits
<1>3. c \in CommandType /\ Running(c) /\ c.at.todo \in Seq(Tuples) /\ c.at \in Positions
  BY <1>2, Fields, Zenon DEF CommandOK, Shape
<1>4. ASSUME Exists(Head(c.at.todo))
      PROVE  CommandOK(x, SafeSet')
  <2>1. Head(c.at.todo) \in Tuples
    BY <1>2, <1>3, HeadAndTail, Zenon
  <2>2. Head(c.at.todo) \in SafeSet
    BY <1>4, <2>1, Zenon DEF SafeSet, Safe
  <2>3. CommandOK(Passed(c), SafeSet')
    BY <1>2, <1>3, <2>2, PassedOK, Zenon
  <2> QED
    BY <1>4, <2>3, Zenon
<1>5. ASSUME ~Exists(Head(c.at.todo))
      PROVE  CommandOK(x, SafeSet')
  <2> HIDE DEF c
  <2> DEFINE r == [c EXCEPT !.at.pc = "publish"]
             p == [c.at EXCEPT !.pc = "publish"]
  <2>1. /\ p \in Positions /\ p.pc = "publish" /\ p.prov = c.at.prov /\ p.left = c.at.left
        /\ p.todo = c.at.todo /\ p.cut = c.at.cut
    BY <1>3, Zenon DEF Positions
  <2>2. r = [c EXCEPT !.at = p]
    BY <1>3, Zenon DEF CommandType, Positions
  <2> HIDE DEF p, r
  <2>3. /\ r \in CommandType /\ r.at = p /\ r.published = c.published /\ r.errors = c.errors
        /\ r.claims = c.claims /\ r.quiet = c.quiet
    BY <1>3, <2>1, <2>2, MoveTo, Zenon
  <2>4. Running(r)
    BY <1>2, <1>3, <2>1, <2>3, Zenon DEF Running
  <2>5. Ahead(r) = Ahead(c)
    BY <2>1, <2>3, Zenon DEF Ahead, List
  <2>6. Progress(r, SafeSet')
    BY <1>2, <2>1, <2>3, <2>5, Zenon DEF CommandOK, Progress
  <2>7. CommandOK(r, SafeSet')
    BY <1>2, <2>1, <2>3, <2>4, <2>6, Zenon DEF CommandOK, Shape
  <2> QED
    BY <1>5, <2>7, Zenon DEF r
<1>6. CommandOK(x, SafeSet')
  BY <1>4, <1>5, Zenon
<1> HIDE DEF x
<1> QED
  BY <1>1, <1>6, CommandStep, Zenon

(* A failed lookup or publication ends the provider with a failure.        *)
LEMMA FailsOK ==
    ASSUME IInv, SafeSet \subseteq SafeSet', NEW d \in Commands, LookupFails(d) \/ PublishFails(d)
    PROVE  IInv'
<1> DEFINE c == cmd[d]
<1>1. cmd' = [cmd EXCEPT ![d] = Failed(c)]
  BY Zenon DEF LookupFails, PublishFails, IInv
<1>2. CommandOK(c, SafeSet') /\ c.at.pc # "done"
  BY MoreSafe, Zenon DEF IInv, LookupFails, PublishFails, Emits, Publishes
<1>3. Publishes(d) => Head(c.at.todo) \in Tuples
  <2> SUFFICES ASSUME Publishes(d) PROVE Head(c.at.todo) \in Tuples
    BY Zenon
  <2>1. c.at.todo \in Seq(Tuples) /\ c.at.todo # None
    BY <1>2, Fields, Zenon DEF CommandOK, Shape, Running, Publishes
  <2> QED
    BY <2>1, HeadAndTail, Zenon
<1>4. StoreOK'
  BY <1>3, Zenon DEF LookupFails, PublishFails, IInv, StoreOK
<1> QED
  BY <1>1, <1>2, <1>4, FailedOK, CommandStep, ZenonT(30)

(* A confirmed publication: the message is in the queue.                   *)
LEMMA PublishOK ==
    ASSUME IInv, SafeSet \subseteq SafeSet', NEW d \in Commands, Publish(d)
    PROVE  IInv'
<1> DEFINE c == cmd[d]
<1>1. cmd' = [cmd EXCEPT ![d] = Counted(c, Head(c.at.todo))]
  BY Zenon DEF Publish, IInv
<1>2. CommandOK(c, SafeSet') /\ c.at.pc = "publish"
  BY MoreSafe, Zenon DEF IInv, Publish, Publishes
<1>3. c.at.todo \in Seq(Tuples) /\ c.at.todo # None
  BY <1>2, Fields, Zenon DEF CommandOK, Shape, Running
<1>4. Head(c.at.todo) \in Tuples
  BY <1>3, HeadAndTail, Zenon
<1>5. StoreOK' /\ Head(c.at.todo) \in queue'
  BY <1>4, Zenon DEF Publish, IInv, StoreOK
<1>6. Head(c.at.todo) \in SafeSet'
  BY <1>4, <1>5, Zenon DEF SafeSet, Safe
<1>7. CommandOK(Counted(c, Head(c.at.todo)), SafeSet')
  BY <1>2, <1>3, <1>6, CountedOK, Zenon
<1> QED
  BY <1>1, <1>5, <1>7, CommandStep, Zenon

(* A lost session moves nothing.                                           *)
LEMMA SessionLostOK ==
    ASSUME IInv, SafeSet \subseteq SafeSet', NEW d \in Commands, SessionLost(d)
    PROVE  IInv'
<1> DEFINE c == cmd[d]
<1>1. PICK lost \in {"channel", "connection"} : cmd' = [cmd EXCEPT ![d].session = lost]
  BY Zenon DEF SessionLost
<1>2. CommandOK(c, SafeSet') /\ c \in CommandType
  BY MoreSafe, Zenon DEF IInv, CommandOK, Shape
<1>3. StoreOK' /\ cmd' = [cmd EXCEPT ![d] = [c EXCEPT !.session = lost]]
  BY <1>1, Zenon DEF SessionLost, IInv, StoreOK
<1> HIDE DEF c
<1> DEFINE r == [c EXCEPT !.session = lost]
<1>4. /\ r \in CommandType /\ r.at = c.at /\ r.published = c.published /\ r.errors = c.errors
      /\ r.claims = c.claims /\ r.quiet = c.quiet
  BY <1>2, Zenon DEF CommandType
<1> HIDE DEF r
<1>5. Ahead(r) = Ahead(c)
  BY <1>4, Zenon DEF Ahead, List
<1>6. Progress(r, SafeSet')
  BY <1>2, <1>4, <1>5, Zenon DEF CommandOK, Progress
<1>7. Shape(r)
  BY <1>2, <1>4, Zenon DEF CommandOK, Shape, Running
<1>8. CommandOK(r, SafeSet')
  BY <1>2, <1>4, <1>6, <1>7, Zenon DEF CommandOK
<1> QED
  BY <1>3, <1>8, CommandStep, Zenon DEF r

(* The consumers and the scanners change the store alone.                  *)
LEMMA StoreSteps ==
    ASSUME IInv, SafeSet \subseteq SafeSet', UNCHANGED cmd, StoreOK'
    PROVE  IInv'
<1>1. ASSUME NEW d \in Commands
      PROVE  CommandOK(cmd'[d], SafeSet')
  <2>1. CommandOK(cmd[d], SafeSet) /\ cmd'[d] = cmd[d]
    BY Zenon DEF IInv
  <2> QED
    BY <2>1, MoreSafe, Zenon
<1> QED
  BY <1>1, Zenon DEF IInv

(* The invariant holds at first: everything is still ahead.                *)
LEMMA InitOK == Init => IInv
<1> SUFFICES ASSUME Init PROVE IInv
  BY Zenon
<1>1. StoreOK
  BY DiscoveryAssumption, Zenon DEF Init, StoreOK
<1>2. 1 \in DOMAIN Providers
  BY ProvidersAssumption
<1>3. ASSUME NEW d \in Commands
      PROVE  CommandOK(cmd[d], SafeSet)
  <2> DEFINE c == cmd[d]
  <2>1. c = [at |-> Start(1), published |-> 0, errors |-> 0, claims |-> {}, quiet |-> {},
             session |-> "open"]
    BY Zenon DEF Init
  <2>2. Start(1) \in Positions
    BY <1>2, StartType, Zenon
  <2>3. /\ c \in CommandType /\ c.at = Start(1) /\ c.published = 0 /\ c.errors = 0
        /\ c.claims = {}
    BY <2>1, <2>2, ProvidersAssumption, SMTT(30) DEF CommandType
  <2> HIDE DEF c
  <2>4. /\ c.at.pc = "next" /\ c.at.prov = 1 /\ c.at.left = DOMAIN Units(Providers[1])
        /\ c.at.todo = None
    BY <1>2, <2>3, StartType, ZenonT(30)
  <2>5. Running(c)
    BY <1>2, <2>3, <2>4 DEF Running
  <2>6. Ahead(c) = Listed(Providers[1])
    BY <1>2, <2>3, StartAhead, Zenon
  <2>7. Covers(SafeSet \cup Ahead(c), 1)
    BY <2>6, Zenon DEF Covers
  <2>8. \A i \in DOMAIN Providers : ~(i < 1)
    BY ProvidersAssumption
  <2>9. Progress(c, SafeSet)
    BY <2>4, <2>7, <2>8, Zenon DEF Progress
  <2> QED
    BY <2>3, <2>4, <2>5, <2>9, Zenon DEF CommandOK, Shape, c
<1> QED
  BY <1>1, <1>3, Zenon DEF IInv, Init

(* Every step keeps the invariant.                                         *)
LEMMA NextOK == IInv /\ [Next]_vars => IInv'
<1> SUFFICES ASSUME IInv, [Next]_vars PROVE IInv'
  BY Zenon
<1>1. StoreOK /\ SafeSet \subseteq SafeSet'
  BY SafeKept, Zenon DEF IInv
<1>2. ASSUME NEW d \in Commands, Discover(d) \/ SessionLost(d)
      PROVE  IInv'
  BY <1>1, <1>2, UnitEndsOK, FetchStreamOK, FetchPageOK, FetchTextOK, LookupOK, FailsOK,
     PublishOK, SessionLostOK, ZenonT(30)
  DEF Discover
<1>3. ASSUME NEW c \in Consumers, NEW t \in Tuples, Deliver(c, t)
      PROVE  IInv'
  BY <1>1, <1>3, StoreSteps, Zenon DEF StoreOK, Deliver
<1>4. ASSUME NEW c \in Consumers, Insert(c)
      PROVE  IInv'
  BY <1>1, <1>4, StoreSteps, Zenon DEF StoreOK, Insert, InsertIfAbsent
<1>5. ASSUME NEW c \in Consumers, InsertFails(c)
      PROVE  IInv'
  BY <1>1, <1>5, StoreSteps, Zenon DEF StoreOK, InsertFails
<1>6. ASSUME NEW t \in Tuples, Scan(t)
      PROVE  IInv'
  BY <1>1, <1>6, StoreSteps, Zenon DEF StoreOK, Scan
<1>7. CASE UNCHANGED vars
  BY <1>1, <1>7, StoreSteps, Zenon DEF StoreOK, vars
<1> QED
  BY <1>2, <1>3, <1>4, <1>5, <1>6, <1>7, ZenonT(30) DEF Next, Consume

LEMMA Invariant == Spec => []IInv
BY InitOK, NextOK, PTL DEF Spec

-----------------------------------------------------------------------------
(* The table, the queue and the counters of the commands have their types: *)
(* a command counts at most one failure per provider and publishes no more *)
(* than its limit.                                                         *)
THEOREM TypeTheorem == Spec => []TypeOK
<1>1. ASSUME IInv, NEW d \in Commands
      PROVE  /\ cmd[d].published \in Nat /\ cmd[d].errors \in 0 .. Len(Providers)
             /\ cmd[d].session \in {"open", "channel", "connection"}
             /\ Limit > 0 => cmd[d].published <= Limit
  <2>1. Shape(cmd[d]) /\ cmd[d] \in CommandType
    BY <1>1, Zenon DEF IInv, CommandOK, Shape
  <2>2. cmd[d].published \in Nat
    BY <2>1, Fields, Zenon
  <2>3. Limit > 0 => cmd[d].published <= Limit
    BY <2>1, <2>2, DiscoveryAssumption, SMTT(30) DEF Shape, Running
  <2> QED
    BY <2>1, <2>3, Fields, Zenon
<1>2. IInv => TypeOK
  BY <1>1, Zenon DEF IInv, StoreOK, TypeOK
<1> QED
  BY <1>2, Invariant, PTL

(* PublishedIsDurable: what a command has counted as published is stored,  *)
(* in the queue or with a consumer, through lost confirmations, broken     *)
(* sessions, failed inserts and redeliveries.                              *)
THEOREM DurableTheorem == Spec => []PublishedIsDurable
<1>1. IInv => PublishedIsDurable
  BY Zenon DEF IInv, CommandOK, SafeSet, PublishedIsDurable
<1> QED
  BY <1>1, Invariant, PTL

(* Covered: a command that ends without a failure and below its limit has  *)
(* left no address behind that its JSON providers told of, save those of a *)
(* response that ended before its list began.                              *)
THEOREM CoveredTheorem == Spec => []Covered
<1>1. ASSUME IInv, NEW d \in Commands, cmd[d].at = Done, cmd[d].errors = 0,
             Limit = 0 \/ cmd[d].published < Limit, NEW i \in DOMAIN Providers
      PROVE  i \in cmd[d].quiet \/ Covers(SafeSet, i)
  BY <1>1, DoneType, Zenon DEF IInv, CommandOK, Progress
<1>2. IInv => Covered
  BY <1>1, Zenon DEF Covered, Covers, SafeSet
<1> QED
  BY <1>2, Invariant, PTL

(* EvidenceKept: no step, of any number of commands and consumers, takes   *)
(* the evidence of a scanned address away.                                 *)
THEOREM EvidenceTheorem == Spec => EvidenceKept
<1> DEFINE Keeps == \A t \in Tuples : rows[t] = "scanned" => rows'[t] = "scanned"
<1>1. ASSUME StoreOK, [Next]_vars
      PROVE  Keeps \/ UNCHANGED rows
  <2>1. ASSUME NEW c \in Consumers, Insert(c)
        PROVE  Keeps
    BY <1>1, <2>1, Zenon DEF StoreOK, Insert, InsertIfAbsent
  <2>2. ASSUME NEW t \in Tuples, Scan(t)
        PROVE  Keeps
    BY <1>1, <2>2, Zenon DEF StoreOK, Scan
  <2>3. CASE UNCHANGED rows
    BY <2>3, Zenon
  <2>4. ASSUME NEW d \in Commands, Discover(d) \/ SessionLost(d)
        PROVE  UNCHANGED rows
    BY <2>4, Zenon DEF Discover, SessionLost, UnitEnds, FetchStream, FetchPage, FetchText, Lookup,
       LookupFails, Publish, PublishFails
  <2> QED
    BY <1>1, <2>1, <2>2, <2>3, <2>4, Zenon DEF Next, Consume, Deliver, InsertFails, vars
<1>2. IInv /\ [Next]_vars => [Keeps]_rows
  BY <1>1, Zenon DEF IInv
<1> QED
  BY <1>2, Invariant, PTL DEF Spec, EvidenceKept

-----------------------------------------------------------------------------
(* The rotating client.                                                    *)

(* attemptedIDs: no proxy is drawn twice.                                  *)
LEMMA DrawsDiffer ==
    ASSUME NEW pool, NEW n \in Nat, NEW d \in [1 .. n -> pool],
           \A i \in 1 .. n : d[i] \in RandomActiveExcluding(pool, {d[j] : j \in 1 .. i - 1})
    PROVE  IsInjective(d)
<1>1. ASSUME NEW i \in 1 .. n, NEW j \in 1 .. n, i < j
      PROVE  d[i] # d[j]
  <2>1. i \in 1 .. j - 1
    BY <1>1
  <2> QED
    BY <2>1, Zenon DEF RandomActiveExcluding, RandomActive
<1>2. ASSUME NEW i \in 1 .. n, NEW j \in 1 .. n, d[i] = d[j]
      PROVE  i = j
  BY <1>1, <1>2
<1> QED
  BY <1>2, Zenon DEF IsInjective

(* A pool can be drawn from as often as it has members.                    *)
LEMMA DrawsExist ==
    ASSUME NEW pool, IsFiniteSet(pool)
    PROVE  Draws(pool) # {}
<1> DEFINE N == Cardinality(pool)
           n == IF N < MaxAttempts THEN N ELSE MaxAttempts
<1>1. N \in Nat /\ ExistsBijection(1 .. N, pool)
  BY FS_CardinalityType, Zenon
<1>2. PICK f \in [1 .. N -> pool] : IsInjective(f)
  BY <1>1, Zenon DEF ExistsBijection, Bijection, Injection
<1>3. n \in Nat /\ n <= N
  BY <1>1, DiscoveryAssumption
<1> DEFINE d == [i \in 1 .. n |-> f[i]]
<1> HIDE DEF N
<1>4. d \in [1 .. n -> pool]
  BY <1>1, <1>3
<1>5. ASSUME NEW i \in 1 .. n
      PROVE  d[i] \in RandomActiveExcluding(pool, {d[j] : j \in 1 .. i - 1})
  <2>1. i \in 1 .. N /\ d[i] = f[i] /\ d[i] \in pool
    BY <1>1, <1>3, <1>4, SMTT(30)
  <2>2. ASSUME NEW j \in 1 .. i - 1
        PROVE  d[j] # d[i]
    <3>1. j \in 1 .. n /\ j \in 1 .. N /\ j # i
      BY <1>1, <1>3
    <3> QED
      BY <1>2, <2>1, <3>1, Zenon DEF IsInjective
  <2> HIDE DEF d
  <2> QED
    BY <2>1, <2>2, Zenon DEF RandomActiveExcluding, RandomActive
<1> HIDE DEF d
<1> QED
  BY <1>4, <1>5, Zenon DEF Draws, N

(* GetStream: when some proxy of the pool is not refused and fewer are     *)
(* refused than the client makes attempts, every rotation gets through,    *)
(* whichever proxies chance draws first.                                   *)
THEOREM RotationTheorem ==
    ASSUME NEW pool, IsFiniteSet(pool), NEW refused, pool \ refused # {},
           Cardinality(pool \cap refused) < MaxAttempts
    PROVE  GetStream(pool, refused) = {"ok"}
<1> DEFINE N == Cardinality(pool)
           bad == pool \cap refused
           n == IF N < MaxAttempts THEN N ELSE MaxAttempts
<1>1. N \in Nat /\ n \in Nat
  BY FS_CardinalityType, DiscoveryAssumption, Zenon
<1>2. IsFiniteSet(bad) /\ Cardinality(bad) <= N /\ Cardinality(bad) # N
  <2>1. bad \in SUBSET pool /\ bad # pool
    BY Zenon
  <2> HIDE DEF bad
  <2> QED
    BY <2>1, FS_Subset, Zenon
<1>3. Cardinality(bad) \in Nat /\ Cardinality(bad) < n
  BY <1>1, <1>2, FS_CardinalityType, DiscoveryAssumption, SMTT(30)
<1> HIDE DEF n, bad
<1>4. ASSUME NEW d \in [1 .. n -> pool],
             \A i \in 1 .. n : d[i] \in RandomActiveExcluding(pool, {d[j] : j \in 1 .. i - 1})
      PROVE  \E i \in DOMAIN d : d[i] \notin refused
  <2> SUFFICES ASSUME \A i \in 1 .. n : d[i] \in refused PROVE FALSE
    BY <1>4, Zenon
  <2>1. d \in Injection(1 .. n, bad)
    BY <1>1, <1>4, DrawsDiffer, Zenon DEF Injection, bad
  <2>2. Cardinality(1 .. n) <= Cardinality(bad)
    BY <1>2, <2>1, FS_Injection, Zenon
  <2>3. Cardinality(1 .. n) = n
    BY <1>1, FS_Interval, SMTT(30)
  <2> QED
    BY <1>1, <1>3, <2>2, <2>3, SMTT(30)
<1>5. \A d \in Draws(pool) : \E i \in DOMAIN d : d[i] \notin refused
  BY <1>4, Zenon DEF Draws, n
<1>6. Draws(pool) # {} /\ pool # {}
  BY DrawsExist, Zenon
<1> QED
  BY <1>5, <1>6, Zenon DEF GetStream
=============================================================================
