------------------------- MODULE ProxyWorkerProofs -------------------------
(***************************************************************************)
(* Proofs about ProxyWorker, for any number of workers and rows and any    *)
(* number of store errors, failed checks and rejections: type correctness, *)
(* that no live row is taken from a running job, and that no worker        *)
(* forgets a row it has locked unless the store failed to take it back.    *)
(*                                                                         *)
(* Every step of a worker is Local: it leaves the other workers' control   *)
(* state alone and changes the validity of no lock but its own.            *)
(***************************************************************************)
EXTENDS ProxyWorker, TLAPS

RowSet == [fresh : BOOLEAN, cooled : BOOLEAN, owner : Workers \cup {NoOne}, live : BOOLEAN]
WkSet == [pc : Phases, why : Reasons, proxy : Proxies \cup {NoOne},
          claim : Proxies \cup {NoOne}, seen : BOOLEAN, paused : BOOLEAN]

(* A row whose lock time has an owner. *)
RowOK(r) == r \in RowSet /\ (r.live => r.owner # NoOne)

(* A worker's locals agree with its control state.  The last conjunct is   *)
(* not part of TypeOK: a worker that replaces a row has had one, which it  *)
(* falls back to when the client for the new row cannot be built.          *)
MeOK(m) ==
    /\ m \in WkSet
    /\ m.claim # NoOne <=> m.pc = "check"
    /\ m.pc \in Working \cup {"idle"} => m.proxy # NoOne
    /\ m.why # "start" => m.proxy # NoOne

IInv ==
    /\ rows \in [Proxies -> RowSet] /\ wk \in [Workers -> WkSet]
    /\ \A p \in Proxies : RowOK(rows[p])
    /\ \A w \in Workers : MeOK(wk[w])
    /\ notify \in BOOLEAN /\ cancelled \in BOOLEAN /\ faults \in 0 .. MaxFaults
    /\ kept \subseteq Workers \X Proxies /\ NoOrphans

(* Row r may become s by a statement of worker w.                          *)
Keeps(w, r, s) ==
    RowOK(s) /\ \A y \in Workers \ {w} : LockValid(s, y) <=> LockValid(r, y)

-----------------------------------------------------------------------------
(* The statements. *)

(* A row given up has neither owner nor lock time. *)
LEMMA FreedRow ==
    ASSUME NEW r \in RowSet
    PROVE RowOK(Freed(r)) /\ Freed(r).owner = NoOne /\ Freed(r).live = FALSE
BY Zenon DEF RowSet, RowOK, Freed

(* A claim of a row without a live lock takes nobody's lock away. *)
LEMMA ClaimRow ==
    ASSUME NEW w \in Workers, NEW r, RowOK(r), ~r.live
    PROVE Keeps(w, r, ClaimProxy(r, w))
<1>1. ClaimProxy(r, w) \in RowSet /\ ClaimProxy(r, w).owner = w
  BY Zenon DEF RowSet, RowOK, ClaimProxy
<1>2. w # NoOne
  BY PoolAssumption, Zenon
<1> QED BY <1>1, <1>2, Zenon DEF Keeps, RowOK, LockValid, Owned

(* A release ends the worker's own lock and nobody else's. *)
LEMMA ReleaseRow ==
    ASSUME NEW w \in Workers, NEW r, RowOK(r)
    PROVE Keeps(w, r, ReleaseProxy(r, w)) /\ ~LockValid(ReleaseProxy(r, w), w)
<1>1. CASE Owned(r, w)
  <2>1. ReleaseProxy(r, w) = Freed(r)
    BY <1>1, Zenon DEF ReleaseProxy
  <2>2. RowOK(Freed(r)) /\ Freed(r).live = FALSE
    BY FreedRow, Zenon DEF RowOK
  <2> QED BY <1>1, <2>1, <2>2, Zenon DEF Keeps, LockValid, Owned
<1>2. CASE ~Owned(r, w)
  BY <1>2, Zenon DEF ReleaseProxy, Keeps, LockValid
<1> QED BY <1>1, <1>2, Zenon

(* So does a cooldown. *)
LEMMA CooldownRow ==
    ASSUME NEW w \in Workers, NEW r, RowOK(r)
    PROVE Keeps(w, r, CooldownDestination(r, w)) /\ ~LockValid(CooldownDestination(r, w), w)
<1>1. CASE Owned(r, w)
  <2>1. RowOK(Freed(r)) /\ Freed(r).live = FALSE
    BY FreedRow, Zenon DEF RowOK
  <2>2. /\ CooldownDestination(r, w) = [Freed(r) EXCEPT !.cooled = TRUE]
        /\ [Freed(r) EXCEPT !.cooled = TRUE] \in RowSet
        /\ [Freed(r) EXCEPT !.cooled = TRUE].live = FALSE
    BY <1>1, <2>1, Zenon DEF CooldownDestination, RowOK, RowSet
  <2> QED BY <1>1, <2>2, Zenon DEF Keeps, LockValid, Owned, RowOK
<1>2. CASE ~Owned(r, w)
  BY <1>2, Zenon DEF CooldownDestination, Keeps, LockValid
<1> QED BY <1>1, <1>2, Zenon

(* And a reported failure, whether it is fenced off or not. *)
LEMMA FailureRow ==
    ASSUME NEW w \in Workers, NEW r, RowOK(r), NEW seen \in BOOLEAN
    PROVE Keeps(w, r, RecordConsumerFailure(r, w, seen))
<1>1. CASE Fenced(r, w, seen)
  <2>1. RecordConsumerFailure(r, w, seen) = [r EXCEPT !.fresh = FALSE]
    BY <1>1, Zenon DEF RecordConsumerFailure, Fenced
  <2>2. /\ [r EXCEPT !.fresh = FALSE] \in RowSet
        /\ [r EXCEPT !.fresh = FALSE].owner = r.owner
        /\ [r EXCEPT !.fresh = FALSE].live = r.live
    BY Zenon DEF RowOK, RowSet
  <2> QED BY <2>1, <2>2, Zenon DEF Keeps, RowOK, LockValid, Owned
<1>2. CASE LockValid(r, w) /\ ~seen
  <2>1. RecordConsumerFailure(r, w, seen) = Freed(r)
    BY <1>2, Zenon DEF RecordConsumerFailure, Fenced
  <2>2. RowOK(Freed(r)) /\ Freed(r).live = FALSE
    BY FreedRow, Zenon DEF RowOK
  <2> QED BY <1>2, <2>1, <2>2, Zenon DEF Keeps, LockValid, Owned
<1>3. CASE ~Fenced(r, w, seen) /\ ~(LockValid(r, w) /\ ~seen)
  BY <1>3, Zenon DEF RecordConsumerFailure, Keeps
<1> QED BY <1>1, <1>2, <1>3, Zenon

(* A statement after another one. *)
LEMMA KeepsTwice ==
    ASSUME NEW w, NEW r, NEW s, NEW t, Keeps(w, r, s), Keeps(w, s, t)
    PROVE Keeps(w, r, t)
BY Zenon DEF Keeps

-----------------------------------------------------------------------------
(* The steps of a worker. *)

SameControl(m, n) == n.pc = m.pc /\ n.proxy = m.proxy /\ n.claim = m.claim

(* A step of worker w that keeps the types and touches only its own lock.  *)
Local(w) ==
    /\ rows' \in [Proxies -> RowSet] /\ wk' \in [Workers -> WkSet]
    /\ \A p \in Proxies : RowOK(rows'[p])
    /\ \A x \in Workers : MeOK(wk'[x])
    /\ \A x \in Workers \ {w} : SameControl(wk[x], wk'[x])
    /\ \A p \in Proxies : \A y \in Workers \ {w} :
          LockValid(rows'[p], y) <=> LockValid(rows[p], y)

(* Reads a worker's row or claim as Orphan does. *)
Kept(m) == IF m.pc \in Acquiring THEN m.claim ELSE m.proxy

(* A version that is out of date changes nothing else. *)
LEMMA OtherOK ==
    ASSUME NEW m, MeOK(m), NEW b
    PROVE /\ MeOK([m EXCEPT !.seen = @ /\ b])
          /\ SameControl(m, [m EXCEPT !.seen = @ /\ b])
<1> DEFINE c == m.seen /\ b
<1>1. c \in BOOLEAN
  BY Zenon
<1>2. [m EXCEPT !.seen = @ /\ b] = [m EXCEPT !.seen = c]
  BY Zenon
<1> HIDE DEF c
<1>3. /\ [m EXCEPT !.seen = c] \in WkSet
      /\ [m EXCEPT !.seen = c].pc = m.pc /\ [m EXCEPT !.seen = c].proxy = m.proxy
      /\ [m EXCEPT !.seen = c].claim = m.claim /\ [m EXCEPT !.seen = c].why = m.why
  BY <1>1, Zenon DEF MeOK, WkSet
<1> DEFINE n == [m EXCEPT !.seen = c]
<1>4. n \in WkSet /\ n.pc = m.pc /\ n.proxy = m.proxy /\ n.claim = m.claim /\ n.why = m.why
  BY <1>3, Zenon
<1> HIDE DEF n
<1>5. MeOK(n) /\ SameControl(m, n)
  BY <1>4, Zenon DEF MeOK, SameControl
<1> QED BY <1>2, <1>5, Zenon DEF n

(* The step records no forgotten lock of another worker, and drops none.   *)
OthersKept(w) ==
    /\ kept' \subseteq Workers \X Proxies
    /\ \A x \in Workers \ {w}, q \in Proxies : <<x, q>> \in kept => <<x, q>> \in kept'

(* Step with a proper record and a proper row is local, and records what   *)
(* it leaves of its own row only.                                          *)
LEMMA StepOK ==
    ASSUME IInv, NEW w \in Workers, NEW me, MeOK(me), NEW p \in Proxies, NEW r,
           Keeps(w, rows[p], r), NEW moved, NEW left, Step(w, me, p, r, moved, left)
    PROVE /\ Local(w) /\ wk'[w] = me /\ rows'[p] = r
          /\ \A q \in Proxies \ {p} : rows'[q] = rows[q]
          /\ OthersKept(w) /\ (left /\ LockValid(r, w) => <<w, p>> \in kept')
          /\ \A q \in Proxies \ {p} : <<w, q>> \in kept => <<w, q>> \in kept'
<1>1. /\ rows' = [rows EXCEPT ![p] = r] /\ rows \in [Proxies -> RowSet]
      /\ r \in RowSet
  BY Zenon DEF Step, IInv, Keeps, RowOK
<1>2. /\ rows' \in [Proxies -> RowSet] /\ rows'[p] = r
      /\ \A q \in Proxies \ {p} : rows'[q] = rows[q]
  BY <1>1, Zenon
<1>3. \A q \in Proxies : RowOK(rows'[q])
  BY <1>2, Zenon DEF IInv, Keeps
<1>4. \A q \in Proxies : \A y \in Workers \ {w} : LockValid(rows'[q], y) <=> LockValid(rows[q], y)
  BY <1>2, Zenon DEF Keeps
<1>5. wk' = [x \in Workers |-> IF x = w THEN me
                ELSE [wk[x] EXCEPT !.seen = @ /\ ~(moved /\ Captured(x) = p)]]
  BY Zenon DEF Step
<1>6. \A x \in Workers \ {w} : MeOK(wk'[x]) /\ SameControl(wk[x], wk'[x])
  <2> TAKE x \in Workers \ {w}
  <2>1. wk'[x] = [wk[x] EXCEPT !.seen = @ /\ ~(moved /\ Captured(x) = p)]
    BY <1>5, Zenon
  <2>2. MeOK(wk[x])
    BY Zenon DEF IInv
  <2> QED BY <2>1, <2>2, OtherOK, Zenon
<1>7. wk'[w] = me
  BY <1>5, Zenon
<1>8. \A x \in Workers : MeOK(wk'[x])
  BY <1>6, <1>7, Zenon
<1>9. wk' \in [Workers -> WkSet]
  <2>1. wk' = [x \in Workers |-> wk'[x]]
    BY <1>5, Zenon
  <2> QED BY <2>1, <1>8, Zenon DEF MeOK
<1>10. /\ kept' = IF left /\ LockValid(r, w) THEN kept \cup {<<w, p>>} ELSE kept \ {<<w, p>>}
       /\ kept \subseteq Workers \X Proxies
  BY Zenon DEF Step, IInv
<1>11. kept' \subseteq kept \cup {<<w, p>>} /\ kept \ {<<w, p>>} \subseteq kept'
  BY <1>10, Zenon
<1>12. \A x \in Workers, q \in Proxies : x # w \/ q # p => <<x, q>> # <<w, p>>
  BY Zenon
<1>13. /\ OthersKept(w) /\ (left /\ LockValid(r, w) => <<w, p>> \in kept')
       /\ \A q \in Proxies \ {p} : <<w, q>> \in kept => <<w, q>> \in kept'
  <2>1. kept' \subseteq Workers \X Proxies
    BY <1>10, SMT
  <2>2. \A x \in Workers \ {w}, q \in Proxies : <<x, q>> \in kept => <<x, q>> \in kept'
    BY <1>11, <1>12, SMT
  <2>3. left /\ LockValid(r, w) => <<w, p>> \in kept'
    <3>1. left /\ LockValid(r, w) => kept' = kept \cup {<<w, p>>}
      BY <1>10, Zenon
    <3> QED BY <3>1, SMT
  <2>4. \A q \in Proxies \ {p} : <<w, q>> \in kept => <<w, q>> \in kept'
    BY <1>11, <1>12, SMT
  <2> QED BY <2>1, <2>2, <2>3, <2>4, Zenon DEF OthersKept
<1> QED BY <1>2, <1>3, <1>4, <1>6, <1>7, <1>8, <1>9, <1>13, Zenon DEF Local

(* So is a change of the worker alone. *)
LEMMA BecomeOK ==
    ASSUME IInv, NEW w \in Workers, NEW me, MeOK(me), Become(w, me)
    PROVE Local(w) /\ wk'[w] = me /\ rows' = rows /\ kept' = kept
<1>1. wk' = [wk EXCEPT ![w] = me] /\ rows' = rows /\ wk \in [Workers -> WkSet] /\ me \in WkSet
  BY Zenon DEF Become, IInv, MeOK
<1>2. wk' \in [Workers -> WkSet] /\ wk'[w] = me /\ \A x \in Workers \ {w} : wk'[x] = wk[x]
  BY <1>1, Zenon
<1>3. \A x \in Workers : MeOK(wk'[x])
  BY <1>2, Zenon DEF IInv
<1>4. kept' = kept
  BY Zenon DEF Become
<1> QED BY <1>1, <1>2, <1>3, <1>4, Zenon DEF Local, SameControl, IInv

(* A row the worker has forgotten after the step is recorded.              *)
NoNew(w) == \A p \in Proxies : Orphan(w, p)' => <<w, p>> \in kept'

(* The budget of adverse events is never exceeded. *)
LEMMA FaultsOK ==
    ASSUME IInv, Fault \/ NoFault
    PROVE faults' \in 0 .. MaxFaults
<1>1. ASSUME Fault PROVE faults' \in 0 .. MaxFaults
  <2>1. faults \in Nat /\ faults' = faults + 1 /\ faults < MaxFaults
    BY <1>1, PoolAssumption DEF IInv, Fault
  <2> QED BY <2>1, PoolAssumption
<1> QED BY <1>1, Zenon DEF NoFault, IInv

(* The rows stay as they are and the worker keeps the row it had. *)
LEMMA SameNoNew ==
    ASSUME IInv, NEW w \in Workers, rows' = rows, kept' = kept, Kept(wk'[w]) = Kept(wk[w])
    PROVE NoNew(w) /\ OthersKept(w)
<1>1. kept \subseteq Workers \X Proxies /\ \A p \in Proxies : Orphan(w, p) => <<w, p>> \in kept
  BY Zenon DEF IInv, NoOrphans
<1>2. \A p \in Proxies : Orphan(w, p)' => Orphan(w, p)
  BY Zenon DEF Orphan, Kept
<1>3. NoNew(w)
  BY <1>1, <1>2, Zenon DEF NoNew
<1>4. kept' \subseteq Workers \X Proxies
  BY <1>1, Zenon
<1>5. \A x \in Workers \ {w}, q \in Proxies : <<x, q>> \in kept => <<x, q>> \in kept'
  BY Zenon
<1> QED BY <1>3, <1>4, <1>5, Zenon DEF OthersKept

(* What an action of a worker is shown to do. *)
Good(w) ==
    /\ Local(w) /\ NoNew(w) /\ OthersKept(w)
    /\ wk[w].pc \in Running => wk'[w].pc \notin Running
    /\ notify' \in BOOLEAN /\ cancelled' = cancelled /\ faults' \in 0 .. MaxFaults

(* A step with the row the worker has, or with a new one when it has none: *)
(* its lock is gone, it is kept, or the step records that it is left.      *)
LEMMA StepGood ==
    ASSUME IInv, NEW w \in Workers, NEW me, MeOK(me), NEW p \in Proxies,
           Kept(wk[w]) \in {p, NoOne}, NEW r, NEW moved, NEW left,
           Keeps(w, rows[p], r), Step(w, me, p, r, moved, left),
           left \/ ~LockValid(r, w) \/ Kept(me) = p,
           wk[w].pc \in Running => me.pc \notin Running,
           Fault \/ NoFault, cancelled' = cancelled, notify' \in BOOLEAN
    PROVE Good(w)
<1>1. /\ Local(w) /\ wk'[w] = me /\ rows'[p] = r
      /\ \A q \in Proxies \ {p} : rows'[q] = rows[q]
      /\ OthersKept(w) /\ (left /\ LockValid(r, w) => <<w, p>> \in kept')
      /\ \A q \in Proxies \ {p} : <<w, q>> \in kept => <<w, q>> \in kept'
  BY StepOK, ZenonT(30)
<1>2. ASSUME NEW q \in Proxies, Orphan(w, q)' PROVE <<w, q>> \in kept'
  <2>1. LockValid(rows'[q], w) /\ q # Kept(wk'[w])
    BY <1>2, Zenon DEF Orphan, Kept
  <2>2. CASE q = p
    BY <1>1, <2>1, <2>2, Zenon
  <2>3. CASE q # p
    <3>1. LockValid(rows[q], w) /\ q # Kept(wk[w])
      BY <1>1, <2>1, <2>3, PoolAssumption, Zenon
    <3>2. <<w, q>> \in kept
      BY <3>1, Zenon DEF Orphan, Kept, IInv, NoOrphans
    <3> QED BY <1>1, <2>3, <3>2, Zenon
  <2> QED BY <2>2, <2>3, Zenon
<1>3. faults' \in 0 .. MaxFaults
  BY FaultsOK, Zenon
<1> QED BY <1>1, <1>2, <1>3, Zenon DEF Good, NoNew

(* A release, whether or not it fails. *)
LEMMA ReleaseGood ==
    ASSUME IInv, NEW w \in Workers, NEW me, MeOK(me), NEW p \in Proxies,
           Kept(wk[w]) \in {p, NoOne}, NEW r, NEW moved, NEW bad,
           Keeps(w, rows[p], r), Release(w, me, p, r, moved, bad),
           wk[w].pc \in Running => me.pc \notin Running,
           Fault \/ NoFault, cancelled' = cancelled, notify' \in BOOLEAN
    PROVE Good(w)
<1>1. CASE Step(w, me, p, ReleaseProxy(r, w), moved, FALSE)
  <2>1. Keeps(w, r, ReleaseProxy(r, w)) /\ ~LockValid(ReleaseProxy(r, w), w)
    BY ReleaseRow, Zenon DEF Keeps
  <2>2. Keeps(w, rows[p], ReleaseProxy(r, w))
    BY <2>1, KeepsTwice, Zenon
  <2> QED BY <1>1, <2>1, <2>2, StepGood, ZenonT(30)
<1>2. CASE Step(w, me, p, r, moved, TRUE)
  BY <1>2, StepGood, ZenonT(30)
<1> QED BY <1>1, <1>2, Zenon DEF Release

(* A worker that waits for a proxy has no claim. *)
LEMMA BackOffOK ==
    ASSUME IInv, NEW w \in Workers
    PROVE MeOK(BackOff(w)) /\ BackOff(w).pc = "backoff" /\ BackOff(w).claim = NoOne
<1> DEFINE m == wk[w]
<1>1. MeOK(m)
  BY Zenon DEF IInv
<1> HIDE DEF m
<1> DEFINE n == [m EXCEPT !.pc = "backoff", !.claim = NoOne, !.seen = FALSE]
<1>2. /\ n \in WkSet /\ n.pc = "backoff" /\ n.claim = NoOne
      /\ n.why = m.why /\ n.proxy = m.proxy
  BY <1>1, Zenon DEF MeOK, WkSet, Phases, Acquiring
<1>3. n = BackOff(w)
  BY Zenon DEF m, BackOff
<1> HIDE DEF n
<1> QED BY <1>1, <1>2, <1>3, Zenon DEF MeOK, Working, Running

(* The next delivery is waited for with the row the worker has. *)
LEMMA IdleOK ==
    ASSUME IInv, NEW w \in Workers, wk[w].proxy # NoOne
    PROVE MeOK(Idle(w)) /\ Idle(w).pc = "idle" /\ Idle(w).proxy = wk[w].proxy
<1> DEFINE m == wk[w]
<1>1. MeOK(m) /\ m.proxy # NoOne
  BY Zenon DEF IInv
<1> HIDE DEF m
<1> DEFINE n == [m EXCEPT !.pc = "idle", !.why = "start", !.claim = NoOne, !.seen = FALSE]
<1>2. /\ n \in WkSet /\ n.pc = "idle" /\ n.claim = NoOne
      /\ n.why = "start" /\ n.proxy = m.proxy
  BY <1>1, Zenon DEF MeOK, WkSet, Phases, Reasons
<1>3. n = Idle(w)
  BY Zenon DEF m, Idle
<1> HIDE DEF n
<1>4. MeOK(n)
  BY <1>1, <1>2, Zenon DEF MeOK
<1> QED BY <1>2, <1>3, <1>4, Zenon DEF m

(* A pause is part of the record only. *)
LEMMA PausedOK ==
    ASSUME NEW m, MeOK(m)
    PROVE MeOK(Paused(m)) /\ Paused(m).pc = m.pc /\ Paused(m).proxy = m.proxy
<1>1. /\ Paused(m) \in WkSet /\ Paused(m).pc = m.pc /\ Paused(m).proxy = m.proxy
      /\ Paused(m).why = m.why /\ Paused(m).claim = m.claim
  BY Zenon DEF MeOK, WkSet, Paused
<1> QED BY <1>1, Zenon DEF MeOK

(* A loop that returned has no row. *)
LEMMA DoneOK ==
    ASSUME NEW w
    PROVE MeOK(Done(w)) /\ Done(w).pc = "done" /\ Done(w).proxy = NoOne
<1>1. /\ Done(w) \in WkSet /\ Done(w).pc = "done" /\ Done(w).claim = NoOne
      /\ Done(w).why = "start" /\ Done(w).proxy = NoOne
  BY Zenon DEF Done, WkSet, Phases, Reasons
<1> QED BY <1>1, Zenon DEF MeOK, Working, Running

(* A checked claim becomes the row of the worker. *)
LEMMA AcquiredOK ==
    ASSUME IInv, NEW w \in Workers, wk[w].pc = "check"
    PROVE /\ MeOK(Acquired(w)) /\ Acquired(w).pc \in {"idle", "wait", "rewait"}
          /\ Acquired(w).proxy = wk[w].claim
<1> DEFINE m == wk[w]
           pc == CASE m.why = "start" -> "idle" [] m.why = "lost"  -> "wait"
                   [] m.why = "retry" -> "rewait"
<1>1. MeOK(m) /\ m.claim # NoOne
  BY Zenon DEF IInv, MeOK
<1>2. m.why \in Reasons
  BY <1>1, Zenon DEF MeOK, WkSet
<1>3. pc \in {"idle", "wait", "rewait"}
  BY <1>2, Zenon DEF Reasons
<1>4. Acquired(w) = [m EXCEPT !.pc = pc, !.why = "start", !.proxy = m.claim, !.claim = NoOne,
                               !.seen = TRUE, !.paused = FALSE]
  BY Zenon DEF Acquired
<1> HIDE DEF m, pc
<1> DEFINE n == [m EXCEPT !.pc = pc, !.why = "start", !.proxy = m.claim, !.claim = NoOne,
                           !.seen = TRUE, !.paused = FALSE]
<1>5. n \in WkSet /\ n.pc = pc /\ n.claim = NoOne /\ n.why = "start" /\ n.proxy = m.claim
  <2>1. m \in WkSet /\ pc \in Phases /\ "start" \in Reasons /\ m.claim \in Proxies \cup {NoOne}
    BY <1>1, <1>3, Zenon DEF MeOK, WkSet, Phases, Working, Reasons
  <2> QED BY <2>1, Zenon DEF WkSet
<1> HIDE DEF n
<1>6. MeOK(n)
  BY <1>1, <1>3, <1>5, Zenon DEF MeOK
<1> QED BY <1>3, <1>4, <1>5, <1>6, Zenon DEF m, n

(* A change of the control state alone. *)
LEMMA ToOK ==
    ASSUME IInv, NEW w \in Workers, NEW pc \in Phases, pc # "check", wk[w].pc # "check",
           pc \in Working \cup {"idle"} => wk[w].pc \in Working \cup {"idle"}
    PROVE LET n == [wk[w] EXCEPT !.pc = pc]
          IN MeOK(n) /\ n.pc = pc /\ n.proxy = wk[w].proxy /\ n.claim = wk[w].claim
<1> DEFINE m == wk[w]
<1>1. MeOK(m)
  BY Zenon DEF IInv
<1>2. m.pc # "check" /\ (pc \in Working \cup {"idle"} => m.pc \in Working \cup {"idle"})
  BY Zenon
<1> SUFFICES MeOK([m EXCEPT !.pc = pc]) /\ [m EXCEPT !.pc = pc].pc = pc
             /\ [m EXCEPT !.pc = pc].proxy = m.proxy /\ [m EXCEPT !.pc = pc].claim = m.claim
  BY Zenon
<1> HIDE DEF m
<1> DEFINE n == [m EXCEPT !.pc = pc]
<1>3. /\ n \in WkSet /\ n.pc = pc /\ n.claim = m.claim /\ n.why = m.why /\ n.proxy = m.proxy
  BY <1>1, Zenon DEF MeOK, WkSet
<1> HIDE DEF n
<1>4. MeOK(n)
  BY <1>1, <1>2, <1>3, Zenon DEF MeOK
<1> QED BY <1>3, <1>4, Zenon DEF n

-----------------------------------------------------------------------------
(* One lemma per action of a worker. *)

(* Claiming a row, finding none, or failing to. *)
LEMMA ClaimGood ==
    ASSUME IInv, NEW w \in Workers, Claim(w)
    PROVE Good(w)
<1>1. wk[w].pc = "acquire" /\ notify' = notify /\ cancelled' = cancelled /\ MeOK(wk[w])
  BY Zenon DEF Claim, IInv
<1>2. Kept(wk[w]) = NoOne /\ wk[w].pc \notin Running
  BY <1>1, Zenon DEF Kept, Acquiring, MeOK, Running
<1>3. ASSUME NEW p \in Proxies, Claimable(rows[p]), NoFault,
             Step(w, [wk[w] EXCEPT !.pc = "check", !.claim = p, !.seen = TRUE], p,
                  ClaimProxy(rows[p], w), FALSE, FALSE)
      PROVE Good(w)
  <2> DEFINE m == wk[w]
             n == [m EXCEPT !.pc = "check", !.claim = p, !.seen = TRUE]
             r == ClaimProxy(rows[p], w)
  <2>1. MeOK(n) /\ n.pc = "check" /\ n.claim = p
    <3>1. MeOK(m) /\ p # NoOne
      BY <1>1, PoolAssumption, Zenon
    <3> HIDE DEF m
    <3>2. /\ n \in WkSet /\ n.pc = "check" /\ n.claim = p
          /\ n.why = m.why /\ n.proxy = m.proxy
      BY <3>1, Zenon DEF MeOK, WkSet, Phases, Acquiring
    <3> HIDE DEF n
    <3> QED BY <3>1, <3>2, Zenon DEF MeOK, Working, Running
  <2>2. Step(w, n, p, r, FALSE, FALSE)
    BY <1>3, Zenon
  <2>3. Keeps(w, rows[p], r)
    BY <1>3, ClaimRow, Zenon DEF IInv, Claimable
  <2> HIDE DEF n, r
  <2>4. Kept(n) = p
    BY <2>1, Zenon DEF Kept, Acquiring
  <2>5. notify' \in BOOLEAN /\ Kept(wk[w]) \in {p, NoOne}
    BY <1>1, <1>2, Zenon DEF IInv
  <2> QED BY <1>1, <1>2, <1>3, <2>1, <2>2, <2>3, <2>4, <2>5, StepGood, ZenonT(30)
<1>4. ASSUME Become(w, BackOff(w)), NoFault \/ Fault
      PROVE Good(w)
  <2>1. Local(w) /\ wk'[w] = BackOff(w) /\ rows' = rows /\ kept' = kept
    BY <1>4, BackOffOK, BecomeOK, Zenon
  <2>2. Kept(wk'[w]) = NoOne
    BY <2>1, BackOffOK, Zenon DEF Kept, Acquiring
  <2>3. NoNew(w) /\ OthersKept(w)
    BY <1>2, <2>1, <2>2, SameNoNew, Zenon
  <2>4. faults' \in 0 .. MaxFaults
    BY <1>4, FaultsOK, Zenon
  <2> QED BY <1>1, <1>2, <2>1, <2>3, <2>4, Zenon DEF Good, IInv
<1> QED BY <1>3, <1>4, ZenonT(30) DEF Claim

(* An error that is not wrapped names no proxy. *)
LEMMA Unwrapped ==
    /\ \A is : Err(FALSE, is).proxy = FALSE
    /\ \A why : \A err \in Either(FALSE, why) : err.proxy = FALSE
<1>1. \A is : Err(FALSE, is).proxy = FALSE
  BY SMT DEF Err
<1> QED BY <1>1, Zenon DEF Either

(* A step that looks at the caller's context blames the proxy only while   *)
(* the context is alive, and an unwrapped error blames nobody.             *)
LEMMA CheckedErrors ==
    ASSUME NEW why, NEW errs, NEW err, err \in Checked(why, errs), err.proxy
    PROVE why \notin Ended /\ err \in errs
<1>1. Err(FALSE, why).proxy = FALSE
  BY Zenon DEF Err
<1> QED BY <1>1, Zenon DEF Checked

(* The connect phase of the dialers wraps the failure of a step of the     *)
(* proxy or, with SOCKS5, of the address; when the caller's context ended, *)
(* only SOCKS5, a TCP dial and a refusal still do.                         *)
LEMMA DialErrors ==
    ASSUME NEW scheme \in Schemes, NEW step \in Steps, NEW why \in Causes,
           NEW err \in Dial(scheme, step, why), err.proxy
    PROVE /\ Blamable(scheme, step)
          /\ why \in Ended => scheme = "socks5" \/ step \in {"dial", "refused"}
<1> DEFINE Goal == /\ step \in ProxySteps
                   /\ why \in Ended => step \in {"dial", "refused"}
<1>1. err \notin Checked(why, {})
  <2>1. ASSUME err \in Checked(why, {}) PROVE err \in {}
    BY <2>1, CheckedErrors, Zenon
  <2> QED BY <2>1, Zenon
<1>2. ASSUME err \in httpConnectDial(scheme, step, why) PROVE Goal
  <2>1. CASE step \in {"dial", "refused"}
    BY <2>1, Zenon DEF ProxySteps
  <2>2. CASE step = "proxyTLS" /\ scheme = "https"
    <3>1. err \in Checked(why, Either(TRUE, why))
      BY <1>2, <2>2, Zenon DEF httpConnectDial
    <3> QED BY <2>2, <3>1, CheckedErrors, Zenon DEF ProxySteps
  <2>3. CASE step \in {"write", "reply"}
    <3>1. err \in Checked(why, {Err(TRUE, "other")})
      BY <1>2, <2>3, Zenon DEF httpConnectDial
    <3> QED BY <2>3, <3>1, CheckedErrors, Zenon DEF ProxySteps
  <2>4. CASE /\ step \notin {"dial", "refused", "write", "reply"}
             /\ ~(step = "proxyTLS" /\ scheme = "https")
    BY <1>2, <2>4, Zenon DEF httpConnectDial
  <2> QED BY <2>1, <2>2, <2>3, <2>4, Zenon
<1>3. ASSUME err \in socks4Dial(step, why) PROVE Goal
  <2>1. CASE step \in {"dial", "refused"}
    BY <2>1, Zenon DEF ProxySteps
  <2>2. CASE step = "address"
    <3>1. err \in Either(FALSE, why)
      BY <1>3, <2>2, Zenon DEF socks4Dial
    <3> QED BY <3>1, Unwrapped, Zenon
  <2>3. CASE step \in {"write", "reply"}
    <3>1. err \in Checked(why, {Err(TRUE, "other")})
      BY <1>3, <2>3, Zenon DEF socks4Dial
    <3> QED BY <2>3, <3>1, CheckedErrors, Zenon DEF ProxySteps
  <2>4. CASE step \notin {"address", "dial", "refused", "write", "reply"}
    BY <1>3, <2>4, Zenon DEF socks4Dial
  <2> QED BY <2>1, <2>2, <2>3, <2>4, Zenon
<1>4. ASSUME err \in socks5Dial(step, why) PROVE step \in ProxySteps \cup {"address"}
  BY <1>4, Zenon DEF socks5Dial
<1>5. CASE scheme \in {"http", "https"}
  BY <1>1, <1>2, <1>5, Zenon DEF Dial, Blamable
<1>6. CASE scheme = "socks4"
  BY <1>1, <1>3, <1>6, Zenon DEF Dial, Blamable
<1>7. CASE scheme = "socks5"
  BY <1>1, <1>4, <1>7, Zenon DEF Dial, Blamable
<1> QED BY <1>5, <1>6, <1>7, Zenon DEF Schemes

(* So does the whole request, whose handshake with the target wraps        *)
(* nothing.                                                                *)
LEMMA RoundTripErrors ==
    ASSUME NEW scheme \in Schemes, NEW step \in Steps, NEW why \in Causes,
           NEW err \in RoundTrip(scheme, step, why), err.proxy
    PROVE /\ Blamable(scheme, step)
          /\ why \in Ended => scheme = "socks5" \/ step \in {"dial", "refused"}
<1>1. err \notin Checked(why, {})
  <2>1. ASSUME err \in Checked(why, {}) PROVE err \in {}
    BY <2>1, CheckedErrors, Zenon
  <2> QED BY <2>1, Zenon
<1>2. err \notin browserTLSClient(step, why)
  <2> DEFINE errs == IF step = "tls" THEN {Err(FALSE, "other")} ELSE {}
  <2>1. err \notin errs
    BY Unwrapped, Zenon
  <2>2. ASSUME err \in Checked(why, errs) PROVE err \in errs
    <3> HIDE DEF errs
    <3> QED BY <2>2, CheckedErrors, Zenon
  <2> QED BY <2>1, <2>2, Zenon DEF browserTLSClient
<1>3. err \in Dial(scheme, step, why)
  BY <1>1, <1>2, Zenon DEF RoundTrip
<1> QED BY <1>3, DialErrors, Zenon

(* A check of which the caller still wants the answer blames the proxy     *)
(* only for what the connect phase does.                                   *)
LEMMA CheckBlame ==
    ASSUME NEW scheme \in Schemes, NEW step \in Steps, NEW why \in Causes,
           "proxy" \in Check(scheme, step, why)
    PROVE Blamable(scheme, step) /\ why \notin Ended
<1>1. \A err : classifyCheckError(why, err) = "proxy" => err.proxy /\ why \notin Ended
  BY Zenon DEF classifyCheckError, Ended
<1>2. \A err \in Either(FALSE, why) : err.proxy = FALSE
  BY Unwrapped, Zenon
<1>3. \E err \in RoundTrip(scheme, step, why) : classifyCheckError(why, err) = "proxy"
  <2>1. CASE step = "build"
    BY <2>1, Zenon DEF Check
  <2>2. CASE step # "build" /\ RoundTrip(scheme, step, why) # {}
    <3>1. "proxy" \in {classifyCheckError(why, e) : e \in RoundTrip(scheme, step, why)}
      BY <2>2, Zenon DEF Check
    <3> QED BY <3>1, Zenon
  <2>3. CASE step # "build" /\ RoundTrip(scheme, step, why) = {}
    BY <1>1, <1>2, <2>3, Zenon DEF Check
  <2> QED BY <2>1, <2>2, <2>3, Zenon
<1> QED BY <1>1, <1>3, RoundTripErrors, Zenon

(* A proxy is blamed only for a failure before the target, by a check only *)
(* while its caller waits, and by a Lodestone request whose context ended  *)
(* only for a TCP dial, a refusal or a SOCKS5 handshake                    *)
(* (classifyCheckError, WrapProxyDial).                                    *)
THEOREM BlameTheorem == BlameIsProven
<1> SUFFICES ASSUME NEW scheme \in Schemes, NEW step \in Steps, NEW why \in Causes
             PROVE /\ "proxy" \in Check(scheme, step, why) \cup HealthCheck(scheme, step, why) =>
                          Blamable(scheme, step) /\ why \notin Ended
                   /\ \A err \in RoundTrip(scheme, step, why) :
                          WrapProxyDial(err) = "proxy" =>
                             /\ Blamable(scheme, step)
                             /\ why \in Ended => scheme = "socks5" \/ step \in {"dial", "refused"}
  BY Zenon DEF BlameIsProven
<1>1. "proxy" \in HealthCheck(scheme, step, why) => "proxy" \in Check(scheme, step, why)
  BY Zenon DEF HealthCheck
<1>2. \A err : WrapProxyDial(err) = "proxy" => err.proxy
  BY Zenon DEF WrapProxyDial
<1> QED BY <1>1, <1>2, CheckBlame, RoundTripErrors, Zenon

(* The verdict of the destination check is applied. *)
LEMMA VerifyGood ==
    ASSUME IInv, NEW w \in Workers, Verify(w)
    PROVE Good(w)
<1> DEFINE p == wk[w].claim
<1>1. /\ wk[w].pc = "check" /\ UNCHANGED <<notify, cancelled>> /\ MeOK(wk[w])
      /\ p \in Proxies /\ RowOK(rows[p]) /\ wk[w].seen \in BOOLEAN
  BY Zenon DEF Verify, IInv, MeOK, WkSet
<1>2. wk[w].pc \notin Running /\ Kept(wk[w]) = p
  BY <1>1, Zenon DEF Running, Kept, Acquiring
<1>3. /\ MeOK(BackOff(w)) /\ notify' \in BOOLEAN /\ Keeps(w, rows[p], rows[p])
      /\ cancelled' = cancelled /\ Kept(wk[w]) \in {p, NoOne}
  BY <1>1, <1>2, BackOffOK, Zenon DEF Keeps, IInv
<1>4. CASE CheckOK(w)
  <2>1. ASSUME NoFault, Become(w, Acquired(w)) PROVE Good(w)
    <3>1. Local(w) /\ wk'[w] = Acquired(w) /\ rows' = rows /\ kept' = kept
      BY <1>1, <2>1, AcquiredOK, BecomeOK, Zenon
    <3>2. wk'[w].pc \in {"idle", "wait", "rewait"} /\ wk'[w].proxy = p
      BY <1>1, <3>1, AcquiredOK, Zenon
    <3>3. Kept(wk'[w]) = p
      BY <3>2, Zenon DEF Kept, Acquiring
    <3> QED BY <1>1, <1>2, <2>1, <3>1, <3>3, SameNoNew, Zenon DEF Good, NoFault, IInv
  <2>2. ASSUME NEW bad \in BOOLEAN, Adverse(bad), Release(w, BackOff(w), p, rows[p], FALSE, bad)
        PROVE Good(w)
    <3>1. Fault \/ NoFault
      BY <2>2, Zenon DEF Adverse
    <3> QED BY <1>1, <1>2, <1>3, <2>2, <3>1, ReleaseGood, ZenonT(30)
  <2>3. ASSUME StoreError(w) PROVE Good(w)
    <3>1. Fault \/ NoFault
      BY <2>3, Zenon DEF StoreError
    <3>2. Step(w, BackOff(w), p, rows[p], FALSE, TRUE)
      BY <2>3, Zenon DEF StoreError
    <3> QED BY <1>1, <1>2, <1>3, <3>1, <3>2, StepGood, ZenonT(30)
  <2> QED BY <1>4, <2>1, <2>2, <2>3, Zenon DEF CheckOK
<1>5. ASSUME NEW kind, CheckFailed(w, kind), Fault \/ NoFault
      PROVE Good(w)
  <2> DEFINE marked == IF kind = "proxy" THEN RecordConsumerFailure(rows[p], w, wk[w].seen)
                       ELSE rows[p]
             moved == kind = "proxy" /\ Fenced(rows[p], w, wk[w].seen)
             bad == kind # "cancelled"
  <2>1. ASSUME kind = "target" PROVE Good(w)
    <3>1. Step(w, BackOff(w), p, CooldownDestination(rows[p], w), FALSE, FALSE)
      BY <1>5, <2>1, Zenon DEF CheckFailed
    <3>2. /\ Keeps(w, rows[p], CooldownDestination(rows[p], w))
          /\ ~LockValid(CooldownDestination(rows[p], w), w)
      BY <1>1, CooldownRow, Zenon
    <3> QED BY <1>1, <1>2, <1>3, <1>5, <3>1, <3>2, StepGood, ZenonT(30)
  <2>2. ASSUME kind # "target" PROVE Good(w)
    <3>1. Release(w, BackOff(w), p, marked, moved, bad)
      BY <1>5, <2>2, Zenon DEF CheckFailed
    <3>2. Keeps(w, rows[p], marked)
      BY <1>1, <1>3, FailureRow, Zenon
    <3> HIDE DEF marked, moved, bad
    <3> QED BY <1>1, <1>2, <1>3, <1>5, <3>1, <3>2, ReleaseGood, ZenonT(30)
  <2> QED BY <2>1, <2>2, Zenon
<1>6. CASE BuildFails(w) /\ Fault
  <2> DEFINE me == IF wk[w].why = "start" THEN Done(w) ELSE Idle(w)
  <2>1. Release(w, me, p, rows[p], FALSE, TRUE)
    BY <1>6, Zenon DEF BuildFails
  <2>2. MeOK(me)
    BY <1>1, DoneOK, IdleOK, Zenon DEF MeOK
  <2> HIDE DEF me
  <2> QED BY <1>1, <1>2, <1>3, <1>6, <2>1, <2>2, ReleaseGood, ZenonT(30)
<1> QED BY <1>4, <1>5, <1>6, Zenon DEF Verify

(* Waking up from the wait for a proxy. *)
LEMMA WakeUpGood ==
    ASSUME IInv, NEW w \in Workers, WakeUp(w)
    PROVE Good(w)
<1>1. wk[w].pc = "backoff" /\ cancelled' = cancelled /\ faults' = faults /\ notify' \in BOOLEAN
  BY Zenon DEF WakeUp, IInv
<1>2. wk[w].pc \notin Running /\ wk[w].pc # "check" /\ wk[w].pc \in Acquiring
  BY <1>1, Zenon DEF Running, Acquiring
<1>3. ASSUME Become(w, [wk[w] EXCEPT !.pc = "acquire"]) PROVE Good(w)
  <2> DEFINE n == [wk[w] EXCEPT !.pc = "acquire"]
  <2>1. MeOK(n) /\ n.pc = "acquire" /\ n.claim = wk[w].claim
    BY <1>2, ToOK, Zenon DEF Phases, Acquiring, Working, Running
  <2>2. Become(w, n)
    BY <1>3, Zenon
  <2> HIDE DEF n
  <2>3. Local(w) /\ wk'[w] = n /\ rows' = rows /\ kept' = kept
    BY <2>1, <2>2, BecomeOK, Zenon
  <2>4. Kept(wk'[w]) = Kept(wk[w])
    BY <1>2, <2>1, <2>3, Zenon DEF Kept, Acquiring
  <2> QED BY <1>1, <1>2, <2>3, <2>4, SameNoNew, Zenon DEF Good, IInv
<1>4. ASSUME CtxDone(w), Become(w, Done(w)) PROVE Good(w)
  <2>1. Local(w) /\ wk'[w] = Done(w) /\ rows' = rows /\ kept' = kept
    BY <1>4, DoneOK, BecomeOK, Zenon
  <2>2. Kept(wk'[w]) = NoOne
    BY <2>1, DoneOK, Zenon DEF Kept, Acquiring
  <2>3. Kept(wk[w]) = NoOne
    BY <1>1, <1>2, Zenon DEF Kept, IInv, MeOK
  <2> QED BY <1>1, <1>2, <2>1, <2>2, <2>3, SameNoNew, Zenon DEF Good, IInv
<1> QED BY <1>3, <1>4, Zenon DEF WakeUp

(* A worker that has a row and goes on with it. *)
LEMMA GoOnGood ==
    ASSUME IInv, NEW w \in Workers, wk[w].pc \in Working \cup {"idle"}, NEW me, MeOK(me),
           me.proxy = wk[w].proxy, me.pc \in Working \cup {"idle"},
           wk[w].pc \in Running => me.pc \notin Running,
           Become(w, me), NoFault \/ Fault, UNCHANGED cancelled, notify' \in BOOLEAN
    PROVE Good(w)
<1>1. Local(w) /\ wk'[w] = me /\ rows' = rows /\ kept' = kept
  BY BecomeOK, Zenon
<1>2. Kept(wk'[w]) = Kept(wk[w])
  BY <1>1, Zenon DEF Kept, Acquiring, Working, Running
<1>3. faults' \in 0 .. MaxFaults
  BY FaultsOK, Zenon
<1> QED BY <1>1, <1>2, <1>3, SameNoNew, Zenon DEF Good

(* The row of a worker in its loop. *)
LEMMA LoopRow ==
    ASSUME IInv, NEW w \in Workers, wk[w].pc \in Working \cup {"idle"}
    PROVE /\ wk[w].proxy \in Proxies /\ Kept(wk[w]) = wk[w].proxy
          /\ Kept(wk[w]) \in {wk[w].proxy, NoOne}
BY Zenon DEF IInv, MeOK, WkSet, Kept, Acquiring, Working, Running

(* Replacing a row up to the next acquisition. *)
LEMMA ReplaceGood ==
    ASSUME IInv, NEW w \in Workers, wk[w].pc \in Working, NEW r, Keeps(w, rows[wk[w].proxy], r),
           NEW bad \in BOOLEAN, NEW moved, NEW why \in {"lost", "retry"},
           replaceProxy(w, r, bad, moved, why), Adverse(bad), UNCHANGED cancelled
    PROVE Good(w)
<1> DEFINE m == wk[w]
           n == [m EXCEPT !.pc = "acquire", !.why = why, !.seen = FALSE]
<1>1. MeOK(m) /\ m.claim = NoOne /\ m.proxy # NoOne
  BY Zenon DEF IInv, MeOK, Working, Running
<1>2. Release(w, n, wk[w].proxy, r, moved, bad)
  BY Zenon DEF replaceProxy
<1>3. notify' = TRUE
  BY Zenon DEF replaceProxy, NotifyAvailable
<1>4. MeOK(n) /\ n.pc = "acquire"
  <2> HIDE DEF m
  <2>1. /\ n \in WkSet /\ n.pc = "acquire" /\ n.claim = m.claim /\ n.why = why
        /\ n.proxy = m.proxy
    BY <1>1, Zenon DEF MeOK, WkSet, Phases, Acquiring, Reasons
  <2> HIDE DEF n
  <2> QED BY <1>1, <2>1, Zenon DEF MeOK, Working, Running
<1>5. Fault \/ NoFault
  BY Zenon DEF Adverse
<1>6. n.pc \notin Running /\ notify' \in BOOLEAN
  BY <1>3, <1>4, Zenon DEF Running
<1>7. wk[w].proxy \in Proxies /\ Kept(wk[w]) \in {wk[w].proxy, NoOne}
  BY LoopRow, Zenon
<1> HIDE DEF n
<1> QED BY <1>2, <1>4, <1>5, <1>6, <1>7, ReleaseGood, ZenonT(30)

(* The lock is revalidated before a delivery. *)
LEMMA CanUseGood ==
    ASSUME IInv, NEW w \in Workers, CanUse(w)
    PROVE Good(w)
<1> DEFINE m == wk[w]
           r == rows[wk[w].proxy]
<1>1. wk[w].pc = "use" /\ wk[w].pc \in Working /\ cancelled' = cancelled /\ wk[w].pc \notin Running
  BY Zenon DEF CanUse, Working, Running
<1>2. MeOK(m) /\ m.proxy # NoOne /\ m.proxy \in Proxies /\ RowOK(r)
  BY <1>1, Zenon DEF IInv, MeOK, WkSet
<1>3. ASSUME Fault, Become(w, Idle(w)), UNCHANGED notify PROVE Good(w)
  BY <1>1, <1>2, <1>3, IdleOK, GoOnGood, Zenon DEF IInv, Working, Running
<1>4. ASSUME NoFault, Become(w, [m EXCEPT !.pc = "wait", !.seen = TRUE]), UNCHANGED notify
      PROVE Good(w)
  <2> DEFINE n == [m EXCEPT !.pc = "wait", !.seen = TRUE]
  <2>1. MeOK(n) /\ n.pc = "wait" /\ n.proxy = m.proxy
    <3>1. m.claim = NoOne
      BY <1>1, <1>2, Zenon DEF MeOK
    <3> HIDE DEF m
    <3>2. /\ n \in WkSet /\ n.pc = "wait" /\ n.claim = m.claim /\ n.why = m.why
          /\ n.proxy = m.proxy
      BY <1>2, Zenon DEF MeOK, WkSet, Phases, Working
    <3> HIDE DEF n
    <3> QED BY <1>2, <3>1, <3>2, Zenon DEF MeOK
  <2> HIDE DEF n
  <2> QED BY <1>1, <1>4, <2>1, GoOnGood, Zenon DEF n, IInv, Working, Running
<1>5. ASSUME NEW bad \in BOOLEAN, Adverse(bad), replaceProxy(w, r, bad, FALSE, "lost")
      PROVE Good(w)
  <2>1. Keeps(w, r, r)
    BY <1>2, Zenon DEF Keeps
  <2> QED BY <1>1, <1>5, <2>1, ReplaceGood, Zenon
<1> QED BY <1>3, <1>4, <1>5, Zenon DEF CanUse

(* The handler starts. *)
LEMMA StartGood ==
    ASSUME IInv, NEW w \in Workers, StartHandler(w)
    PROVE Good(w)
<1> DEFINE pc == IF wk[w].pc = "wait" THEN "run" ELSE "rerun"
           n == [wk[w] EXCEPT !.pc = pc]
<1>1. /\ wk[w].pc \in {"wait", "rewait"} /\ UNCHANGED <<notify, cancelled, faults>>
      /\ Become(w, n)
  BY Zenon DEF StartHandler
<1>2. pc \in Running /\ pc \in Phases /\ pc # "check"
  BY Zenon DEF Running, Phases, Working
<1>3. wk[w].pc \in Working /\ wk[w].pc # "check" /\ wk[w].pc \notin Running
  BY <1>1, Zenon DEF Working, Running
<1> HIDE DEF pc
<1>4. MeOK(n) /\ n.pc = pc /\ n.proxy = wk[w].proxy
  BY <1>2, <1>3, ToOK, Zenon DEF Working
<1> HIDE DEF n
<1> QED BY <1>1, <1>2, <1>3, <1>4, GoOnGood, Zenon DEF Working, NoFault, IInv

(* The handler succeeds. *)
LEMMA HandlerOKGood ==
    ASSUME IInv, NEW w \in Workers, HandlerOK(w)
    PROVE Good(w)
<1>1. /\ wk[w].pc \in Running /\ UNCHANGED <<notify, cancelled, faults>> /\ Become(w, Idle(w))
      /\ wk[w].pc \in Working
  BY Zenon DEF HandlerOK, Working
<1>2. MeOK(Idle(w)) /\ Idle(w).pc = "idle" /\ Idle(w).proxy = wk[w].proxy
  BY <1>1, IdleOK, Zenon DEF IInv, MeOK
<1> QED BY <1>1, <1>2, GoOnGood, Zenon DEF Running, NoFault, IInv

(* The handler fails, on its first run or on the replacement. *)
LEMMA HandlerFailsGood ==
    ASSUME IInv, NEW w \in Workers, HandlerFails(w)
    PROVE Good(w)
<1> DEFINE p == wk[w].proxy
           seen == wk[w].seen
<1>1. Fault /\ cancelled' = cancelled
  BY Zenon DEF HandlerFails
<1>2. PICK error \in JobErrors :
          \/ wk[w].pc = "run" /\ FirstRunFails(w, error)
          \/ wk[w].pc = "rerun" /\ RerunFails(w, error)
          \/ wk[w].pc \in Running /\ RecordFails(w)
  BY Zenon DEF HandlerFails
<1>3. wk[w].pc \in Running /\ wk[w].pc \in Working
  BY <1>2, Zenon DEF Running, Working
<1>4. MeOK(wk[w]) /\ p \in Proxies /\ RowOK(rows[p]) /\ seen \in BOOLEAN /\ p # NoOne
  BY <1>3, Zenon DEF IInv, MeOK, WkSet
<1>5. MeOK(Idle(w)) /\ Idle(w).pc = "idle" /\ Idle(w).proxy = wk[w].proxy
  BY <1>4, IdleOK, Zenon
<1>6. MeOK(Paused(Idle(w))) /\ Paused(Idle(w)).pc = "idle"
  BY <1>5, PausedOK, Zenon
<1>7. "idle" \notin Running
  BY Zenon DEF Running
<1>8. Keeps(w, rows[p], RecordConsumerFailure(rows[p], w, seen)) /\ Keeps(w, rows[p], rows[p])
  BY <1>4, FailureRow, Zenon DEF Keeps
<1>9. CASE Become(w, Idle(w)) /\ UNCHANGED notify
  BY <1>1, <1>3, <1>5, <1>7, <1>9, GoOnGood, Zenon DEF IInv
<1>10. CASE wk[w].pc = "run" /\ FirstRunFails(w, error)
  <2>1. CASE error = "target"
    <3>1. /\ Step(w, Paused(Idle(w)), p, CooldownDestination(rows[p], w), FALSE, FALSE)
          /\ notify' = notify
      BY <1>10, <2>1, Zenon DEF FirstRunFails
    <3>2. /\ Keeps(w, rows[p], CooldownDestination(rows[p], w))
          /\ ~LockValid(CooldownDestination(rows[p], w), w)
      BY <1>4, CooldownRow, Zenon
    <3>3. notify' \in BOOLEAN /\ Kept(wk[w]) \in {p, NoOne} /\ Paused(Idle(w)).pc \notin Running
      BY <1>3, <1>6, <1>7, <3>1, LoopRow, Zenon DEF IInv
    <3> QED BY <1>1, <1>4, <1>6, <3>1, <3>2, <3>3, StepGood, ZenonT(30)
  <2>2. CASE error = "proxy"
    <3>1. replaceProxy(w, RecordConsumerFailure(rows[p], w, seen), TRUE,
                       Fenced(rows[p], w, seen), "retry")
      BY <1>10, <2>2, Zenon DEF FirstRunFails
    <3> QED BY <1>1, <1>3, <1>8, <3>1, ReplaceGood, Zenon DEF Adverse
  <2>3. CASE error \notin {"target", "proxy"}
    <3>1. Become(w, Idle(w)) /\ UNCHANGED notify
      BY <1>10, <2>3, Zenon DEF FirstRunFails
    <3> QED BY <1>9, <3>1, Zenon
  <2> QED BY <2>1, <2>2, <2>3, Zenon
<1>11. CASE wk[w].pc = "rerun" /\ RerunFails(w, error)
  <2> DEFINE marked == IF error = "proxy" THEN RecordConsumerFailure(rows[p], w, seen)
                       ELSE rows[p]
             me == IF error = "target" THEN Paused(Idle(w)) ELSE Idle(w)
             moved == error = "proxy" /\ Fenced(rows[p], w, seen)
  <2>1. Release(w, me, p, marked, moved, TRUE)
    BY <1>11, Zenon DEF RerunFails
  <2>2. notify' = notify
    BY <1>11, Zenon DEF RerunFails
  <2>3. Keeps(w, rows[p], marked) /\ MeOK(me) /\ me.pc = "idle"
    BY <1>5, <1>6, <1>8, Zenon
  <2> HIDE DEF marked, me, moved
  <2>4. notify' \in BOOLEAN /\ Kept(wk[w]) \in {p, NoOne} /\ me.pc \notin Running
    BY <1>3, <1>7, <2>2, <2>3, LoopRow, Zenon DEF IInv
  <2> QED BY <1>1, <1>4, <2>1, <2>3, <2>4, ReleaseGood, ZenonT(30)
<1> QED BY <1>2, <1>9, <1>10, <1>11, Zenon DEF RecordFails

(* The worker loop returns and its deferred release runs. *)
LEMMA StopGood ==
    ASSUME IInv, NEW w \in Workers, Stop(w)
    PROVE Good(w)
<1> DEFINE p == wk[w].proxy
<1>1. wk[w].pc = "idle" /\ cancelled' = cancelled /\ wk[w].pc \notin Running
  BY Zenon DEF Stop, Running
<1>2. p \in Proxies /\ RowOK(rows[p])
  BY <1>1, Zenon DEF IInv, MeOK, WkSet
<1>3. MeOK(Done(w)) /\ Done(w).pc \notin Running
  BY DoneOK, Zenon DEF Running
<1>4. Kept(wk[w]) \in {p, NoOne} /\ Keeps(w, rows[p], rows[p])
  BY <1>1, <1>2, LoopRow, Zenon DEF Keeps
<1>5. ASSUME Step(w, Done(w), p, ReleaseProxy(rows[p], w), FALSE, FALSE), notify' = TRUE, NoFault
      PROVE Good(w)
  <2>1. Keeps(w, rows[p], ReleaseProxy(rows[p], w)) /\ ~LockValid(ReleaseProxy(rows[p], w), w)
    BY <1>2, ReleaseRow, Zenon
  <2>2. notify' \in BOOLEAN
    BY <1>5, Zenon
  <2> QED BY <1>1, <1>2, <1>3, <1>4, <1>5, <2>1, <2>2, StepGood, ZenonT(30)
<1>6. ASSUME Step(w, Done(w), p, rows[p], FALSE, TRUE), notify' = notify, Fault
      PROVE Good(w)
  <2>1. notify' \in BOOLEAN
    BY <1>6, Zenon DEF IInv
  <2> QED BY <1>1, <1>2, <1>3, <1>4, <1>6, <2>1, StepGood, ZenonT(30)
<1> QED BY <1>5, <1>6, Zenon DEF Stop, NotifyAvailable

-----------------------------------------------------------------------------
(* The other steps: they change no owner, make no lock valid and leave     *)
(* every worker the row it has.                                            *)
Outer ==
    /\ rows' \in [Proxies -> RowSet] /\ wk' \in [Workers -> WkSet]
    /\ \A p \in Proxies : RowOK(rows'[p]) /\ rows'[p].owner = rows[p].owner
                          /\ (rows'[p].live => rows[p].live)
    /\ \A x \in Workers : MeOK(wk'[x]) /\ Kept(wk'[x]) = Kept(wk[x])
    /\ notify' \in BOOLEAN /\ cancelled' \in BOOLEAN /\ faults' \in 0 .. MaxFaults
    /\ kept' \subseteq kept
    /\ \A x \in Workers, p \in Proxies :
          <<x, p>> \in kept => <<x, p>> \in kept' \/ ~rows'[p].live

(* A step that leaves the rows and all but one worker alone. *)
LEMMA WorkerOuter ==
    ASSUME IInv, NEW w \in Workers, NEW me, MeOK(me), Become(w, me), Kept(me) = Kept(wk[w]),
           UNCHANGED <<notify, cancelled, faults>>
    PROVE Outer
<1>1. Local(w) /\ wk'[w] = me /\ rows' = rows /\ kept' = kept
  BY BecomeOK, Zenon
<1>2. \A x \in Workers : Kept(wk'[x]) = Kept(wk[x])
  BY <1>1, Zenon DEF Local, SameControl, Kept
<1> QED BY <1>1, <1>2, Zenon DEF Outer, Local, IInv

(* A delivery arrives. *)
LEMMA DeliverOuter ==
    ASSUME IInv, NEW w \in Workers, Deliver(w)
    PROVE Outer
<1> DEFINE n == [wk[w] EXCEPT !.pc = "use"]
<1>1. wk[w].pc = "idle" /\ Become(w, n) /\ UNCHANGED <<notify, cancelled, faults>>
  BY Zenon DEF Deliver
<1>2. MeOK(n) /\ n.pc = "use" /\ n.proxy = wk[w].proxy
  BY <1>1, ToOK, Zenon DEF Phases, Working
<1> HIDE DEF n
<1>3. Kept(n) = Kept(wk[w])
  BY <1>1, <1>2, Zenon DEF Kept, Acquiring
<1> QED BY <1>1, <1>2, <1>3, WorkerOuter, Zenon

(* A provider's pause ends. *)
LEMMA PauseOuter ==
    ASSUME IInv, NEW w \in Workers, PauseEnds(w)
    PROVE Outer
<1> DEFINE m == wk[w]
           n == [m EXCEPT !.paused = FALSE]
<1>1. MeOK(m) /\ Become(w, n) /\ UNCHANGED <<notify, cancelled, faults>>
  BY Zenon DEF PauseEnds, IInv
<1>2. MeOK(n) /\ Kept(n) = Kept(m)
  <2> HIDE DEF m
  <2>1. /\ n \in WkSet /\ n.pc = m.pc /\ n.claim = m.claim /\ n.why = m.why
        /\ n.proxy = m.proxy
    BY <1>1, Zenon DEF MeOK, WkSet
  <2> HIDE DEF n
  <2> QED BY <1>1, <2>1, Zenon DEF MeOK, Kept
<1> HIDE DEF n
<1> QED BY <1>1, <1>2, WorkerOuter, Zenon

(* A row's evidence, cooldown or lock time changes, not its owner. *)
LEMMA RowOuter ==
    ASSUME IInv, NEW p \in Proxies, NEW r \in RowSet, r.owner = rows[p].owner,
           r.live => rows[p].live, rows' = [rows EXCEPT ![p] = r],
           \/ UNCHANGED wk
           \/ wk' = [x \in Workers |-> [wk[x] EXCEPT !.seen = @ /\ Captured(x) # p]],
           UNCHANGED <<notify, cancelled>>, Fault \/ NoFault,
           kept' = kept \/ (kept' = kept \ (Workers \X {p}) /\ ~r.live)
    PROVE Outer
<1>1. /\ rows' \in [Proxies -> RowSet] /\ rows'[p] = r
      /\ \A q \in Proxies \ {p} : rows'[q] = rows[q]
  BY Zenon DEF IInv
<1>2. RowOK(r)
  BY Zenon DEF RowOK, IInv
<1>3. \A q \in Proxies : RowOK(rows'[q]) /\ rows'[q].owner = rows[q].owner
                         /\ (rows'[q].live => rows[q].live)
  BY <1>1, <1>2, Zenon DEF IInv
<1>4. \A x \in Workers : MeOK(wk'[x]) /\ SameControl(wk[x], wk'[x])
  <2>1. CASE wk' = wk
    BY <2>1, Zenon DEF IInv, SameControl
  <2>2. CASE wk' = [x \in Workers |-> [wk[x] EXCEPT !.seen = @ /\ Captured(x) # p]]
    <3> TAKE x \in Workers
    <3>1. wk'[x] = [wk[x] EXCEPT !.seen = @ /\ Captured(x) # p]
      BY <2>2, Zenon
    <3>2. MeOK(wk[x])
      BY Zenon DEF IInv
    <3> QED BY <3>1, <3>2, OtherOK, Zenon
  <2> QED BY <2>1, <2>2, Zenon
<1>5. wk' \in [Workers -> WkSet]
  <2>1. wk' = [x \in Workers |-> wk'[x]]
    BY Zenon DEF IInv
  <2> QED BY <2>1, <1>4, Zenon DEF MeOK
<1>6. faults' \in 0 .. MaxFaults
  BY FaultsOK, Zenon
<1>8. /\ kept' \subseteq kept
      /\ \A x \in Workers, q \in Proxies :
            <<x, q>> \in kept => <<x, q>> \in kept' \/ ~rows'[q].live
  <2>1. \A x \in Workers, q \in Proxies : <<x, q>> \in Workers \X {p} => q = p
    BY Zenon
  <2> QED BY <1>1, <2>1, Zenon
<1>7. \A x \in Workers : Kept(wk'[x]) = Kept(wk[x])
  BY <1>4, Zenon DEF SameControl, Kept
<1> QED BY <1>1, <1>3, <1>4, <1>5, <1>6, <1>7, <1>8, Zenon DEF Outer, IInv

(* The scanners, and time. *)
LEMMA ProxyOuter ==
    ASSUME IInv, NEW p \in Proxies,
           \/ ScanSucceeds(p) \/ ScanFails(p) \/ FreshnessLapses(p)
           \/ LockExpires(p) \/ LockOutrun(p) \/ CooldownEnds(p)
    PROVE Outer
<1>1. rows[p] \in RowSet /\ rows \in [Proxies -> RowSet]
  BY Zenon DEF IInv
<1>2. \A b \in BOOLEAN :
         LET r == [rows[p] EXCEPT !.fresh = b]
         IN r \in RowSet /\ r.owner = rows[p].owner /\ r.live = rows[p].live
            /\ [rows EXCEPT ![p].fresh = b] = [rows EXCEPT ![p] = r]
  BY <1>1, Zenon DEF RowSet
<1>3. LET r == [rows[p] EXCEPT !.live = FALSE]
      IN r \in RowSet /\ r.owner = rows[p].owner /\ r.live = FALSE
         /\ [rows EXCEPT ![p].live = FALSE] = [rows EXCEPT ![p] = r]
  BY <1>1, Zenon DEF RowSet
<1>4. LET r == [rows[p] EXCEPT !.cooled = FALSE]
      IN r \in RowSet /\ r.owner = rows[p].owner /\ r.live = rows[p].live
         /\ [rows EXCEPT ![p].cooled = FALSE] = [rows EXCEPT ![p] = r]
  BY <1>1, Zenon DEF RowSet
<1>5. CASE ScanSucceeds(p)
  BY <1>2, <1>5, RowOuter, ZenonT(30) DEF ScanSucceeds, NoFault
<1>6. CASE ScanFails(p)
  BY <1>2, <1>6, RowOuter, ZenonT(30) DEF ScanFails, NoFault
<1>7. CASE FreshnessLapses(p)
  BY <1>2, <1>7, RowOuter, ZenonT(30) DEF FreshnessLapses, NoFault
<1>8. CASE LockExpires(p)
  BY <1>3, <1>8, RowOuter, ZenonT(30) DEF LockExpires, NoFault
<1>9. CASE LockOutrun(p)
  BY <1>3, <1>9, RowOuter, ZenonT(30) DEF LockOutrun, NoFault
<1>10. CASE CooldownEnds(p)
  BY <1>4, <1>10, RowOuter, ZenonT(30) DEF CooldownEnds, NoFault
<1> QED BY <1>5, <1>6, <1>7, <1>8, <1>9, <1>10, Zenon

-----------------------------------------------------------------------------
(* Every step is a good step of one worker or a step around the workers. *)
LEMMA EveryStep ==
    ASSUME IInv, [Next]_vars
    PROVE Outer \/ \E w \in Workers : Good(w)
<1>1. ASSUME NEW w \in Workers, WorkerStep(w) PROVE Good(w)
  BY <1>1, ClaimGood, VerifyGood, WakeUpGood, CanUseGood, StartGood, HandlerOKGood,
     HandlerFailsGood, StopGood, Zenon DEF WorkerStep
<1>2. CASE UNCHANGED vars
  BY <1>2, Zenon DEF vars, IInv, Outer
<1>3. CASE StopSignal
  BY <1>3, Zenon DEF StopSignal, IInv, Outer
<1>4. CASE Finished
  BY <1>2, <1>4, Zenon DEF Finished
<1> QED BY <1>1, <1>2, <1>3, <1>4, DeliverOuter, PauseOuter, ProxyOuter, Zenon DEF Next

(* The initial state: nothing is claimed. *)
LEMMA InitOK == Init => IInv
<1> SUFFICES ASSUME Init PROVE IInv
  BY Zenon
<1> DEFINE r == [fresh |-> TRUE, cooled |-> FALSE, owner |-> NoOne, live |-> FALSE]
           m == [pc |-> "acquire", why |-> "start", proxy |-> NoOne, claim |-> NoOne,
                 seen |-> FALSE, paused |-> FALSE]
<1>1. rows = [p \in Proxies |-> r] /\ wk = [w \in Workers |-> m]
  BY Zenon DEF Init
<1>2. r \in RowSet /\ RowOK(r)
  BY Zenon DEF RowSet, RowOK
<1>3. m \in WkSet /\ m.pc = "acquire" /\ m.why = "start" /\ m.claim = NoOne
  BY Zenon DEF WkSet, Phases, Acquiring, Reasons
<1> HIDE DEF r, m
<1>4. MeOK(m)
  BY <1>3, Zenon DEF MeOK, Working, Running
<1>5. notify \in BOOLEAN /\ cancelled \in BOOLEAN /\ faults \in 0 .. MaxFaults
  <2>1. notify = FALSE /\ cancelled = FALSE /\ faults = 0
    BY Zenon DEF Init
  <2>2. 0 \in 0 .. MaxFaults
    BY PoolAssumption
  <2> QED BY <2>1, <2>2, Zenon
<1>6. rows \in [Proxies -> RowSet] /\ wk \in [Workers -> WkSet]
  BY <1>1, <1>2, <1>3, Zenon
<1>7. (\A p \in Proxies : RowOK(rows[p])) /\ \A w \in Workers : MeOK(wk[w])
  BY <1>1, <1>2, <1>4, Zenon
<1>8. kept \subseteq Workers \X Proxies /\ NoOrphans
  <2>1. kept = {} /\ \A p \in Proxies : rows[p].live = FALSE
    BY Zenon DEF Init
  <2> QED BY <2>1, Zenon DEF NoOrphans, Orphan, LockValid
<1> QED BY <1>5, <1>6, <1>7, <1>8, Zenon DEF IInv

(* No step breaks the invariant. *)
LEMMA Preserved ==
    ASSUME IInv, [Next]_vars PROVE IInv'
<1>1. CASE Outer
  <2>1. ASSUME NEW w \in Workers, NEW p \in Proxies, Orphan(w, p)' PROVE <<w, p>> \in kept'
    <3>1. LockValid(rows'[p], w) /\ p # Kept(wk'[w])
      BY <2>1, Zenon DEF Orphan, Kept
    <3>2. LockValid(rows[p], w) /\ p # Kept(wk[w]) /\ rows'[p].live
      BY <1>1, <3>1, Zenon DEF Outer, LockValid, Owned
    <3>3. <<w, p>> \in kept
      BY <3>2, Zenon DEF Orphan, Kept, IInv, NoOrphans
    <3> QED BY <1>1, <3>2, <3>3, Zenon DEF Outer
  <2>2. NoOrphans'
    BY <2>1, Zenon DEF NoOrphans
  <2>3. kept' \subseteq Workers \X Proxies
    BY <1>1, Zenon DEF Outer, IInv
  <2> QED BY <1>1, <2>2, <2>3, Zenon DEF Outer, IInv
<1>2. ASSUME NEW w \in Workers, Good(w) PROVE IInv'
  <2>1. ASSUME NEW x \in Workers, NEW p \in Proxies, Orphan(x, p)' PROVE <<x, p>> \in kept'
    <3>1. CASE x = w
      BY <1>2, <2>1, <3>1, Zenon DEF Good, NoNew
    <3>2. CASE x # w
      <4>1. Orphan(x, p)
        BY <1>2, <2>1, <3>2, Zenon DEF Good, Local, SameControl, Orphan
      <4>2. <<x, p>> \in kept
        BY <4>1, Zenon DEF IInv, NoOrphans
      <4> QED BY <1>2, <3>2, <4>2, Zenon DEF Good, OthersKept
    <3> QED BY <3>1, <3>2, Zenon
  <2>2. NoOrphans'
    BY <2>1, Zenon DEF NoOrphans
  <2>3. cancelled' \in BOOLEAN
    BY <1>2, Zenon DEF Good, IInv
  <2> QED BY <1>2, <2>2, <2>3, Zenon DEF Good, Local, OthersKept, IInv
<1> QED BY <1>1, <1>2, EveryStep, Zenon

(* The invariant holds in every reachable state. *)
LEMMA Inductive == Spec => []IInv
<1>1. IInv /\ [Next]_vars => IInv'
  BY Preserved, Zenon
<1> QED BY <1>1, InitOK, PTL DEF Spec

(* The variables have their types, a lock time has an owner, a claim       *)
(* exists exactly during its check, and a worker in its loop has a row     *)
(* (proxyWorkerLoop, NewProxy), however many workers share however many    *)
(* rows.                                                                   *)
THEOREM TypeCorrect == Spec => []TypeOK
<1>1. IInv => TypeOK
  BY Zenon DEF IInv, TypeOK, MeOK, RowOK, RowSet, WkSet
<1> QED BY <1>1, Inductive, PTL

(* No statement of another worker takes a live row from under a running    *)
(* job: the owner and lock-time conditions of ClaimProxy, ReleaseProxy,    *)
(* CooldownDestination and RecordConsumerFailure suffice for it.           *)
THEOREM ExclusiveTheorem == Spec => Exclusive
<1> DEFINE A == \A w \in Workers, p \in Proxies :
                   Using(w, p) /\ Using(w, p)' /\ LockValid(rows[p], w) => Owned(rows[p], w)'
<1>1. ASSUME IInv, [Next]_vars PROVE [A]_vars
  <2>1. CASE Outer
    BY <2>1, Zenon DEF Outer, LockValid, Owned
  <2>2. ASSUME NEW x \in Workers, Good(x) PROVE A
    <3> SUFFICES ASSUME NEW w \in Workers, NEW p \in Proxies, Using(w, p), Using(w, p)',
                        LockValid(rows[p], w)
                 PROVE Owned(rows[p], w)'
      BY Zenon
    <3>1. w # x
      BY <2>2, Zenon DEF Good, Using
    <3> QED BY <2>2, <3>1, Zenon DEF Good, Local, LockValid, Owned
  <2> QED BY <1>1, <2>1, <2>2, EveryStep, Zenon
<1>2. IInv /\ [Next]_vars => [A]_vars
  BY <1>1, Zenon
<1> QED BY <1>2, Inductive, PTL DEF Spec, Exclusive

(* A worker forgets a row it has locked only when the release, refresh,    *)
(* cooldown or failure report of that very row failed, or when the stop    *)
(* signal ended its first acquisition: every other path through NewProxy,  *)
(* replaceProxy, processJob and the deferred release, those of a failed    *)
(* check, build or run included, gives the row back or keeps it.           *)
THEOREM NoOrphansTheorem == Spec => []NoOrphans
<1>1. IInv => NoOrphans
  BY Zenon DEF IInv
<1> QED BY <1>1, Inductive, PTL
=============================================================================
