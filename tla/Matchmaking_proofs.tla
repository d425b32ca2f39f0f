------------------------- MODULE Matchmaking_proofs -------------------------
(* Proofs about Matchmaking, for any players, languages, handlers and TTL. *)
EXTENDS Matchmaking, FiniteSetTheorems, TLAPS

-----------------------------------------------------------------------------
(* What the bookkeeping operators do. *)

\* A handler that answers is idle, and the others are as they were.
LEMMA ReplyEffect ==
    ASSUME QueueOK, NEW r \in Reqs, Reply(r)
    PROVE  /\ pc' \in [Reqs -> Pcs] /\ who' \in [Reqs -> Players \cup {Nobody}]
           /\ now' \in [Reqs -> Times] /\ evicted' \in [Reqs -> SUBSET Players]
           /\ partner' \in [Reqs -> Players \cup {Nobody}]
           /\ pc'[r] = "idle" /\ evicted'[r] = {}
           /\ \A s \in Reqs \ {r} :
                /\ pc'[s] = pc[s] /\ who'[s] = who[s] /\ now'[s] = now[s]
                /\ evicted'[s] = evicted[s] /\ partner'[s] = partner[s]
    BY ConstantsAssumption DEF Reply, QueueOK, Pcs, Times

\* A handler that moves on changes only its own program counter.
LEMMA GotoEffect ==
    ASSUME QueueOK, NEW r \in Reqs, NEW label \in Pcs, Goto(r, label)
    PROVE  /\ pc' \in [Reqs -> Pcs]
           /\ pc'[r] = label
           /\ \A s \in Reqs \ {r} : pc'[s] = pc[s]
    BY DEF Goto, QueueOK

\* A transaction that ends frees its own locks and no others.
LEMMA ReleaseEffect ==
    ASSUME QueueOK, NEW r \in Reqs, ReleaseLocks(r)
    PROVE  /\ lock' \in [Players -> Reqs \cup {Nobody}]
           /\ \A p \in Players : /\ lock'[p] # r
                                 /\ lock[p] # r => lock'[p] = lock[p]
                                 /\ lock[p] = r => lock'[p] = Nobody
    BY ConstantsAssumption DEF ReleaseLocks, QueueOK

\* A handler outside its transaction holds no row and has evicted none.
LEMMA OutsideHoldsNothing ==
    ASSUME QueueOK, NEW r \in Reqs, pc[r] \notin TransactionPcs
    PROVE  /\ \A p \in Players : lock[p] # r
           /\ evicted[r] = {}
<1>1. \A p \in Players : lock[p] # r
    BY ConstantsAssumption DEF QueueOK, LockOK, Locked
<1>2. evicted[r] = {}
    BY <1>1 DEF QueueOK, HandlerOK
<1> QED
    BY <1>1, <1>2

\* Ending a transaction keeps the invariant, whatever it does to rows it held: no
\* other transaction relies on them.
LEMMA EndStep ==
    ASSUME QueueInv, NEW r \in Reqs, Reply(r), ReleaseLocks(r), clock' = clock,
           enq' \in [Players -> Times \cup {NotQueued}],
           \A p \in Players : lock[p] # r => enq'[p] = enq[p]
    PROVE  QueueInv'
<1> USE DEF QueueInv
<1>1. \A p \in Players : LockOK(p)'
    BY ReplyEffect, ReleaseEffect, ConstantsAssumption DEF QueueOK, LockOK, Locked, TransactionPcs
<1>2. \A s \in Reqs : HandlerOK(s)'
    BY ReplyEffect, ReleaseEffect DEF QueueOK, HandlerOK, Stale, Queued, TransactionPcs
<1>3. QueueOK'
    BY <1>1, <1>2, ReplyEffect, ReleaseEffect DEF QueueOK
<1>4. ClaimedRowSurvives'
    <2> SUFFICES ASSUME NEW s \in Reqs, pc'[s] = "claimed"
                 PROVE  /\ Queued(partner[s])' /\ ~Stale(partner[s], now[s])'
                        /\ Compatible(who[s], partner[s])' /\ (partner[s] \notin evicted[s])'
        BY DEF ClaimedRowSurvives
    <2>1. s # r
        BY ReplyEffect
    <2>2. /\ pc[s] = "claimed" /\ who'[s] = who[s] /\ now'[s] = now[s]
          /\ evicted'[s] = evicted[s] /\ partner'[s] = partner[s]
        BY <2>1, ReplyEffect
    <2>3. enq'[partner[s]] = enq[partner[s]]
        BY <2>1, <2>2 DEF QueueOK, HandlerOK
    <2> QED
        BY <2>2, <2>3 DEF ClaimedRowSurvives, Stale, Queued, Compatible, Speakable
<1> QED
    BY <1>3, <1>4

\* So does a handler that moves on without touching a row or its transaction.
LEMMA MoveStep ==
    ASSUME QueueInv, NEW r \in Reqs, NEW label \in Pcs, Goto(r, label),
           UNCHANGED <<clock, enq, lock, who, evicted, partner>>,
           now' \in [Reqs -> Times], \A s \in Reqs \ {r} : now'[s] = now[s],
           pc[r] # "idle", label # "claimed",
           \/ pc[r] \notin TransactionPcs /\ label \notin TransactionPcs
           \/ pc[r] \in TransactionPcs /\ label \in TransactionPcs /\ now'[r] = now[r]
    PROVE  QueueInv'
<1> USE DEF QueueInv
<1>1. \A p \in Players : LockOK(p)'
    BY GotoEffect DEF QueueOK, LockOK, Locked
<1>2. \A s \in Reqs : HandlerOK(s)'
    <2>1. ASSUME NEW s \in Reqs \ {r} PROVE HandlerOK(s)'
        BY <2>1, GotoEffect DEF QueueOK, HandlerOK, Stale, Queued
    <2>2. HandlerOK(r)'
        BY GotoEffect, OutsideHoldsNothing DEF QueueOK, HandlerOK, Stale, Queued
    <2> QED
        BY <2>1, <2>2
<1>3. QueueOK'
    BY <1>1, <1>2, GotoEffect DEF QueueOK
<1>4. ClaimedRowSurvives'
    BY GotoEffect DEF ClaimedRowSurvives, Stale, Queued, Compatible, Speakable
<1> QED
    BY <1>3, <1>4

-----------------------------------------------------------------------------
\* Every step keeps QueueInv.
LEMMA QueueStep == QueueInv /\ [Next]_vars => QueueInv'
<1> SUFFICES ASSUME QueueInv, [Next]_vars PROVE QueueInv'
    OBVIOUS
<1> USE DEF QueueInv, dbVars, handlerVars
<1>0. /\ "idle" \in Pcs /\ "check" \in Pcs /\ "enqueue" \in Pcs /\ "begin" \in Pcs
      /\ "refresh" \in Pcs /\ TransactionPcs \subseteq Pcs
      /\ clock \in Times /\ 0 \in Times
    BY ConstantsAssumption DEF Pcs, QueueOK, Times
<1>1. ASSUME NEW r \in Reqs, NEW p \in Players, RequestArrives(r, p) PROVE QueueInv'
    <2>1. /\ pc[r] = "idle" /\ pc'[r] = "check" /\ who'[r] = p /\ who' \in [Reqs -> Players \cup {Nobody}]
          /\ \A s \in Reqs \ {r} : pc'[s] = pc[s] /\ who'[s] = who[s]
          /\ pc' \in [Reqs -> Pcs]
        BY <1>0, <1>1 DEF RequestArrives, Goto, QueueOK
    <2>2. evicted[r] = {} /\ \A q \in Players : lock[q] # r
        BY <2>1, OutsideHoldsNothing DEF TransactionPcs
    <2>3. \A q \in Players : LockOK(q)'
        BY <1>1, <2>1, <2>2 DEF RequestArrives, QueueOK, LockOK, Locked
    <2>4. \A s \in Reqs : HandlerOK(s)'
        BY <1>1, <2>1, <2>2 DEF RequestArrives, QueueOK, HandlerOK, Stale, Queued, TransactionPcs
    <2>5. ClaimedRowSurvives'
        BY <1>1, <2>1 DEF RequestArrives, ClaimedRowSurvives, Stale, Queued, Compatible, Speakable
    <2> QED
        BY <1>1, <2>1, <2>3, <2>4, <2>5 DEF RequestArrives, QueueOK
<1>2. ASSUME NEW r \in Reqs, Reply(r), UNCHANGED <<dbVars, lock>>, pc[r] \notin TransactionPcs
      PROVE  QueueInv'
    <2>1. ReleaseLocks(r)
        BY <1>2, OutsideHoldsNothing DEF ReleaseLocks, QueueOK
    <2> QED
        BY <1>2, <2>1, EndStep DEF QueueOK
<1>3. ASSUME NEW r \in Reqs, NotMatchedYet(r) PROVE QueueInv'
    <2>1. now' \in [Reqs -> Times] /\ \A s \in Reqs \ {r} : now'[s] = now[s]
        BY <1>0, <1>3 DEF NotMatchedYet, QueueOK
    <2> QED
        BY <1>0, <1>3, <2>1, MoveStep DEF NotMatchedYet, TransactionPcs
<1>4. ASSUME NEW r \in Reqs, EnqueuePlayer(r) PROVE QueueInv'
    <2>1. /\ who[r] \in Players /\ lock[who[r]] = Nobody
          /\ now[r] \in Times
        BY <1>4 DEF EnqueuePlayer, QueueOK, HandlerOK, Locked
    <2>2. /\ enq' \in [Players -> Times \cup {NotQueued}]
          /\ \A q \in Players : lock[q] # Nobody => enq'[q] = enq[q]
        BY <1>4, <2>1 DEF EnqueuePlayer, QueueOK
    <2>3. now' \in [Reqs -> Times] /\ \A s \in Reqs \ {r} : now'[s] = now[s]
        BY <1>0, <1>4 DEF EnqueuePlayer, QueueOK
    <2>4. /\ pc' \in [Reqs -> Pcs] /\ pc'[r] = "begin" /\ \A s \in Reqs \ {r} : pc'[s] = pc[s]
        BY <1>0, <1>4, GotoEffect DEF EnqueuePlayer
    <2>5. evicted[r] = {} /\ \A q \in Players : lock[q] # r
        BY <1>4, OutsideHoldsNothing DEF EnqueuePlayer, TransactionPcs
    <2>6. \A q \in Players : LockOK(q)'
        BY <1>4, <2>4, <2>5 DEF EnqueuePlayer, QueueOK, LockOK, Locked
    <2>7. \A s \in Reqs : HandlerOK(s)'
        BY <1>4, <2>1, <2>2, <2>3, <2>4, <2>5, ConstantsAssumption
        DEF EnqueuePlayer, QueueOK, HandlerOK, Stale, Queued, TransactionPcs
    <2>8. ClaimedRowSurvives'
        BY <1>4, <2>2, <2>3, <2>4, ConstantsAssumption
        DEF EnqueuePlayer, QueueOK, HandlerOK, ClaimedRowSurvives, Stale, Queued, Compatible, Speakable
    <2> QED
        BY <1>4, <2>2, <2>3, <2>4, <2>6, <2>7, <2>8 DEF EnqueuePlayer, QueueOK
<1>5. ASSUME NEW r \in Reqs, MatchBegins(r) PROVE QueueInv'
    <2>1. CASE Reply(r)
        BY <1>2, <1>5, <2>1 DEF MatchBegins, TransactionPcs
    <2>2. CASE ~Reply(r)
        <3>1. now' \in [Reqs -> Times] /\ \A s \in Reqs \ {r} : now'[s] = now[s]
            BY <1>0, <1>5, <2>2 DEF MatchBegins, QueueOK
        <3> QED
            BY <1>0, <1>5, <2>2, <3>1, MoveStep DEF MatchBegins, TransactionPcs
    <2> QED
        BY <2>1, <2>2
<1>6. ASSUME NEW r \in Reqs, RefreshOwnRow(r) PROVE QueueInv'
    <2>1. who[r] \in Players /\ lock[who[r]] = Nobody
        BY <1>6 DEF RefreshOwnRow, QueueOK, HandlerOK, Locked
    <2>2. /\ pc' \in [Reqs -> Pcs] /\ pc'[r] = "evict" /\ \A s \in Reqs \ {r} : pc'[s] = pc[s]
        BY <1>0, <1>6, GotoEffect DEF RefreshOwnRow, TransactionPcs
    <2>3. /\ lock' \in [Players -> Reqs \cup {Nobody}] /\ lock'[who[r]] = r
          /\ \A q \in Players : lock[q] # Nobody => lock'[q] = lock[q]
          /\ \A q \in Players : lock'[q] \in {lock[q], r}
        BY <1>6, <2>1 DEF RefreshOwnRow, QueueOK
    <2>4. evicted[r] = {}
        BY <1>6, OutsideHoldsNothing DEF RefreshOwnRow, TransactionPcs
    <2>5. \A q \in Players : LockOK(q)'
        BY <1>6, <2>2, <2>3, ConstantsAssumption DEF RefreshOwnRow, QueueOK, LockOK, Locked, TransactionPcs
    <2>6. \A s \in Reqs : HandlerOK(s)'
        BY <1>6, <2>1, <2>2, <2>3, <2>4, ConstantsAssumption
        DEF RefreshOwnRow, QueueOK, HandlerOK, Stale, Queued, TransactionPcs
    <2>7. ClaimedRowSurvives'
        BY <1>6, <2>2 DEF RefreshOwnRow, ClaimedRowSurvives, Stale, Queued, Compatible, Speakable
    <2> QED
        BY <1>6, <2>2, <2>3, <2>5, <2>6, <2>7 DEF RefreshOwnRow, QueueOK
<1>7. ASSUME NEW r \in Reqs, EvictRow(r) PROVE QueueInv'
    <2>1. PICK q \in ToEvict(r) : /\ ~Locked(q)
                                  /\ lock' = [lock EXCEPT ![q] = r]
                                  /\ evicted' = [evicted EXCEPT ![r] = @ \cup {q}]
        BY <1>7 DEF EvictRow
    <2>2. q \in Players /\ Stale(q, now[r]) /\ lock[q] = Nobody /\ q # who[r]
        BY <2>1 DEF ToEvict, Locked
    <2>3. /\ lock' \in [Players -> Reqs \cup {Nobody}] /\ lock'[q] = r
          /\ \A p \in Players \ {q} : lock'[p] = lock[p]
          /\ evicted' \in [Reqs -> SUBSET Players] /\ evicted'[r] = evicted[r] \cup {q}
          /\ \A s \in Reqs \ {r} : evicted'[s] = evicted[s]
        BY <2>1, <2>2 DEF QueueOK
    <2>4. \A p \in Players : LockOK(p)'
        BY <1>7, <2>3 DEF EvictRow, QueueOK, LockOK, Locked, TransactionPcs
    <2>5. \A s \in Reqs : HandlerOK(s)'
        BY <1>7, <2>2, <2>3, ConstantsAssumption
        DEF EvictRow, QueueOK, HandlerOK, Stale, Queued, TransactionPcs
    <2>6. ClaimedRowSurvives'
        BY <1>7, <2>3 DEF EvictRow, ClaimedRowSurvives, Stale, Queued, Compatible, Speakable
    <2> QED
        BY <1>7, <2>3, <2>4, <2>5, <2>6 DEF EvictRow, QueueOK
<1>8. ASSUME NEW r \in Reqs, EvictionDone(r) \/ NoPartner(r) PROVE QueueInv'
    BY <1>0, <1>8, MoveStep DEF EvictionDone, NoPartner, TransactionPcs, QueueOK
<1>9. ASSUME NEW r \in Reqs, ClaimPartner(r) PROVE QueueInv'
    <2>1. PICK q \in Candidates(r) : partner' = [partner EXCEPT ![r] = q]
        BY <1>9 DEF ClaimPartner
    <2>2. /\ q \in Players /\ Queued(q) /\ ~Stale(q, now[r]) /\ Compatible(who[r], q)
          /\ \A p \in Candidates(r) : p \in Players /\ lock[p] = Nobody
        BY <2>1 DEF Candidates, Locked
    <2>3. /\ partner' \in [Reqs -> Players \cup {Nobody}] /\ partner'[r] = q
          /\ \A s \in Reqs \ {r} : partner'[s] = partner[s]
        BY <2>1, <2>2 DEF QueueOK
    <2>4. /\ lock' \in [Players -> Reqs \cup {Nobody}] /\ lock'[q] = r
          /\ \A p \in Players : lock[p] # Nobody => lock'[p] = lock[p]
          /\ \A p \in Players : lock'[p] \in {lock[p], r}
        BY <1>9, <2>1, <2>2 DEF ClaimPartner, QueueOK
    <2>5. /\ pc' \in [Reqs -> Pcs] /\ pc'[r] = "claimed" /\ \A s \in Reqs \ {r} : pc'[s] = pc[s]
        BY <1>0, <1>9, GotoEffect DEF ClaimPartner, TransactionPcs
    <2>6. \A p \in Players : LockOK(p)'
        BY <1>9, <2>4, <2>5, ConstantsAssumption DEF QueueOK, LockOK, Locked, TransactionPcs
    <2>7. \A s \in Reqs : HandlerOK(s)'
        BY <1>9, <2>2, <2>3, <2>4, <2>5, ConstantsAssumption
        DEF ClaimPartner, QueueOK, HandlerOK, Stale, Queued, TransactionPcs
    <2>8. q \notin evicted[r]
        BY <2>2 DEF QueueOK, HandlerOK
    <2>9. ClaimedRowSurvives'
        BY <1>9, <2>2, <2>3, <2>5, <2>8
        DEF ClaimPartner, ClaimedRowSurvives, Stale, Queued, Compatible, Speakable
    <2> QED
        BY <1>9, <2>3, <2>4, <2>5, <2>6, <2>7, <2>9 DEF ClaimPartner, QueueOK
<1>10. ASSUME NEW r \in Reqs, CommitWaiting(r) \/ CommitMatch(r) PROVE QueueInv'
    <2>1. /\ who[r] \in Players /\ lock[who[r]] = r
          /\ pc[r] = "claimed" => lock[partner[r]] = r
          /\ \A p \in evicted[r] : lock[p] = r
          /\ now[r] \in Times
        BY <1>10 DEF CommitWaiting, CommitMatch, QueueOK, HandlerOK, TransactionPcs
    <2>2. \/ enq' = QueueAfter(r, {})
          \/ pc[r] = "claimed" /\ enq' = QueueAfter(r, {who[r], partner[r]})
        BY <1>10 DEF CommitWaiting, CommitMatch
    <2>3. /\ enq' \in [Players -> Times \cup {NotQueued}]
          /\ \A p \in Players : lock[p] # r => enq'[p] = enq[p]
        <3>1. PICK removed : enq' = QueueAfter(r, removed) /\ \A p \in removed : lock[p] = r
            BY <2>1, <2>2
        <3>2. \A p \in Players : lock[p] # r => enq'[p] = enq[p]
            BY <2>1, <3>1 DEF QueueAfter
        <3>3. \A p \in Players : enq[p] \in Times \cup {NotQueued}
            BY DEF QueueOK
        <3> QED
            BY <2>1, <3>1, <3>2, <3>3 DEF QueueAfter
    <2> QED
        BY <1>10, <2>3, EndStep DEF CommitWaiting, CommitMatch
<1>11. ASSUME NEW r \in Reqs, Rollback(r) PROVE QueueInv'
    BY <1>11, EndStep DEF Rollback, QueueOK
<1>12. CASE Tick \/ \E pr \in pairs : PairCompletes(pr)
    <2>1. /\ clock' \in Times /\ UNCHANGED <<enq, lock, handlerVars>>
        BY <1>0, <1>12, ConstantsAssumption DEF Tick, PairCompletes, Times
    <2> QED
        BY <2>1 DEF QueueOK, LockOK, Locked, HandlerOK, ClaimedRowSurvives, Stale, Queued, Compatible, Speakable
<1>13. CASE UNCHANGED vars
    BY <1>13
    DEF vars, QueueOK, LockOK, Locked, HandlerOK, ClaimedRowSurvives, Stale, Queued, Compatible, Speakable
<1>14. ASSUME NEW r \in Reqs, AlreadyMatched(r) PROVE QueueInv'
    BY <1>2, <1>14 DEF AlreadyMatched, TransactionPcs
<1> QED
    BY <1>1, <1>3, <1>4, <1>5, <1>6, <1>7, <1>8, <1>9, <1>10, <1>11, <1>12, <1>13, <1>14
    DEF Next, HandlerStep, DeadlockVictim, HandlerDies

\* QueueInv holds in every reachable state.
THEOREM QueueInvariant == Spec => []QueueInv
<1>1. Init => QueueInv
    BY ConstantsAssumption
    DEF Init, QueueInv, QueueOK, LockOK, Locked, HandlerOK, ClaimedRowSurvives, Pcs, TransactionPcs, Times
<1> QED
    BY <1>1, QueueStep, PTL DEF Spec

\* Two transactions about to insert a pair never share a player, and a claimed
\* partner's row stays queued, fresh and compatible until the insert.
THEOREM ClaimsAreHeld == Spec => []ClaimsHold
<1>1. QueueInv => ClaimsDisjoint
    BY DEF QueueInv, QueueOK, HandlerOK, ClaimsDisjoint, TransactionPcs
<1>2. QueueInv => ClaimedRowSurvives
    BY DEF QueueInv
<1>3. QueueInv => ClaimsHold
    BY <1>1, <1>2 DEF ClaimsHold
<1> QED
    BY <1>3, QueueInvariant, PTL

-----------------------------------------------------------------------------
(* Who leaves the queue. *)

\* A pair that is inserted is new: its number is one past all others.
LEMMA PairIsNew ==
    ASSUME QueueInv, PairsNumbered, NEW r \in Reqs, CommitMatch(r)
    PROVE  \E pr \in [id : Nat, a : Players, b : Players, status : {"active", "completed"}] :
             /\ pr \notin pairs /\ pairs' = pairs \cup {pr}
             /\ {pr.a, pr.b} = {who[r], partner[r]}
             /\ pr.id = Cardinality(pairs) + 1
<1> DEFINE me == who[r]
           q == partner[r]
           first == IF now[r] <= enq[q] THEN me ELSE q
           second == IF first = me THEN q ELSE me
           pr == [id |-> Cardinality(pairs) + 1, a |-> first, b |-> second, status |-> "active"]
<1>1. me \in Players /\ q \in Players
    BY DEF CommitMatch, QueueInv, QueueOK, HandlerOK
<1>2. Cardinality(pairs) \in Nat
    BY FS_CardinalityType DEF PairsNumbered
<1>3. pr \in [id : Nat, a : Players, b : Players, status : {"active", "completed"}]
    BY <1>1, <1>2
<1>4. pr \notin pairs
    BY <1>2 DEF PairsNumbered
<1>5. pairs' = pairs \cup {pr} /\ {pr.a, pr.b} = {me, q} /\ pr.id = Cardinality(pairs) + 1
    BY DEF CommitMatch
<1> QED
    BY <1>3, <1>4, <1>5

\* Every step keeps the numbering of pairs.
LEMMA PairsStep == QueueInv /\ PairsNumbered /\ [Next]_vars => PairsNumbered'
<1> SUFFICES ASSUME QueueInv, PairsNumbered, [Next]_vars PROVE PairsNumbered'
    OBVIOUS
<1> USE DEF dbVars
<1>0. Cardinality(pairs) \in Nat /\ IsFiniteSet(pairs)
    BY FS_CardinalityType DEF PairsNumbered
<1>1. CASE UNCHANGED pairs
    BY <1>1 DEF PairsNumbered
<1>2. ASSUME NEW r \in Reqs, CommitMatch(r) PROVE PairsNumbered'
    <2>1. PICK pr \in [id : Nat, a : Players, b : Players, status : {"active", "completed"}] :
             /\ pr \notin pairs /\ pairs' = pairs \cup {pr}
             /\ pr.id = Cardinality(pairs) + 1
        BY <1>2, PairIsNew
    <2>2. IsFiniteSet(pairs') /\ Cardinality(pairs') = Cardinality(pairs) + 1
        BY <1>0, <2>1, FS_AddElement
    <2>3. /\ \A x \in pairs' : x = pr \/ (x \in pairs /\ x.id # pr.id)
          /\ pr.id \in 1..Cardinality(pairs')
        BY <1>0, <2>1, <2>2 DEF PairsNumbered
    <2>4. \A x \in pairs' : x.id \in 1..Cardinality(pairs')
        BY <1>0, <2>2, <2>3 DEF PairsNumbered
    <2>5. \A x, y \in pairs' : x.id = y.id => x = y
        BY <2>3 DEF PairsNumbered
    <2>6. pairs' \subseteq [id : Nat, a : Players, b : Players, status : {"active", "completed"}]
        BY <2>1 DEF PairsNumbered
    <2> QED
        BY <2>2, <2>4, <2>5, <2>6 DEF PairsNumbered
<1>3. ASSUME NEW pr \in pairs, PairCompletes(pr) PROVE PairsNumbered'
    <2> DEFINE done == [pr EXCEPT !.status = "completed"]
               rest == pairs \ {pr}
    <2>1. /\ done \in [id : Nat, a : Players, b : Players, status : {"active", "completed"}]
          /\ done.id = pr.id
        BY DEF PairsNumbered
    <2>2. done \notin rest
        BY <2>1 DEF PairsNumbered
    <2>3. IsFiniteSet(rest) /\ Cardinality(rest) = Cardinality(pairs) - 1
        BY <1>0, FS_RemoveElement
    <2>4. IsFiniteSet(rest \cup {done}) /\ Cardinality(rest \cup {done}) = Cardinality(rest) + 1
        BY <2>2, <2>3, FS_AddElement
    <2>5. pairs' = rest \cup {done}
        BY <1>3 DEF PairCompletes
    <2>6. IsFiniteSet(pairs') /\ Cardinality(pairs') = Cardinality(pairs)
        BY <1>0, <2>3, <2>4, <2>5
    <2>7. /\ \A x \in pairs' : x = done \/ (x \in pairs /\ x # pr)
          /\ done.id \in 1..Cardinality(pairs')
        BY <1>3, <2>1, <2>5, <2>6 DEF PairsNumbered
    <2>8. \A x \in pairs' : x.id \in 1..Cardinality(pairs')
        BY <2>6, <2>7 DEF PairsNumbered
    <2>9. \A x, y \in pairs' : x.id = y.id => x = y
        BY <2>1, <2>7 DEF PairsNumbered
    <2>10. pairs' \subseteq [id : Nat, a : Players, b : Players, status : {"active", "completed"}]
        BY <2>1, <2>5 DEF PairsNumbered
    <2> QED
        BY <2>6, <2>8, <2>9, <2>10 DEF PairsNumbered
<1>4. \/ UNCHANGED pairs
      \/ \E r \in Reqs : CommitMatch(r)
      \/ \E pr \in pairs : PairCompletes(pr)
    BY DEF Next, vars, HandlerStep, RequestArrives, AlreadyMatched, NotMatchedYet, EnqueuePlayer,
        MatchBegins, RefreshOwnRow, EvictRow, EvictionDone, ClaimPartner, NoPartner, CommitWaiting,
        DeadlockVictim, HandlerDies, Rollback, Tick
<1> QED
    BY <1>1, <1>2, <1>3, <1>4

\* A waiter leaves the queue only into a new pair, or evicted by a transaction
\* for which the row is older than the TTL.
THEOREM WaitersNotDropped == Spec => WaiterNotDropped
<1> DEFINE Leaves == \A p \in Players : Queued(p) /\ enq'[p] = NotQueued =>
                        \/ \E pr \in pairs' \ pairs : p \in {pr.a, pr.b}
                        \/ \E r \in Reqs : Stale(p, now[r])
<1>1. ASSUME QueueInv, PairsNumbered, [Next]_vars PROVE Leaves
    <2> USE DEF dbVars
    <2>1. CASE UNCHANGED enq
        BY <2>1 DEF Queued
    <2>2. ASSUME NEW r \in Reqs, EnqueuePlayer(r) PROVE Leaves
        BY <1>1, <2>2, ConstantsAssumption DEF EnqueuePlayer, QueueInv, QueueOK, Times, Queued
    <2>3. ASSUME NEW r \in Reqs, NEW removed, enq' = QueueAfter(r, removed),
                 NEW p \in Players, enq'[p] = NotQueued, p \notin removed
          PROVE  Stale(p, now[r]) \/ ~Queued(p)
        <3>1. now[r] # NotQueued
            BY <1>1, ConstantsAssumption DEF QueueInv, QueueOK, Times
        <3>2. p \in evicted[r] \/ enq[p] = NotQueued
            BY <2>3, <3>1 DEF QueueAfter
        <3> QED
            BY <1>1, <3>2 DEF QueueInv, QueueOK, HandlerOK, Queued
    <2>4. ASSUME NEW r \in Reqs, CommitWaiting(r) PROVE Leaves
        BY <2>3, <2>4 DEF CommitWaiting
    <2>5. ASSUME NEW r \in Reqs, CommitMatch(r) PROVE Leaves
        <3>1. PICK pr : pr \notin pairs /\ pairs' = pairs \cup {pr} /\ {pr.a, pr.b} = {who[r], partner[r]}
            BY <1>1, <2>5, PairIsNew
        <3>2. enq' = QueueAfter(r, {who[r], partner[r]})
            BY <2>5 DEF CommitMatch
        <3>3. ASSUME NEW p \in Players, Queued(p), enq'[p] = NotQueued, p \notin {who[r], partner[r]}
              PROVE  Stale(p, now[r])
            BY <2>3, <3>2, <3>3
        <3> QED
            BY <3>1, <3>3
    <2>6. \/ UNCHANGED enq
          \/ \E r \in Reqs : EnqueuePlayer(r) \/ CommitWaiting(r) \/ CommitMatch(r)
        BY <1>1
        DEF Next, vars, HandlerStep, RequestArrives, AlreadyMatched, NotMatchedYet, MatchBegins,
            RefreshOwnRow, EvictRow, EvictionDone, ClaimPartner, NoPartner, DeadlockVictim, HandlerDies,
            Rollback, PairCompletes, Tick
    <2> QED
        BY <2>1, <2>2, <2>4, <2>5, <2>6
<1>2. Init => PairsNumbered
    BY FS_EmptySet DEF Init, PairsNumbered
<1>3. Spec => []PairsNumbered
    BY <1>2, PairsStep, QueueInvariant, PTL DEF Spec
<1> QED
    BY <1>1, <1>3, QueueInvariant, PTL DEF Spec, WaiterNotDropped

=============================================================================
