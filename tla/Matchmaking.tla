---------------------------- MODULE Matchmaking ----------------------------
(***************************************************************************)
(* POST /api/pair/request (GameService.request_pair) over the              *)
(* matchmaking queue and the pairs table of app/game/pg_store.py.          *)
(*                                                                         *)
(* enqueue_player is one autocommitted upsert.  try_match is a             *)
(* transaction of several statements under READ COMMITTED: each statement  *)
(* sees what is committed when it starts, row locks last until the         *)
(* transaction ends, an upsert or a DELETE waits for a locked row and then *)
(* looks at it again, and SELECT ... SKIP LOCKED does not wait.  now() is  *)
(* the start of the transaction.                                           *)
(*                                                                         *)
(* enq holds the committed queue rows; what a transaction has written but  *)
(* not committed is implied by its pc, lock, evicted and partner.  The     *)
(* players row it locks next (FOR UPDATE) never makes it wait: only the    *)
(* holder of the player's queue row gets that far.                         *)
(***************************************************************************)
EXTENDS Naturals, FiniteSets

CONSTANTS
    Players,
    NativeLang,     \* players.native_lang
    CommonLangs,    \* players.common_langs
    Reqs,           \* pair/request handlers in flight at one time
    Ttl,            \* matchmaking_queue_ttl_seconds, in ticks
    MaxClock,       \* bound on the clock
    MaxPairs,       \* bound on the rows of pairs
    NotQueued,      \* no committed row in matchmaking_queue
    Nobody,         \* no player, no lock holder
    HandlersMayDie  \* TRUE: a handler may be lost, its transaction rolled back

Times == 0..MaxClock

ASSUME ConstantsAssumption ==
    /\ Ttl \in Nat /\ MaxClock \in Nat /\ MaxPairs \in Nat
    /\ NotQueued \notin Nat
    /\ Nobody \notin Players \cup Reqs
    /\ HandlersMayDie \in BOOLEAN
    /\ IsFiniteSet(Players)

VARIABLES
    clock,
    enq,        \* committed matchmaking_queue.enqueued_at, or NotQueued
    lock,       \* the transaction that holds the player's queue row (or key)
    pairs,      \* rows of pairs
    capped,     \* players whose rounds_played reached the session cap
    pc,
    who,        \* the player of the handler
    now,        \* now() of its statement or transaction
    evicted,    \* stale rows its transaction has deleted
    partner     \* the partner its transaction has claimed

dbVars == <<clock, enq, pairs, capped>>
handlerVars == <<pc, who, now, evicted, partner>>
vars == <<dbVars, lock, handlerVars>>

PairRows == [id : 1..MaxPairs, a : Players, b : Players, status : {"active", "completed"}]
TransactionPcs == {"evict", "claim", "waiting", "claimed"}
Pcs == {"idle", "check", "enqueue", "begin", "refresh"} \cup TransactionPcs

Active(p) == \E pr \in pairs : pr.status = "active" /\ p \in {pr.a, pr.b}
PreviouslyPaired(p, q) == \E pr \in pairs : {pr.a, pr.b} = {p, q}

Speakable(p) == CommonLangs[p] \cup {NativeLang[p]}
Compatible(p, q) ==
    /\ p # q
    /\ NativeLang[p] # NativeLang[q]
    /\ Speakable(p) \cap Speakable(q) # {}

Queued(p) == enq[p] # NotQueued
Stale(p, t) == Queued(p) /\ enq[p] + Ttl < t
Locked(p) == lock[p] # Nobody

-----------------------------------------------------------------------------
(* Handler bookkeeping. *)

Goto(r, label) == pc' = [pc EXCEPT ![r] = label]

Reply(r) ==
    /\ pc' = [pc EXCEPT ![r] = "idle"]
    /\ who' = [who EXCEPT ![r] = Nobody]
    /\ now' = [now EXCEPT ![r] = 0]
    /\ evicted' = [evicted EXCEPT ![r] = {}]
    /\ partner' = [partner EXCEPT ![r] = Nobody]

ReleaseLocks(r) == lock' = [p \in Players |-> IF lock[p] = r THEN Nobody ELSE lock[p]]

-----------------------------------------------------------------------------
(* request_pair up to the transaction. *)

\* player_stats: a capped player gets 409.  MaxPairs bounds the arrivals, so that
\* a transaction that has claimed a partner can always insert its pair.
RequestArrives(r, p) ==
    /\ pc[r] = "idle"
    /\ Cardinality(pairs) + Cardinality({s \in Reqs : pc[s] # "idle"}) < MaxPairs
    /\ p \notin capped
    /\ Goto(r, "check")
    /\ who' = [who EXCEPT ![r] = p]
    /\ UNCHANGED <<dbVars, lock, now, evicted, partner>>

\* get_active_pair: an active player is told "matched".
AlreadyMatched(r) ==
    /\ pc[r] = "check"
    /\ Active(who[r])
    /\ Reply(r)
    /\ UNCHANGED <<dbVars, lock>>

\* Otherwise the upsert starts; its now() is taken before it may have to wait.
NotMatchedYet(r) ==
    /\ pc[r] = "check"
    /\ ~Active(who[r])
    /\ Goto(r, "enqueue")
    /\ now' = [now EXCEPT ![r] = clock]
    /\ UNCHANGED <<dbVars, lock, who, evicted, partner>>

EnqueuePlayer(r) ==
    /\ pc[r] = "enqueue"
    /\ ~Locked(who[r])
    /\ enq' = [enq EXCEPT ![who[r]] = now[r]]
    /\ Goto(r, "begin")
    /\ now' = [now EXCEPT ![r] = 0]
    /\ UNCHANGED <<clock, pairs, capped, lock, who, evicted, partner>>

-----------------------------------------------------------------------------
(* The try_match transaction, one action per statement that can matter. *)

\* Its first statement looks for an active pair again, without any lock.
MatchBegins(r) ==
    /\ pc[r] = "begin"
    /\ \/ Active(who[r]) /\ Reply(r)
       \/ /\ ~Active(who[r])
          /\ Goto(r, "refresh")
          /\ now' = [now EXCEPT ![r] = clock]
          /\ UNCHANGED <<who, evicted, partner>>
    /\ UNCHANGED <<dbVars, lock>>

\* Upsert of the own row: takes its lock, and re-inserts it if it is gone.
RefreshOwnRow(r) ==
    /\ pc[r] = "refresh"
    /\ ~Locked(who[r])
    /\ lock' = [lock EXCEPT ![who[r]] = r]
    /\ Goto(r, "evict")
    /\ UNCHANGED <<dbVars, who, now, evicted, partner>>

\* The rows the eviction DELETE still has to take, itself excluded.
ToEvict(r) == {q \in Players \ {who[r]} : Stale(q, now[r]) /\ lock[q] # r}

\* One row of the DELETE, which waits for whoever holds it.
EvictRow(r) ==
    /\ pc[r] = "evict"
    /\ \E q \in ToEvict(r) :
        /\ ~Locked(q)
        /\ lock' = [lock EXCEPT ![q] = r]
        /\ evicted' = [evicted EXCEPT ![r] = @ \cup {q}]
    /\ UNCHANGED <<dbVars, pc, who, now, partner>>

EvictionDone(r) ==
    /\ pc[r] = "evict"
    /\ ToEvict(r) = {}
    /\ Goto(r, "claim")
    /\ UNCHANGED <<dbVars, lock, who, now, evicted, partner>>

\* (CandidatesUnlocked: a plain SELECT.)
CandidatesUnlocked(r) ==
    {q \in Players : Queued(q) /\ ~Stale(q, now[r]) /\ Compatible(who[r], q)}

\* FOR UPDATE OF q SKIP LOCKED: fresh, compatible rows that nobody has locked.
Candidates(r) ==
    {q \in Players : /\ Queued(q) /\ ~Stale(q, now[r]) /\ ~Locked(q)
                     /\ Compatible(who[r], q)}

Preferred(r, q, s) ==
    LET paired(x) == PreviouslyPaired(who[r], x) IN
    \/ ~paired(q) /\ paired(s)
    \/ (paired(q) <=> paired(s)) /\ enq[q] <= enq[s]

\* Every candidate is locked, the most preferred one becomes the partner.
ClaimPartner(r) ==
    /\ pc[r] = "claim"
    /\ \E q \in Candidates(r) :
        /\ \A s \in Candidates(r) : Preferred(r, q, s)
        /\ partner' = [partner EXCEPT ![r] = q]
    /\ lock' = [p \in Players |-> IF p \in Candidates(r) THEN r ELSE lock[p]]
    /\ Goto(r, "claimed")
    /\ UNCHANGED <<dbVars, who, now, evicted>>

NoPartner(r) ==
    /\ pc[r] = "claim"
    /\ Candidates(r) = {}
    /\ Goto(r, "waiting")
    /\ UNCHANGED <<dbVars, lock, who, now, evicted, partner>>

\* (QueueDropsLocked: every row the scan locked goes with the pair.)
QueueDropsLocked(r, removed) ==
    [p \in Players |-> IF p \in removed \cup evicted[r] \/ (removed # {} /\ lock[p] = r)
                       THEN NotQueued
                       ELSE IF p = who[r] THEN now[r] ELSE enq[p]]

\* The queue this transaction commits: own row refreshed, stale rows gone.
QueueAfter(r, removed) ==
    [p \in Players |-> IF p \in removed \cup evicted[r] THEN NotQueued
                       ELSE IF p = who[r] THEN now[r] ELSE enq[p]]

CommitWaiting(r) ==
    /\ pc[r] = "waiting"
    /\ enq' = QueueAfter(r, {})
    /\ ReleaseLocks(r)
    /\ Reply(r)
    /\ UNCHANGED <<clock, pairs, capped>>

\* INSERT pairs, DELETE both rows, commit.  The earlier in the queue is player_a.
CommitMatch(r) ==
    LET me == who[r]  q == partner[r]  id == Cardinality(pairs) + 1
        first == IF now[r] <= enq[q] THEN me ELSE q
        second == IF first = me THEN q ELSE me
    IN
    /\ pc[r] = "claimed"
    /\ pairs' = pairs \cup {[id |-> id, a |-> first, b |-> second, status |-> "active"]}
    /\ enq' = QueueAfter(r, {me, q})
    /\ ReleaseLocks(r)
    /\ Reply(r)
    /\ UNCHANGED <<clock, capped>>

-----------------------------------------------------------------------------
(* Rollbacks. *)

\* (RollbackKeepsLocks: the error leaves the transaction open in its connection.)
RollbackKeepsLocks(r) == Reply(r) /\ UNCHANGED <<dbVars, lock>>

\* An error leaves `async with conn.transaction()`, which rolls back (pg_store.py:301).
Rollback(r) == ReleaseLocks(r) /\ Reply(r) /\ UNCHANGED dbVars

\* The transactions a waiting statement waits for.
WaitsFor(r) ==
    CASE pc[r] \in {"enqueue", "refresh"} -> {lock[who[r]]} \ {Nobody}
      [] pc[r] = "evict" -> {lock[q] : q \in ToEvict(r)} \ {Nobody}
      [] OTHER -> {}

WaitCycle(r) ==
    \E n \in 1..Cardinality(Reqs) : \E path \in [1..n -> Reqs] :
        /\ path[1] = r
        /\ \A i \in 1..n : path[IF i = n THEN 1 ELSE i + 1] \in WaitsFor(path[i])

\* Postgres aborts a transaction whose wait closes a cycle.
DeadlockVictim(r) == WaitCycle(r) /\ Rollback(r)

HandlerDies(r) == HandlersMayDie /\ pc[r] # "idle" /\ Rollback(r)

-----------------------------------------------------------------------------
(* The rest of the system. *)

\* complete_pair_if_capped: at least one of the two has reached the cap.
PairCompletes(pr) ==
    /\ pr.status = "active"
    /\ pairs' = (pairs \ {pr}) \cup {[pr EXCEPT !.status = "completed"]}
    /\ \E reached \in SUBSET {pr.a, pr.b} \ {{}} : capped' = capped \cup reached
    /\ UNCHANGED <<clock, enq, lock, handlerVars>>

Tick ==
    /\ clock < MaxClock
    /\ clock' = clock + 1
    /\ UNCHANGED <<enq, pairs, capped, lock, handlerVars>>

Init ==
    /\ clock = 0
    /\ enq = [p \in Players |-> NotQueued]
    /\ lock = [p \in Players |-> Nobody]
    /\ pairs = {} /\ capped = {}
    /\ pc = [r \in Reqs |-> "idle"]
    /\ who = [r \in Reqs |-> Nobody]
    /\ now = [r \in Reqs |-> 0]
    /\ evicted = [r \in Reqs |-> {}]
    /\ partner = [r \in Reqs |-> Nobody]

HandlerStep(r) ==
    \/ AlreadyMatched(r) \/ NotMatchedYet(r) \/ EnqueuePlayer(r)
    \/ MatchBegins(r) \/ RefreshOwnRow(r) \/ EvictRow(r) \/ EvictionDone(r)
    \/ ClaimPartner(r) \/ NoPartner(r) \/ CommitWaiting(r) \/ CommitMatch(r)
    \/ DeadlockVictim(r)

Next ==
    \/ \E r \in Reqs : (\E p \in Players : RequestArrives(r, p)) \/ HandlerStep(r) \/ HandlerDies(r)
    \/ \E pr \in pairs : PairCompletes(pr)
    \/ Tick

Spec == Init /\ [][Next]_vars

\* Postgres queues waiters of a row lock fairly, so a step that is enabled again
\* and again is taken.
FairSpec == Spec /\ \A r \in Reqs : SF_vars(HandlerStep(r))

-----------------------------------------------------------------------------
(* Properties *)

\* A row is locked only by a transaction that is past its first write.
LockOK(p) == Locked(p) => pc[lock[p]] \in TransactionPcs

\* From its first write on a transaction holds the row of its player, and it holds
\* every row it deleted, for being stale, and the one it claimed.
HandlerOK(r) ==
    /\ pc[r] # "idle" => who[r] \in Players
    /\ pc[r] \in TransactionPcs => lock[who[r]] = r
    /\ \A p \in evicted[r] : lock[p] = r /\ Stale(p, now[r])
    /\ pc[r] = "claimed" => partner[r] \in Players /\ lock[partner[r]] = r

QueueOK ==
    /\ clock \in Times
    /\ enq \in [Players -> Times \cup {NotQueued}]
    /\ lock \in [Players -> Reqs \cup {Nobody}]
    /\ pc \in [Reqs -> Pcs]
    /\ who \in [Reqs -> Players \cup {Nobody}]
    /\ now \in [Reqs -> Times]
    /\ evicted \in [Reqs -> SUBSET Players]
    /\ partner \in [Reqs -> Players \cup {Nobody}]
    /\ \A p \in Players : LockOK(p)
    /\ \A r \in Reqs : HandlerOK(r)

TypeOK ==
    /\ QueueOK
    /\ pairs \subseteq PairRows
    /\ capped \subseteq Players

\* What SKIP LOCKED does guarantee: two transactions about to insert a pair
\* never share a player, so no queue row is consumed by two pairs.
ClaimsDisjoint ==
    \A r, s \in Reqs : pc[r] = "claimed" /\ pc[s] = "claimed" /\ r # s =>
        {who[r], partner[r]} \cap {who[s], partner[s]} = {}

\* A claimed partner's committed row is still there, and fresh for the claimer,
\* when the pair is inserted: neither eviction nor a peer removed it since.
ClaimedRowSurvives ==
    \A r \in Reqs : pc[r] = "claimed" =>
        /\ Queued(partner[r]) /\ ~Stale(partner[r], now[r])
        /\ Compatible(who[r], partner[r])
        /\ partner[r] \notin evicted[r]

\* A transaction about to insert a pair holds a partner nobody else does, whose
\* row is still there and fresh (pg_store.py:374-400).
ClaimsHold == ClaimsDisjoint /\ ClaimedRowSurvives

\* A waiter leaves the queue only into a pair or because a transaction found the
\* row older than the TTL: eviction re-reads a row it had to wait for.
WaiterNotDropped ==
    [][\A p \in Players : Queued(p) /\ enq'[p] = NotQueued =>
        \/ \E pr \in pairs' \ pairs : p \in {pr.a, pr.b}
        \/ \E r \in Reqs : Stale(p, now[r])]_vars

\* Every request is answered: waits for row locks end, deadlocks are broken.
RequestsAnswered == \A r \in Reqs : pc[r] # "idle" ~> pc[r] = "idle"

-----------------------------------------------------------------------------
(* The inductive invariants behind the safety properties                     *)
(* (Matchmaking_proofs).                                                     *)

QueueInv == QueueOK /\ ClaimedRowSurvives

\* Pairs are numbered as they are inserted, each number once.
PairsNumbered ==
    /\ pairs \subseteq [id : Nat, a : Players, b : Players, status : {"active", "completed"}]
    /\ IsFiniteSet(pairs)
    /\ \A pr \in pairs : pr.id \in 1..Cardinality(pairs)
    /\ \A x, y \in pairs : x.id = y.id => x = y

=============================================================================
