--------------------------- MODULE Generation_proofs ---------------------------
(***************************************************************************)
(* The calls to the models, and the build of a deck that makes them.  The  *)
(* two machines share no variable and no name; both are about limits that  *)
(* tasks hold while they are cancelled.                                    *)
(*                                                                         *)
(* Calls (GeminiClient): what a call is charged and how often the service  *)
(* is asked, for any number of calls, retries and cancellations and any    *)
(* limits.  BillInv follows the bill of a call through the retry loop;     *)
(* WindowInv says that the window holds the starts of the last minute in   *)
(* order, and that whoever sleeps before it sleeps until one has left it.  *)
(*                                                                         *)
(* Builds (DeckGeneration): what a build leaves behind, for any concepts,  *)
(* limits on images, retries and inventions, and number of decoys.  Cards  *)
(* are launched all at once and build_deck leaves them only when every one *)
(* is over (Staged); a card holds one of the slots exactly while its image *)
(* is made, and the lock exactly while it writes (Slots, Locked);          *)
(* persisted_count counts the cards that came back from persist_card, and  *)
(* the rows are those and what the lock's holder has committed, as long as *)
(* no card has failed (Counted).                                           *)
(***************************************************************************)
EXTENDS GeminiClient, DeckGeneration, FiniteSetTheorems, SequenceTheorems,
        WellFoundedInduction, TLAPS

(* The calls. *)

\* Types of what the argument talks about.
BillTypes ==
    /\ pc \in [Calls -> Pcs]
    /\ reply \in [Calls -> Replies]
    /\ charged \in [Calls -> Nat]
    /\ executed \in [Calls -> Nat]
    /\ lost \in [Calls -> Nat]

\* The bill of a call at each place of _run_with_policy: while it may still be
\* sent, every run of it was lost and nothing is charged; only an answer that has
\* not been recorded yet is one run ahead.
Unbilled(c) == pc[c] = "record" /\ reply[c] \in Answered

BillOf(c) ==
    /\ pc[c] = "ended" => executed[c] <= lost[c] + 1 /\ charged[c] <= executed[c] - lost[c]
    /\ Unbilled(c) => executed[c] = lost[c] + 1
    /\ pc[c] # "ended" => charged[c] = 0
    /\ pc[c] # "ended" /\ ~Unbilled(c) => executed[c] = lost[c]

BillInv == BillTypes /\ \A c \in Calls : BillOf(c)

-----------------------------------------------------------------------------
LEMMA BillInit == Init => BillInv
BY DEF Init, Answered, BillInv, BillTypes, BillOf, Unbilled, Pcs, Replies

\* RecordRow adds one row at most, and a charged one only for an answer.
LEMMA RowKeepsBill ==
    ASSUME BillInv, NEW c \in Calls, pc[c] = "record", RecordRow(c)
    PROVE  /\ charged' \in [Calls -> Nat]
           /\ \A d \in Calls \ {c} : charged'[d] = charged[d]
           /\ reply[c] \notin Answered => charged' = charged
           /\ charged'[c] <= executed[c] - lost[c]
           /\ executed[c] <= lost[c] + 1
<1>1. charged \in [Calls -> Nat] /\ \A d \in Calls : executed[d] \in Nat /\ lost[d] \in Nat
  BY DEF BillInv, BillTypes
<1>2. CASE charged' = charged
  BY <1>1, <1>2 DEF BillInv, BillOf, Unbilled
<1>3. ASSUME NEW cost \in Costs(reply[c]), InsertRow(c, cost)
      PROVE  \/ charged' = charged
             \/ reply[c] \in Answered /\ charged' = [charged EXCEPT ![c] = charged[c] + 1]
  <2>1. CASE cost
    <3>1. charged' = [charged EXCEPT ![c] = charged[c] + 1]
      BY <1>3, <2>1 DEF InsertRow
    <3>2. reply[c] \in Answered
      BY <2>1 DEF Costs
    <3>. QED BY <3>1, <3>2
  <2>2. CASE ~cost
    <3>1. charged' = [charged EXCEPT ![c] = charged[c]]
      BY <1>3, <2>2 DEF InsertRow
    <3>. QED BY <1>1, <3>1
  <2>. QED BY <2>1, <2>2
<1>4. CASE reply[c] \in Answered /\ charged' = [charged EXCEPT ![c] = charged[c] + 1]
  BY <1>1, <1>4 DEF BillInv, BillOf, Unbilled
<1>. QED BY <1>2, <1>3, <1>4 DEF RecordRow

\* Steps that leave the bill and the replies alone and do not end a call.
LEMMA MovesKeepBill ==
    ASSUME BillInv, NEW c \in Calls, NEW l \in Pcs \ {"record", "ended"},
           pc[c] \notin {"record", "ended"}, Goto(c, l),
           UNCHANGED <<reply, charged, executed, lost>>
    PROVE  BillInv'
BY DEF BillInv, BillTypes, BillOf, Unbilled, Goto

LEMMA TakeSlotKeepsBill ==
    ASSUME BillInv, NEW c \in Calls, TakeSlot(c)
    PROVE  BillInv'
BY MovesKeepBill DEF TakeSlot, billVars, Pcs

LEMMA EnterGateKeepsBill ==
    ASSUME BillInv, NEW c \in Calls, EnterGate(c)
    PROVE  BillInv'
<1>1. UNCHANGED <<reply, charged, executed, lost>> /\ pc[c] = "gate"
  BY DEF EnterGate, billVars
<1>2. Goto(c, "wire") \/ Goto(c, "nap")
  BY DEF EnterGate, Send
<1>. QED BY <1>1, <1>2, MovesKeepBill DEF Pcs

LEMMA WakeUpKeepsBill ==
    ASSUME BillInv, NEW c \in Calls, WakeUp(c)
    PROVE  BillInv'
<1>1. UNCHANGED <<reply, charged, executed, lost>> /\ pc[c] = "nap" /\ Goto(c, "wire")
  BY DEF WakeUp, Send, billVars
<1>. QED BY <1>1, MovesKeepBill DEF Pcs

LEMMA BeginKeepsBill ==
    ASSUME BillInv, NEW c \in Calls, Begin(c)
    PROVE  BillInv'
BY MovesKeepBill DEF Begin, billVars, Pcs

LEMMA RefuseKeepsBill ==
    ASSUME BillInv, NEW c \in Calls, Refuse(c)
    PROVE  BillInv'
BY DEF Refuse, billVars, BillInv, BillTypes, BillOf, Unbilled, Goto, Pcs

\* The one step that runs a call.
LEMMA AnswerKeepsBill ==
    ASSUME BillInv, NEW c \in Calls, Answer(c)
    PROVE  BillInv'
BY DEF BillInv, BillTypes, BillOf, Unbilled, Answer, Goto, Answered, Replies, Pcs,
       TextReplies, ImageReplies, Unanswered

LEMMA FinishKeepsBill ==
    ASSUME BillInv, NEW c \in Calls, Finish(c)
    PROVE  BillInv'
<1>1. pc[c] = "record" /\ RecordRow(c) /\ Goto(c, "ended")
      /\ UNCHANGED <<reply, executed, lost>>
  BY DEF Finish
<1>. QED BY <1>1, RowKeepsBill DEF BillInv, BillTypes, BillOf, Unbilled, Goto, Pcs

\* Only an unanswered attempt is repeated.
LEMMA BackOffKeepsBill ==
    ASSUME BillInv, NEW c \in Calls, BackOff(c)
    PROVE  BillInv'
<1>1. pc[c] = "record" /\ RecordRow(c) /\ Goto(c, "backoff")
      /\ UNCHANGED <<reply, executed, lost>>
  BY DEF BackOff
<1>2. reply[c] \notin Answered
  BY DEF BackOff, Retryable, Answered
<1>3. charged' = charged
  BY <1>1, <1>2, RowKeepsBill
<1>. QED BY <1>1, <1>2, <1>3 DEF BillInv, BillTypes, BillOf, Unbilled, Goto, Pcs

LEMMA RetryKeepsBill ==
    ASSUME BillInv, NEW c \in Calls, Retry(c)
    PROVE  BillInv'
BY DEF BillInv, BillTypes, BillOf, Unbilled, Retry, billVars, Goto, Pcs, Replies, Answered

LEMMA CancelKeepsBill ==
    ASSUME BillInv, NEW c \in Calls, Cancel(c)
    PROVE  BillInv'
<1>1. Goto(c, "ended") /\ UNCHANGED <<reply, executed, lost>> /\ pc[c] # "ended"
  BY DEF Cancel
<1>2. CASE pc[c] = "record"
  <2>1. RecordRow(c)
    BY <1>2 DEF Cancel
  <2>. QED BY <1>1, <1>2, <2>1, RowKeepsBill DEF BillInv, BillTypes, BillOf, Unbilled, Goto, Pcs
<1>3. CASE pc[c] # "record"
  <2>1. charged' = charged
    BY <1>3 DEF Cancel
  <2>. QED BY <1>1, <1>3, <2>1 DEF BillInv, BillTypes, BillOf, Unbilled, Goto, Pcs
<1>. QED BY <1>2, <1>3

LEMMA BillStep == BillInv /\ [Next]_vars => BillInv'
<1>. SUFFICES ASSUME BillInv, [Next]_vars
              PROVE  BillInv'
  OBVIOUS
<1>1. CASE Tick
  BY <1>1 DEF Tick, billVars, BillInv, BillTypes, BillOf, Unbilled
<1>2. ASSUME NEW c \in Calls, Begin(c) \/ Refuse(c) \/ Progress(c) \/ Cancel(c)
      PROVE  BillInv'
  BY <1>2, BeginKeepsBill, RefuseKeepsBill, TakeSlotKeepsBill, EnterGateKeepsBill, WakeUpKeepsBill,
     AnswerKeepsBill, FinishKeepsBill, BackOffKeepsBill, RetryKeepsBill, CancelKeepsBill
     DEF Progress
<1>3. CASE UNCHANGED vars
  BY <1>3 DEF vars, billVars, BillInv, BillTypes, BillOf, Unbilled
<1>. QED BY <1>1, <1>2, <1>3 DEF Next

LEMMA BillMeansChargedOnce == BillInv => ChargedOnce
BY DEF BillInv, BillTypes, BillOf, Unbilled, ChargedOnce

\* A call is run again only while every earlier run of it was lost, and its
\* success is charged at most once, whatever is retried, cancelled or not
\* recorded (_run_with_policy, gemini_client.py).
THEOREM CallsChargedOnce == Spec => []ChargedOnce
<1>1. Spec => []BillInv
  BY BillInit, BillStep, PTL DEF Spec
<1>. QED BY <1>1, BillMeansChargedOnce, PTL

-----------------------------------------------------------------------------
(* The semaphore *)

PermitInv ==
    /\ pc \in [Calls -> Pcs]
    /\ permits \in Int /\ leaked \in Int
    /\ PermitsAccounted

\* How the number of holders follows a call's place.
LEMMA HolderMoves ==
    ASSUME pc \in [Calls -> Pcs], NEW c \in Calls, NEW l \in Pcs, Goto(c, l)
    PROVE  /\ pc' \in [Calls -> Pcs]
           /\ Cardinality(Holders) \in Nat /\ Cardinality(Holders)' \in Nat
           /\ (pc[c] \in HoldsSlot <=> l \in HoldsSlot) => Cardinality(Holders)' = Cardinality(Holders)
           /\ pc[c] \notin HoldsSlot /\ l \in HoldsSlot
                => Cardinality(Holders)' = Cardinality(Holders) + 1
           /\ pc[c] \in HoldsSlot /\ l \notin HoldsSlot
                => Cardinality(Holders)' = Cardinality(Holders) - 1
<1>1. pc' \in [Calls -> Pcs] /\ pc' = [pc EXCEPT ![c] = l]
  BY DEF Goto
<1>2. IsFiniteSet(Holders)
  BY GeminiAssumption, FS_Subset DEF Holders
<1>3. CASE l \in HoldsSlot
  <2>1. Holders' = Holders \cup {c} /\ (c \in Holders <=> pc[c] \in HoldsSlot)
    BY <1>1, <1>3 DEF Holders
  <2>. QED BY <1>1, <1>2, <1>3, <2>1, FS_AddElement, FS_CardinalityType
<1>4. CASE l \notin HoldsSlot
  <2>1. Holders' = Holders \ {c} /\ (c \in Holders <=> pc[c] \in HoldsSlot)
    BY <1>1, <1>4 DEF Holders
  <2>. QED BY <1>1, <1>2, <1>4, <2>1, FS_RemoveElement, FS_CardinalityType
<1>. QED BY <1>3, <1>4

LEMMA PermitInit == Init => PermitInv
<1>. SUFFICES ASSUME Init PROVE PermitInv
  OBVIOUS
<1>1. Holders = {}
  BY DEF Init, Holders, HoldsSlot
<1>. QED BY <1>1, FS_EmptySet, GeminiAssumption DEF Init, PermitInv, PermitsAccounted, Pcs

\* One step of one call: what it takes, gives back or loses is what it holds.
LEMMA CallKeepsPermits ==
    ASSUME PermitInv, NEW c \in Calls, Begin(c) \/ Refuse(c) \/ Progress(c) \/ Cancel(c)
    PROVE  PermitInv'
<1>1. CASE TakeSlot(c)
  <2>1. pc[c] = "slot" /\ Goto(c, "gate") /\ permits' = permits - 1 /\ UNCHANGED leaked
    BY <1>1 DEF TakeSlot, ghosts
  <2>. QED BY <2>1, HolderMoves DEF PermitInv, PermitsAccounted, Pcs, HoldsSlot
<1>2. CASE Finish(c) \/ Retry(c)
  <2>1. pc[c] \in {"record", "backoff"} /\ permits' = permits + 1 /\ UNCHANGED leaked
        /\ \E l \in {"ended", "slot"} : Goto(c, l)
    BY <1>2 DEF Finish, Retry, ghosts
  <2>. QED BY <2>1, HolderMoves DEF PermitInv, PermitsAccounted, Pcs, HoldsSlot
<1>3. CASE EnterGate(c) \/ WakeUp(c) \/ Answer(c) \/ BackOff(c)
  <2>1. pc[c] \in HoldsSlot /\ UNCHANGED <<permits, leaked>>
        /\ \E l \in HoldsSlot : Goto(c, l)
    BY <1>3 DEF EnterGate, WakeUp, Answer, BackOff, Send, ghosts, gateVars, HoldsSlot
  <2>. QED BY <2>1, HolderMoves DEF PermitInv, PermitsAccounted, Pcs, HoldsSlot
<1>4. CASE Begin(c) \/ Refuse(c)
  <2>1. pc[c] = "idle" /\ UNCHANGED <<permits, leaked>>
        /\ \E l \in {"slot", "ended"} : Goto(c, l)
    BY <1>4 DEF Begin, Refuse, ghosts, gateVars
  <2>. QED BY <2>1, HolderMoves DEF PermitInv, PermitsAccounted, Pcs, HoldsSlot
<1>5. CASE Cancel(c)
  <2>1. pc[c] \notin {"idle", "ended"} /\ Goto(c, "ended")
    BY <1>5 DEF Cancel
  <2>2. IF pc[c] \in {"gate", "nap"}
        THEN leaked' = leaked + 1 /\ UNCHANGED permits
        ELSE permits' = (IF pc[c] = "slot" THEN permits ELSE permits + 1) /\ UNCHANGED leaked
    BY <1>5 DEF Cancel
  <2>. QED BY <2>1, <2>2, HolderMoves DEF PermitInv, PermitsAccounted, Pcs, HoldsSlot
<1>. QED BY <1>1, <1>2, <1>3, <1>4, <1>5 DEF Progress

LEMMA PermitStep == PermitInv /\ [Next]_vars => PermitInv'
<1>. SUFFICES ASSUME PermitInv, [Next]_vars
              PROVE  PermitInv'
  OBVIOUS
<1>1. CASE Tick \/ UNCHANGED vars
  BY <1>1 DEF Tick, vars, gateVars, ghosts, PermitInv, PermitsAccounted, Holders
<1>. QED BY <1>1, CallKeepsPermits DEF Next

\* No permit is given out twice or lost, except to a cancellation inside acquire,
\* however many calls, retries and cancellations there are (_ModelGate).
THEOREM SemaphoreSound == Spec => []PermitsAccounted
<1>1. PermitInv => PermitsAccounted
  BY DEF PermitInv
<1>. QED BY <1>1, PermitInit, PermitStep, PTL DEF Spec

-----------------------------------------------------------------------------
(* The rolling window *)

LEMMA LeastNumber ==
    ASSUME NEW S \in SUBSET Nat, S # {}
    PROVE  \E m \in S : \A k \in S : m <= k
<1>. DEFINE Less == {ss \in Nat \X Nat : ss[1] < ss[2]}
<1>1. IsWellFoundedOn(Less, Nat)
  BY NatLessThanWellFounded DEF OpToRel
<1>2. ASSUME NEW m \in Nat, NEW k \in Nat, k < m
      PROVE  <<k, m>> \in Less
  <2>1. <<k, m>>[1] = k /\ <<k, m>>[2] = m /\ <<k, m>> \in Nat \X Nat
    OBVIOUS
  <2>. QED BY <1>2, <2>1, Zenon
<1>. HIDE DEF Less
<1>3. PICK m \in S : \A k \in S : <<k, m>> \notin Less
  BY <1>1, WFMin
<1>4. ASSUME NEW k \in S PROVE m <= k
  <2>1. m \in Nat /\ k \in Nat
    OBVIOUS
  <2>2. ~ (k < m)
    BY <1>2, <1>3, <2>1, Zenon
  <2>. QED BY <2>1, <2>2
<1>. QED BY <1>4

\* The popleft loop stops, at one place only.
LEMMA PoppedExists ==
    ASSUME NEW ages \in Seq(Nat)
    PROVE  \E n \in 0..Len(ages) : Popped(ages, n)
<1>. DEFINE Stops == {k \in 0..Len(ages) : k = Len(ages) \/ ages[k + 1] < Window}
<1>1. Stops \in SUBSET Nat /\ Len(ages) \in Stops
  OBVIOUS
<1>2. PICK n \in Stops : \A k \in Stops : n <= k
  <2>. HIDE DEF Stops
  <2>. QED BY <1>1, LeastNumber
<1>3. ASSUME NEW i \in 1..n PROVE ages[i] >= Window
  <2>1. i - 1 \in 0..Len(ages) /\ i - 1 # Len(ages) /\ i \in 1..Len(ages) /\ (i - 1) + 1 = i
    OBVIOUS
  <2>3. i - 1 \notin Stops
    <3>. HIDE DEF Stops
    <3>1. ~ (n <= i - 1)
      BY <1>1
    <3>. QED BY <1>2, <3>1
  <2>2. ages[i] \in Nat /\ ~ (ages[i] < Window)
    BY <2>1, <2>3
  <2>. QED BY <2>2, GeminiAssumption
<1>. QED BY <1>2, <1>3 DEF Popped

LEMMA RestOf ==
    ASSUME NEW ages \in Seq(Nat), NEW n \in 0..Len(ages)
    PROVE  LET rest == SubSeq(ages, n + 1, Len(ages))
           IN  /\ rest \in Seq(Nat) /\ Len(rest) = Len(ages) - n
               /\ \A i \in 1..Len(rest) : rest[i] = ages[i + n]
<1>. DEFINE rest == SubSeq(ages, n + 1, Len(ages))
<1>1. n + 1 \in Int /\ Len(ages) \in Int /\ \A i \in (n + 1)..Len(ages) : ages[i] \in Nat
  OBVIOUS
<1>2. /\ rest \in Seq(Nat)
      /\ Len(rest) = IF n + 1 <= Len(ages) THEN Len(ages) - (n + 1) + 1 ELSE 0
      /\ \A i \in 1..Len(ages) - (n + 1) + 1 : rest[i] = ages[(n + 1) + i - 1]
  <2>. HIDE DEF rest
  <2>. QED BY <1>1, SubSeqProperties DEF rest
<1>. HIDE DEF rest
<1>3. Len(rest) = Len(ages) - n
  BY <1>2
<1>4. \A i \in 1..Len(rest) : rest[i] = ages[i + n]
  BY <1>2, <1>3
<1>. QED BY <1>2, <1>3, <1>4 DEF rest

LEMMA UnexpiredIs ==
    ASSUME NEW ages \in Seq(Nat), NEW n \in 0..Len(ages), Popped(ages, n)
    PROVE  Unexpired(ages) = SubSeq(ages, n + 1, Len(ages))
<1>1. ASSUME NEW k \in 0..Len(ages), Popped(ages, k) PROVE k = n
  <2>1. \A i \in 1..Len(ages) : ages[i] \in Nat
    OBVIOUS
  <2>2. CASE k < n
    BY <1>1, <2>1, <2>2, GeminiAssumption DEF Popped
  <2>3. CASE n < k
    BY <1>1, <2>1, <2>3, GeminiAssumption DEF Popped
  <2>. QED BY <2>2, <2>3
<1>. DEFINE m == CHOOSE k \in 0..Len(ages) : Popped(ages, k)
<1>2. m = n
  <2>1. m \in 0..Len(ages) /\ Popped(ages, m)
    OBVIOUS
  <2>. QED BY <1>1, <2>1
<1>3. Unexpired(ages) = SubSeq(ages, m + 1, Len(ages))
  BY DEF Unexpired
<1>. QED BY <1>2, <1>3

\* What the gate remembers of the last Window ticks is what was sent in them, and
\* who sleeps has the gate to itself until the oldest of a full window has left it.
\* Without the lock two sleepers would wake to the same free place; with only the
\* count of starts, a tick could not be told to free one.
Remembered ==
    \E n \in 0..Len(timestamps) :
        Popped(timestamps, n) /\ starts = SubSeq(timestamps, n + 1, Len(timestamps))

Recent ==
    /\ \A i \in 1..Len(starts) : starts[i] < Window
    /\ \A i, j \in 1..Len(starts) : i <= j => starts[j] <= starts[i]

Sleeping(c) ==
    pc[c] = "nap" => lock = c /\ (Len(starts) = Rpm => starts[1] + nap[c] >= Window)

WindowInv ==
    /\ pc \in [Calls -> Pcs] /\ nap \in [Calls -> Nat]
    /\ timestamps \in Seq(Nat) /\ starts \in Seq(Nat)
    /\ Remembered /\ Recent /\ RpmRespected
    /\ \A c \in Calls : Sleeping(c)

LEMMA WindowKnown == WindowInv => Unexpired(timestamps) = starts
BY UnexpiredIs DEF WindowInv, Remembered

LEMMA WindowInit == Init => WindowInv
<1>. SUFFICES ASSUME Init PROVE WindowInv
  OBVIOUS
<1>1. timestamps = <<>> /\ starts = <<>> /\ Len(starts) = 0 /\ Len(timestamps) = 0
  BY DEF Init
<1>2. Remembered
  BY <1>1 DEF Remembered, Popped
<1>. QED BY <1>1, <1>2, GeminiAssumption
         DEF Init, WindowInv, Recent, RpmRespected, Sleeping, Pcs

\* A request that leaves while nobody sleeps and there is room in the window.
LEMMA SendKeepsWindow ==
    ASSUME WindowInv, NEW c \in Calls, Send(c), Len(starts) < Rpm, UNCHANGED nap,
           \A d \in Calls \ {c} : pc[d] # "nap"
    PROVE  WindowInv'
<1>1. timestamps' = Append(starts, 0) /\ starts' = Append(starts, 0) /\ Goto(c, "wire")
  BY WindowKnown DEF Send
<1>2. /\ starts' \in Seq(Nat) /\ Len(starts') = Len(starts) + 1
      /\ \A i \in 1..Len(starts) : starts'[i] = starts[i]
      /\ starts'[Len(starts) + 1] = 0
  BY <1>1 DEF WindowInv
<1>3. Recent'
  <2>1. \A i \in 1..Len(starts') : i \in 1..Len(starts) \/ i = Len(starts) + 1
    BY <1>2 DEF WindowInv
  <2>2. \A i \in 1..Len(starts) : starts[i] \in Nat /\ starts[i] < Window
    BY DEF WindowInv, Recent
  <2>3. \A i, j \in 1..Len(starts) : i <= j => starts[j] <= starts[i]
    BY DEF WindowInv, Recent
  <2>4. Len(starts) \in Nat /\ Window \in Nat /\ 0 < Window
    BY GeminiAssumption DEF WindowInv
  <2>5. \A i \in 1..Len(starts') : starts'[i] < Window /\ starts'[i] >= 0
    BY <1>2, <2>1, <2>2, <2>4
  <2>6. ASSUME NEW i \in 1..Len(starts'), NEW j \in 1..Len(starts'), i <= j
        PROVE  starts'[j] <= starts'[i]
    <3>1. CASE j = Len(starts) + 1
      BY <1>2, <2>5, <3>1
    <3>2. CASE j \in 1..Len(starts)
      <4>1. i \in 1..Len(starts)
        BY <2>4, <2>6, <3>2
      <4>. QED BY <1>2, <2>3, <2>6, <3>2, <4>1
    <3>. QED BY <2>1, <3>1, <3>2
  <2>. QED BY <2>5, <2>6 DEF Recent
<1>4. Remembered'
  <2>1. Popped(timestamps, 0)'
    BY <1>1, <1>2, <1>3 DEF Popped, Recent, WindowInv
  <2>2. SubSeq(timestamps', 1, Len(timestamps')) = timestamps'
    BY <1>1, <1>2
  <2>. QED BY <1>1, <1>2, <2>1, <2>2 DEF Remembered
<1>5. \A d \in Calls : pc'[d] # "nap"
  BY <1>1 DEF Goto, WindowInv
<1>. QED BY <1>1, <1>2, <1>3, <1>4, <1>5, GeminiAssumption
         DEF WindowInv, RpmRespected, Sleeping, Goto, Pcs

LEMMA EnterGateKeepsWindow ==
    ASSUME WindowInv, NEW c \in Calls, EnterGate(c)
    PROVE  WindowInv'
<1>1. \A d \in Calls : pc[d] # "nap"
  BY GeminiAssumption DEF EnterGate, WindowInv, Sleeping
<1>2. CASE Len(starts) < Rpm
  <2>1. Send(c) /\ UNCHANGED nap
    BY <1>2, WindowKnown DEF EnterGate
  <2>. QED BY <1>1, <1>2, <2>1, SendKeepsWindow
<1>3. CASE ~ (Len(starts) < Rpm)
  <2>1. /\ lock' = c /\ timestamps' = starts /\ UNCHANGED starts
        /\ nap' = [nap EXCEPT ![c] = Window - Head(starts)] /\ Goto(c, "nap")
    BY <1>3, WindowKnown DEF EnterGate
  <2>2. Len(starts) = Rpm /\ Len(starts) \in Nat \ {0} /\ Head(starts) = starts[1]
        /\ starts[1] \in Nat /\ starts[1] < Window
    BY <1>3, GeminiAssumption DEF WindowInv, RpmRespected, Recent
  <2>3. nap' \in [Calls -> Nat] /\ starts[1] + nap'[c] = Window /\ Window \in Nat
    BY <2>1, <2>2, GeminiAssumption DEF WindowInv
  <2>4. pc' \in [Calls -> Pcs] /\ \A d \in Calls : pc'[d] = "nap" => d = c
    BY <1>1, <2>1 DEF WindowInv, Goto, Pcs
  <2>5. Remembered'
    <3>1. Popped(timestamps, 0)'
      BY <2>1, <2>2 DEF Popped
    <3>2. SubSeq(starts, 1, Len(starts)) = starts
      BY DEF WindowInv
    <3>3. 0 \in 0..Len(timestamps') /\ SubSeq(timestamps', 0 + 1, Len(timestamps')) = starts'
      BY <2>1, <2>2, <3>2
    <3>. QED BY <3>1, <3>3 DEF Remembered
  <2>6. \A d \in Calls : Sleeping(d)'
    BY <2>1, <2>2, <2>3, <2>4 DEF Sleeping
  <2>. QED BY <2>1, <2>3, <2>4, <2>5, <2>6 DEF WindowInv, Recent, RpmRespected
<1>. QED BY <1>2, <1>3

\* The window need not be looked at again after the sleep: one start has left it.
LEMMA WakeUpKeepsWindow ==
    ASSUME WindowInv, NEW c \in Calls, WakeUp(c)
    PROVE  WindowInv'
<1>1. Send(c) /\ UNCHANGED nap /\ pc[c] = "nap" /\ nap[c] = 0 /\ lock = c
  BY DEF WakeUp, WindowInv, Sleeping
<1>2. \A d \in Calls \ {c} : pc[d] # "nap"
  BY <1>1 DEF WindowInv, Sleeping
<1>3. Len(starts) < Rpm
  <2>1. CASE Len(starts) = Rpm
    <3>1. starts[1] + nap[c] >= Window /\ starts[1] < Window /\ starts[1] \in Nat
      BY <1>1, <2>1, GeminiAssumption DEF WindowInv, Sleeping, Recent
    <3>. QED BY <1>1, <3>1, GeminiAssumption
  <2>2. CASE Len(starts) # Rpm
    BY <2>2, GeminiAssumption DEF WindowInv, RpmRespected
  <2>. QED BY <2>1, <2>2
<1>. QED BY <1>1, <1>2, <1>3, SendKeepsWindow

\* Steps that neither send nor start to sleep, and free the lock at most for who
\* has ended.
LEMMA MovesKeepWindow ==
    ASSUME WindowInv, NEW c \in Calls, NEW l \in Pcs \ {"nap"}, Goto(c, l),
           UNCHANGED <<timestamps, starts, nap>>,
           lock' = lock \/ lock = c
    PROVE  WindowInv'
<1>1. pc' \in [Calls -> Pcs] /\ \A d \in Calls : pc'[d] = "nap" => d # c /\ pc[d] = "nap"
  BY DEF WindowInv, Goto
<1>2. \A d \in Calls : Sleeping(d)'
  BY <1>1 DEF WindowInv, Sleeping
<1>. QED BY <1>1, <1>2 DEF WindowInv, Remembered, Popped, Recent, RpmRespected

LEMMA CallKeepsWindow ==
    ASSUME WindowInv, NEW c \in Calls, Begin(c) \/ Refuse(c) \/ Progress(c) \/ Cancel(c)
    PROVE  WindowInv'
<1>1. CASE EnterGate(c) \/ WakeUp(c)
  BY <1>1, EnterGateKeepsWindow, WakeUpKeepsWindow
<1>2. CASE Begin(c) \/ Refuse(c) \/ TakeSlot(c) \/ Answer(c) \/ Finish(c) \/ BackOff(c)
           \/ Retry(c) \/ Cancel(c)
  <2>1. /\ UNCHANGED <<timestamps, starts, nap>> /\ (lock' = lock \/ lock = c)
        /\ \E l \in Pcs \ {"nap"} : Goto(c, l)
    BY <1>2 DEF Begin, Refuse, TakeSlot, Answer, Finish, BackOff, Retry, Cancel,
                gateVars, ghosts, Pcs
  <2>. QED BY <2>1, MovesKeepWindow
<1>. QED BY <1>1, <1>2 DEF Progress

\* Time passes for the gate and for the requests alike.
LEMMA TickKeepsWindow ==
    ASSUME WindowInv, Tick
    PROVE  WindowInv'
<1>. DEFINE older == [i \in DOMAIN starts |-> starts[i] + 1]
<1>1. PICK n \in 0..Len(timestamps) :
        Popped(timestamps, n) /\ starts = SubSeq(timestamps, n + 1, Len(timestamps))
  BY DEF WindowInv, Remembered
<1>2. /\ starts \in Seq(Nat) /\ timestamps \in Seq(Nat) /\ Window \in Nat /\ Rpm \in Nat
      /\ Len(starts) = Len(timestamps) - n
      /\ \A i \in 1..Len(starts) : starts[i] = timestamps[i + n] /\ starts[i] \in Nat
      /\ \A i \in 1..Len(timestamps) : timestamps[i] \in Nat
  <2>1. starts \in Seq(Nat) /\ timestamps \in Seq(Nat) /\ Window \in Nat /\ Rpm \in Nat
    BY GeminiAssumption DEF WindowInv
  <2>2. \A i \in 1..Len(starts) : starts[i] \in Nat
    BY <2>1
  <2>3. \A i \in 1..Len(timestamps) : timestamps[i] \in Nat
    BY <2>1
  <2>4. Len(starts) = Len(timestamps) - n /\ \A i \in 1..Len(starts) : starts[i] = timestamps[i + n]
    BY <1>1, <2>1, RestOf
  <2>. QED BY <2>1, <2>2, <2>3, <2>4
<1>3. older \in Seq(Nat) /\ Len(older) = Len(starts)
      /\ \A i \in 1..Len(starts) : older[i] = starts[i] + 1
  BY <1>2
<1>4. timestamps' \in Seq(Nat) /\ Len(timestamps') = Len(timestamps)
      /\ \A i \in 1..Len(timestamps) :
            timestamps'[i] = IF timestamps[i] < Window THEN timestamps[i] + 1 ELSE Window
  BY <1>2 DEF Tick
<1>. HIDE DEF older
<1>5. PICK k \in 0..Len(older) : Popped(older, k)
  BY <1>3, PoppedExists
<1>6. starts' = SubSeq(older, k + 1, Len(older))
  BY <1>3, <1>5, UnexpiredIs DEF Tick, older
<1>7. /\ starts' \in Seq(Nat) /\ Len(starts') = Len(starts) - k
      /\ \A i \in 1..Len(starts') : starts'[i] = starts[i + k] + 1
  <2>1. /\ starts' \in Seq(Nat) /\ Len(starts') = Len(older) - k
        /\ \A i \in 1..Len(starts') : starts'[i] = older[i + k]
    BY <1>3, <1>5, <1>6, RestOf
  <2>2. \A i \in 1..Len(starts') : i + k \in 1..Len(starts)
    BY <1>2, <1>3, <1>5, <2>1
  <2>. QED BY <1>2, <1>3, <2>1, <2>2
<1>8. Recent'
  <2>1. \A i \in 1..Len(starts') : i + k \in 1..Len(starts) /\ k + 1 \in 1..Len(starts) /\ k + 1 <= i + k
    BY <1>2, <1>3, <1>5, <1>7
  <2>2. \A i \in 1..Len(starts') : starts[i + k] <= starts[k + 1] /\ older[k + 1] < Window
    <3>1. \A i, j \in 1..Len(starts) : i <= j => starts[j] <= starts[i]
      BY DEF WindowInv, Recent
    <3>2. k = Len(older) \/ older[k + 1] < Window
      BY <1>5 DEF Popped
    <3>3. k + 1 \in 1..Len(starts) => k # Len(older)
      BY <1>2, <1>3, <1>5
    <3>. QED BY <2>1, <3>1, <3>2, <3>3
  <2>3. \A i \in 1..Len(starts') : starts'[i] < Window
    <3>. TAKE i \in 1..Len(starts')
    <3>1. starts[i + k] \in Nat /\ starts[k + 1] \in Nat /\ older[k + 1] = starts[k + 1] + 1
      BY <1>2, <1>3, <2>1
    <3>2. starts[i + k] <= starts[k + 1] /\ starts[k + 1] + 1 < Window /\ starts'[i] = starts[i + k] + 1
      BY <1>7, <2>2, <3>1
    <3>3. Window \in Nat
      BY <1>2
    <3>. HIDE DEF older
    <3>. QED BY <3>1, <3>2, <3>3
  <2>4. ASSUME NEW i \in 1..Len(starts'), NEW j \in 1..Len(starts'), i <= j
        PROVE  starts'[j] <= starts'[i]
    <3>1. i + k \in 1..Len(starts) /\ j + k \in 1..Len(starts)
      BY <2>1
    <3>2. i + k <= j + k
      BY <1>5, <2>4
    <3>3. starts[j + k] <= starts[i + k] /\ starts[j + k] \in Nat /\ starts[i + k] \in Nat
      BY <1>2, <3>1, <3>2 DEF WindowInv, Recent
    <3>. QED BY <1>7, <3>3
  <2>. QED BY <2>3, <2>4 DEF Recent
<1>9. Remembered'
  <2>1. n + k \in 0..Len(timestamps')
    BY <1>2, <1>3, <1>4, <1>5
  <2>2. \A i \in 1..Len(starts) : timestamps'[i + n] = older[i]
    <3>. TAKE i \in 1..Len(starts)
    <3>1. i + n \in 1..Len(timestamps) /\ timestamps[i + n] = starts[i] /\ starts[i] < Window
      BY <1>2 DEF WindowInv, Recent
    <3>. QED BY <1>2, <1>3, <1>4, <3>1
  <2>3. \A i \in 1..(n + k) : timestamps'[i] >= Window
    <3>. TAKE i \in 1..(n + k)
    <3>1. CASE i <= n
      <4>1. i \in 1..n /\ i \in 1..Len(timestamps)
        BY <3>1
      <4>2. timestamps[i] >= Window /\ timestamps[i] \in Nat
        BY <1>1, <1>2, <4>1 DEF Popped
      <4>. QED BY <1>2, <1>4, <4>1, <4>2
    <3>2. CASE i > n
      <4>1. i - n \in 1..k /\ i - n \in 1..Len(starts) /\ (i - n) + n = i
        BY <1>2, <1>3, <1>5, <3>2
      <4>2. older[i - n] >= Window
        BY <1>5, <4>1 DEF Popped
      <4>. QED BY <2>2, <4>1, <4>2
    <3>. QED BY <3>1, <3>2
  <2>4. n + k = Len(timestamps') \/ timestamps'[n + k + 1] < Window
    <3>1. CASE k = Len(older)
      BY <1>2, <1>3, <1>4, <3>1
    <3>2. CASE k # Len(older)
      <4>1. k + 1 \in 1..Len(starts) /\ (k + 1) + n = n + k + 1 /\ older[k + 1] < Window
        BY <1>2, <1>3, <1>5, <3>2 DEF Popped
      <4>. QED BY <2>2, <4>1
    <3>. QED BY <3>1, <3>2
  <2>5. starts' = SubSeq(timestamps', n + k + 1, Len(timestamps'))
    <3>. DEFINE rest == SubSeq(timestamps', n + k + 1, Len(timestamps'))
    <3>1. /\ rest \in Seq(Nat) /\ Len(rest) = Len(timestamps) - (n + k)
          /\ \A i \in 1..Len(rest) : rest[i] = timestamps'[i + (n + k)]
      BY <1>4, <2>1, RestOf
    <3>2. Len(starts') = Len(rest)
      BY <1>2, <1>3, <1>5, <1>7, <3>1
    <3>3. \A i \in 1..Len(rest) : starts'[i] = rest[i]
      <4>. TAKE i \in 1..Len(rest)
      <4>1. i + k \in 1..Len(starts) /\ (i + k) + n = i + (n + k)
        BY <1>2, <1>3, <1>5, <3>1
      <4>2. starts'[i] = older[i + k]
        BY <1>3, <1>7, <3>2, <4>1
      <4>. QED BY <2>2, <3>1, <4>1, <4>2
    <3>. HIDE DEF rest
    <3>4. starts' = rest
      BY <1>7, <3>1, <3>2, <3>3, SeqEqual
    <3>. QED BY <3>4 DEF rest
  <2>. QED BY <2>1, <2>3, <2>4, <2>5 DEF Remembered, Popped
<1>10. nap' \in [Calls -> Nat] /\ UNCHANGED <<pc, lock>>
       /\ \A c \in Calls : nap'[c] = IF nap[c] > 0 THEN nap[c] - 1 ELSE 0
  BY DEF Tick, WindowInv
<1>11. \A c \in Calls : Sleeping(c)'
  <2>. TAKE c \in Calls
  <2>. SUFFICES ASSUME pc[c] = "nap", Len(starts') = Rpm
                PROVE  starts'[1] + nap'[c] >= Window
    BY <1>10 DEF Sleeping, WindowInv
  <2>1. Len(starts) \in Nat /\ Rpm \in Nat /\ Rpm # 0 /\ Len(starts) <= Rpm
    BY <1>2, GeminiAssumption DEF WindowInv, RpmRespected
  <2>2. k = 0 /\ Len(starts) = Rpm /\ 1 \in 1..Len(starts') /\ 1 \in 1..Len(starts)
    BY <1>3, <1>5, <1>7, <2>1
  <2>3. starts[1] + nap[c] >= Window
    BY <2>2 DEF WindowInv, Sleeping
  <2>4. starts'[1] = starts[1] + 1 /\ starts[1] \in Nat /\ nap[c] \in Nat
    BY <1>2, <1>7, <2>2 DEF WindowInv
  <2>5. nap'[c] = IF nap[c] > 0 THEN nap[c] - 1 ELSE 0
    BY <1>10
  <2>. QED BY <1>2, <2>3, <2>4, <2>5
<1>12. RpmRespected'
  BY <1>2, <1>3, <1>5, <1>7 DEF WindowInv, RpmRespected
<1>. QED BY <1>4, <1>7, <1>8, <1>9, <1>10, <1>11, <1>12 DEF WindowInv

LEMMA WindowStep == WindowInv /\ [Next]_vars => WindowInv'
<1>. SUFFICES ASSUME WindowInv, [Next]_vars
              PROVE  WindowInv'
  OBVIOUS
<1>1. CASE UNCHANGED vars
  BY <1>1 DEF vars, gateVars, ghosts, WindowInv, Remembered, Popped, Recent, RpmRespected, Sleeping
<1>. QED BY <1>1, TickKeepsWindow, CallKeepsWindow DEF Next

\* However many calls, retries and cancellations there are, at most Rpm requests
\* leave in any 60 seconds (_ModelGate.acquire).
THEOREM RateLimited == Spec => []RpmRespected
<1>1. WindowInv => RpmRespected
  BY DEF WindowInv
<1>. QED BY <1>1, WindowInit, WindowStep, PTL DEF Spec


-----------------------------------------------------------------------------
(* The builds. *)

Early == {"start", "invent", "images", "translate", "launch"}
Later == {"announce", "decoys", "publish"}
Ending == {"fail", "service", "ended"}

Failing == \E c \in Concepts : task[c] = "failed"
At(label) == {c \in Concepts : task[c] = label}

Types ==
    /\ progressive \in BOOLEAN /\ dry \in BOOLEAN
    /\ main \in Early \cup Later \cup Ending \cup {"cards", "join", "dead"}
    /\ task \in [Concepts -> {"idle"} \cup Working \cup Over]
    /\ tries \in [Concepts -> Nat]
    /\ doomed \in [Concepts -> BOOLEAN]
    /\ slots \in Nat /\ persisted \in Nat
    /\ holder \in Concepts \cup {NoCard}
    /\ rows \subseteq Concepts /\ images \subseteq Concepts
    /\ decoys \in [Concepts -> SUBSET Concepts] /\ picked \in [Concepts -> SUBSET Concepts]
    /\ status \in {"generating", "failed"} \cup Final
    /\ stored.cards_ready \in Nat

\* Where the tasks are when build_deck is where it is.
Staged ==
    /\ main \in Early => /\ \A c \in Concepts : task[c] = "idle"
                         /\ rows = {} /\ stored.cards_ready = 0
    /\ main \in Later => \A c \in Concepts : task[c] = "built"
    /\ main = "announce" => progressive
    /\ main \in Ending => \A c \in Concepts : task[c] \notin Working
    /\ \A c \in Concepts : doomed[c] => Failing
    /\ status # "generating" => main \in Ending \cup {"dead"}

Slots == slots + Cardinality(At("image")) = MaxImages

Locked == \A c \in Concepts : holder = c <=> task[c] \in {"persist", "closing"}

Counted ==
    progressive =>
        /\ persisted = Cardinality(At("built"))
        /\ At("built") \cup At("closing") \subseteq rows
        /\ ~Failing => rows = At("built") \cup At("closing")
        /\ ~dry => rows \subseteq images

Whole ==
    ~progressive =>
        /\ \A c \in Concepts : task[c] \notin {"lock", "persist", "closing"}
        /\ \/ rows = {} /\ stored.cards_ready = 0
           \/ rows = Concepts /\ stored.cards_ready = Cardinality(Concepts)

Decided ==
    main = "publish" =>
        \A c \in Concepts : c \notin picked[c] /\ Cardinality(picked[c]) = NDecoys

BuildInv ==
    /\ Types /\ Staged /\ Slots /\ Locked /\ Counted /\ Whole /\ Decided
    /\ ProgressMatchesRows /\ ReadyDeckPlayable

-----------------------------------------------------------------------------
LEMMA ConceptsFinite ==
    /\ IsFiniteSet(Concepts) /\ Cardinality(Concepts) \in Nat
    /\ \A S \in SUBSET Concepts : IsFiniteSet(S) /\ Cardinality(S) \in Nat /\ Cardinality(S) <= Cardinality(Concepts)
    /\ NoCard \notin Concepts /\ MaxImages \in Nat
BY FS_Subset, FS_CardinalityType, DeckGenerationAssumption

LEMMA CountMoves ==
    ASSUME Types, NEW c \in Concepts, NEW label, GotoTask(c, label), label \in Working \cup Over, NEW l
    PROVE  /\ label # l /\ task[c] # l => At(l)' = At(l) /\ Cardinality(At(l)') = Cardinality(At(l))
           /\ label = l /\ task[c] # l => At(l)' = At(l) \cup {c}
                                        /\ Cardinality(At(l)') = Cardinality(At(l)) + 1
           /\ label # l /\ task[c] = l => At(l)' = At(l) \ {c}
                                        /\ Cardinality(At(l)') + 1 = Cardinality(At(l))
<1>1. At(l) \in SUBSET Concepts /\ IsFiniteSet(At(l)) /\ Cardinality(At(l)) \in Nat
  BY ConceptsFinite DEF At
<1>2. /\ label # l /\ task[c] # l => At(l)' = At(l)
      /\ label = l /\ task[c] # l => At(l)' = At(l) \cup {c} /\ c \notin At(l)
      /\ label # l /\ task[c] = l => At(l)' = At(l) \ {c} /\ c \in At(l)
  BY DEF Types, GotoTask, At
<1>. QED BY <1>1, <1>2, FS_AddElement, FS_RemoveElement, ConceptsFinite

\* What every step of a card's task has in common.
LEMMA CardMoves ==
    ASSUME BuildInv, NEW c \in Concepts, task[c] \in Working, main # "dead",
           NEW label, label \in Working \cup Over, GotoTask(c, label), Elsewhere
    PROVE  /\ main \in {"cards", "join"} /\ status = "generating"
           /\ Staged' /\ Decided' /\ ReadyDeckPlayable'
           /\ Failing => Failing'
           /\ ~Failing' => ~Failing /\ label # "failed"
<1>1. main \in {"cards", "join"}
  BY DEF BuildInv, Types, Staged, Early, Later, Ending, Working
<1>2. status = "generating"
  BY <1>1 DEF BuildInv, Staged, Ending
<1>3. (Failing => Failing') /\ (~Failing' => ~Failing /\ label # "failed")
  BY DEF BuildInv, Types, Failing, GotoTask, Working, Elsewhere
<1>4. Staged'
  BY <1>1, <1>2, <1>3 DEF BuildInv, Staged, Elsewhere, Early, Later, Ending
<1>5. Decided' /\ ReadyDeckPlayable'
  BY <1>1, <1>2 DEF Decided, ReadyDeckPlayable, Elsewhere, Final
<1>. QED BY <1>1, <1>2, <1>3, <1>4, <1>5

\* ... and what holds when it writes nothing.
LEMMA NothingWritten ==
    ASSUME BuildInv, NEW c \in Concepts, task[c] \in Working \ {"closing"}, main # "dead",
           NEW label, label \in Working \cup Over, GotoTask(c, label), Elsewhere,
           UNCHANGED <<persisted, stored, rows, images>>, label # "closing",
           label = "built" => ~progressive, label \in {"lock", "persist"} => progressive
    PROVE  Counted' /\ Whole' /\ ProgressMatchesRows'
<1>1. (Failing => Failing') /\ (~Failing' => ~Failing)
  BY CardMoves
<1>2. ASSUME progressive PROVE At("built")' = At("built") /\ At("closing")' = At("closing")
  BY <1>2, CountMoves DEF BuildInv, Working
<1>3. Counted'
  BY <1>1, <1>2 DEF BuildInv, Counted, Elsewhere, kind
<1>4. Whole'
  BY DEF BuildInv, Types, Whole, Elsewhere, kind, GotoTask
<1>5. ProgressMatchesRows'
  BY <1>1 DEF BuildInv, ProgressMatchesRows, Failing
<1>. QED BY <1>3, <1>4, <1>5

\* The transaction of persist_card leaves at least as many rows as it announces.
LEMMA CommitCounts ==
    ASSUME BuildInv, NEW c \in Concepts, task[c] = "persist", CommitCard(c)
    PROVE  /\ progressive
           /\ rows' = rows \cup {c} /\ rows' \subseteq Concepts /\ images' \subseteq Concepts
           /\ ~dry => rows' \subseteq images'
           /\ stored'.cards_ready = persisted + 1
           /\ persisted + 1 <= Cardinality(rows')
           /\ ~Failing => persisted + 1 = Cardinality(rows')
<1>1. progressive
  BY DEF BuildInv, Whole
<1>2. rows' = rows \cup {c} /\ rows' \subseteq Concepts /\ images' \subseteq Concepts
  BY DEF CommitCard, BuildInv, Types
<1>3. ~dry => rows' \subseteq images'
  BY <1>1 DEF CommitCard, BuildInv, Counted
<1>4. stored'.cards_ready = persisted + 1
  BY DEF CommitCard, Metrics
<1>5. At("closing") = {} /\ c \notin At("built")
  BY DEF BuildInv, Types, Locked, At
<1>6. /\ IsFiniteSet(At("built")) /\ Cardinality(At("built") \cup {c}) = persisted + 1
  BY <1>1, <1>5, ConceptsFinite, FS_AddElement DEF At, BuildInv, Counted
<1>7. At("built") \cup {c} \subseteq rows' /\ (~Failing => rows' = At("built") \cup {c})
  BY <1>1, <1>2, <1>5 DEF BuildInv, Counted
<1>8. persisted + 1 <= Cardinality(rows')
  BY <1>2, <1>6, <1>7, ConceptsFinite, FS_Subset
<1>. QED BY <1>1, <1>2, <1>3, <1>4, <1>6, <1>7, <1>8

-----------------------------------------------------------------------------
(* The steps of one card's task. *)

LEMMA TakeImageSlotKeepsInv ==
    ASSUME BuildInv, NEW c \in Concepts, TakeImageSlot(c)
    PROVE  BuildInv'
<1>1. task[c] = "slot" /\ main # "dead" /\ GotoTask(c, "image") /\ Elsewhere
  BY DEF TakeImageSlot, Runs
<1>2. Staged' /\ Decided' /\ ReadyDeckPlayable'
  BY <1>1, CardMoves DEF Working
<1>3. Counted' /\ Whole' /\ ProgressMatchesRows'
  BY <1>1, NothingWritten DEF Working, TakeImageSlot
<1>4. Types'
  BY <1>1 DEF TakeImageSlot, BuildInv, Types, GotoTask, Elsewhere, kind, Working
<1>5. Cardinality(At("image")') = Cardinality(At("image")) + 1
  BY <1>1, CountMoves DEF BuildInv, Working
<1>6. Slots'
  BY <1>5, ConceptsFinite DEF TakeImageSlot, BuildInv, Types, Slots, At
<1>7. Locked'
  BY <1>1 DEF TakeImageSlot, BuildInv, Types, Locked, GotoTask
<1>. QED BY <1>2, <1>3, <1>4, <1>6, <1>7 DEF BuildInv

LEMMA ImageAnswerKeepsInv ==
    ASSUME BuildInv, NEW c \in Concepts, ImageAnswer(c)
    PROVE  BuildInv'
<1>. PICK label \in {"verify", "failed"} : GotoTask(c, label)
  BY DEF ImageAnswer
<1>1. task[c] = "image" /\ main # "dead" /\ Elsewhere /\ label \in Working \cup Over
  BY DEF ImageAnswer, Runs, Working, Over
<1>2. Staged' /\ Decided' /\ ReadyDeckPlayable'
  BY <1>1, CardMoves DEF Working
<1>3. Counted' /\ Whole' /\ ProgressMatchesRows'
  BY <1>1, NothingWritten DEF Working, ImageAnswer
<1>4. Types'
  BY <1>1 DEF ImageAnswer, BuildInv, Types, GotoTask, Elsewhere, kind
<1>5. Cardinality(At("image")') + 1 = Cardinality(At("image"))
  BY <1>1, CountMoves DEF BuildInv
<1>6. At("image") \in SUBSET Concepts /\ At("image")' \in SUBSET Concepts
  BY DEF At
<1>7. Slots'
  BY <1>5, <1>6, ConceptsFinite DEF ImageAnswer, BuildInv, Types, Slots
<1>8. Locked'
  BY <1>1 DEF ImageAnswer, BuildInv, Types, Locked, GotoTask
<1>. QED BY <1>2, <1>3, <1>4, <1>7, <1>8 DEF BuildInv

LEMMA VerifyKeepsInv ==
    ASSUME BuildInv, NEW c \in Concepts, Verify(c)
    PROVE  BuildInv'
<1>1. task[c] = "verify" /\ main # "dead" /\ Elsewhere
  BY DEF Verify, Runs
<1>2. \E label \in {AcceptTo, "slot", "failed"} :
        GotoTask(c, label) /\ tries' \in {tries, [tries EXCEPT ![c] = @ + 1]}
  BY DEF Verify
<1>3. PICK label \in {AcceptTo, "slot", "failed"} :
        GotoTask(c, label) /\ tries' \in {tries, [tries EXCEPT ![c] = @ + 1]}
  BY <1>2
<1>4. label \in {"lock", "built", "slot", "failed"} /\ (label = "built" => ~progressive)
      /\ (label = "lock" => progressive)
  BY DEF AcceptTo
<1>5. label \in Working \cup Over
  BY <1>4 DEF Working, Over
<1>6. Staged' /\ Decided' /\ ReadyDeckPlayable'
  BY <1>1, <1>3, <1>5, CardMoves DEF Working
<1>7. Counted' /\ Whole' /\ ProgressMatchesRows'
  BY <1>1, <1>3, <1>4, <1>5, NothingWritten DEF Working, Verify
<1>8. Types'
  BY <1>1, <1>3, <1>5 DEF Verify, BuildInv, Types, GotoTask, Elsewhere, kind
<1>9. Slots'
  BY <1>1, <1>3, <1>4, <1>5, CountMoves DEF Verify, BuildInv, Slots
<1>10. Locked'
  BY <1>1, <1>3, <1>4 DEF Verify, BuildInv, Types, Locked, GotoTask
<1>. QED BY <1>6, <1>7, <1>8, <1>9, <1>10 DEF BuildInv

LEMMA TakeLockKeepsInv ==
    ASSUME BuildInv, NEW c \in Concepts, TakeLock(c)
    PROVE  BuildInv'
<1>1. task[c] = "lock" /\ main # "dead" /\ GotoTask(c, "persist") /\ Elsewhere
  BY DEF TakeLock, Runs
<1>2. Staged' /\ Decided' /\ ReadyDeckPlayable'
  BY <1>1, CardMoves DEF Working
<1>3. Counted' /\ Whole' /\ ProgressMatchesRows'
  <2>1. progressive
    BY <1>1 DEF BuildInv, Whole
  <2>. QED BY <1>1, <2>1, NothingWritten DEF Working, TakeLock
<1>4. Types'
  BY <1>1 DEF TakeLock, BuildInv, Types, GotoTask, Elsewhere, kind, Working
<1>5. Slots'
  BY <1>1, CountMoves DEF TakeLock, BuildInv, Slots, Working
<1>6. Locked'
  BY <1>1, ConceptsFinite DEF TakeLock, BuildInv, Types, Locked, GotoTask
<1>. QED BY <1>2, <1>3, <1>4, <1>5, <1>6 DEF BuildInv

LEMMA PersistCardKeepsInv ==
    ASSUME BuildInv, NEW c \in Concepts, PersistCard(c)
    PROVE  BuildInv'
<1>1. task[c] = "persist" /\ main # "dead" /\ GotoTask(c, "closing") /\ Elsewhere /\ CommitCard(c)
  BY DEF PersistCard, Runs
<1>2. Staged' /\ Decided' /\ ReadyDeckPlayable' /\ (~Failing' => ~Failing)
  BY <1>1, CardMoves DEF Working
<1>3. At("built")' = At("built") /\ At("closing")' = At("closing") \cup {c}
      /\ Cardinality(At("image")') = Cardinality(At("image"))
  BY <1>1, CountMoves DEF BuildInv, Working
<1>4. Counted'
  BY <1>1, <1>2, <1>3, CommitCounts DEF PersistCard, BuildInv, Counted, Elsewhere, kind
<1>5. Whole'
  BY <1>1, CommitCounts DEF Whole, Elsewhere, kind
<1>6. ProgressMatchesRows'
  BY <1>1, <1>2, CommitCounts DEF ProgressMatchesRows, Failing
<1>7. Types'
  BY <1>1, CommitCounts DEF PersistCard, BuildInv, Types, GotoTask, Elsewhere, kind, Working
<1>8. Slots' /\ Locked'
  BY <1>1, <1>3 DEF PersistCard, BuildInv, Types, Slots, Locked, GotoTask
<1>. QED BY <1>2, <1>4, <1>5, <1>6, <1>7, <1>8 DEF BuildInv

\* A task that ends in the middle of persist_card, whatever of it happened.
LEMMA InterruptedWrite ==
    ASSUME BuildInv, NEW c \in Concepts, task[c] \in Working, main # "dead",
           NEW label \in {"failed", "cancelled"}, GotoTask(c, label), Elsewhere, Failing',
           UNCHANGED persisted,
           \/ task[c] = "persist" /\ CommitCard(c)
           \/ UNCHANGED <<rows, stored>> /\ images' \in {images, images \cup {c}}
    PROVE  /\ Counted' /\ Whole' /\ ProgressMatchesRows'
           /\ rows' \subseteq Concepts /\ images' \subseteq Concepts /\ stored'.cards_ready \in Nat
<1>1. /\ At("built")' = At("built")
      /\ At("closing")' \subseteq At("closing")
  BY CountMoves DEF BuildInv, Working, Over
<1>2. CASE task[c] = "persist" /\ CommitCard(c)
  <2>1. /\ progressive /\ rows' = rows \cup {c} /\ (~dry => rows' \subseteq images')
        /\ stored'.cards_ready = persisted + 1 /\ persisted + 1 <= Cardinality(rows')
        /\ rows' \subseteq Concepts /\ images' \subseteq Concepts
    BY <1>2, CommitCounts
  <2>2. Counted'
    BY <1>1, <2>1 DEF BuildInv, Counted, Elsewhere, kind
  <2>3. Whole'
    BY <2>1 DEF Whole, Elsewhere, kind
  <2>4. ProgressMatchesRows'
    BY <2>1 DEF ProgressMatchesRows, Failing
  <2>. QED BY <2>1, <2>2, <2>3, <2>4 DEF BuildInv, Types
<1>3. CASE UNCHANGED <<rows, stored>> /\ images' \in {images, images \cup {c}}
  <2>1. Counted'
    BY <1>1, <1>3 DEF BuildInv, Counted, Elsewhere, kind
  <2>2. Whole'
    BY <1>3 DEF BuildInv, Types, Whole, Elsewhere, kind, GotoTask
  <2>3. ProgressMatchesRows'
    BY <1>3 DEF BuildInv, ProgressMatchesRows, Failing
  <2>. QED BY <1>3, <2>1, <2>2, <2>3 DEF BuildInv, Types
<1>. QED BY <1>2, <1>3

LEMMA PersistRaisesKeepsInv ==
    ASSUME BuildInv, NEW c \in Concepts, PersistRaises(c)
    PROVE  BuildInv'
<1>1. task[c] = "persist" /\ main # "dead" /\ GotoTask(c, "failed") /\ Elsewhere
  BY DEF PersistRaises, Runs
<1>2. Failing'
  BY <1>1 DEF Failing, GotoTask, BuildInv, Types
<1>3. Staged' /\ Decided' /\ ReadyDeckPlayable'
  BY <1>1, CardMoves DEF Working, Over
<1>4. /\ Counted' /\ Whole' /\ ProgressMatchesRows'
      /\ rows' \subseteq Concepts /\ images' \subseteq Concepts /\ stored'.cards_ready \in Nat
  BY <1>1, <1>2, InterruptedWrite DEF PersistRaises, Working
<1>5. Types'
  BY <1>1, <1>4 DEF PersistRaises, BuildInv, Types, GotoTask, Elsewhere, kind, Over
<1>6. Slots'
  BY <1>1, CountMoves DEF PersistRaises, BuildInv, Slots, Over
<1>7. Locked'
  BY <1>1, ConceptsFinite DEF PersistRaises, BuildInv, Types, Locked, GotoTask
<1>. QED BY <1>3, <1>4, <1>5, <1>6, <1>7 DEF BuildInv

LEMMA PersistReturnsKeepsInv ==
    ASSUME BuildInv, NEW c \in Concepts, PersistReturns(c)
    PROVE  BuildInv'
<1>1. task[c] = "closing" /\ main # "dead" /\ GotoTask(c, "built") /\ Elsewhere
  BY DEF PersistReturns, Runs
<1>2. Staged' /\ Decided' /\ ReadyDeckPlayable' /\ (~Failing' => ~Failing)
  BY <1>1, CardMoves DEF Working, Over
<1>3. At("built")' = At("built") \cup {c} /\ Cardinality(At("built")') = Cardinality(At("built")) + 1
      /\ At("closing")' = At("closing") \ {c}
      /\ Cardinality(At("image")') = Cardinality(At("image"))
  BY <1>1, CountMoves DEF BuildInv, Over
<1>4. Counted' /\ Whole'
  <2>1. progressive /\ c \in At("closing")
    BY <1>1 DEF BuildInv, Whole, At
  <2>. QED BY <1>1, <1>2, <1>3, <2>1 DEF PersistReturns, BuildInv, Counted, Whole, Elsewhere, kind
<1>5. ProgressMatchesRows'
  BY <1>2 DEF PersistReturns, BuildInv, ProgressMatchesRows, Failing
<1>6. Types'
  BY <1>1 DEF PersistReturns, BuildInv, Types, GotoTask, Elsewhere, kind, Over
<1>7. Slots'
  BY <1>3 DEF PersistReturns, BuildInv, Slots
<1>8. Locked'
  BY <1>1, ConceptsFinite DEF PersistReturns, BuildInv, Types, Locked, GotoTask
<1>. QED BY <1>2, <1>4, <1>5, <1>6, <1>7, <1>8 DEF BuildInv

LEMMA CancelledKeepsInv ==
    ASSUME BuildInv, NEW c \in Concepts, Cancelled(c)
    PROVE  BuildInv'
<1>1. task[c] \in Working /\ main # "dead" /\ GotoTask(c, "cancelled") /\ Elsewhere /\ doomed[c]
  BY DEF Cancelled
<1>2. Staged' /\ Decided' /\ ReadyDeckPlayable' /\ Failing'
  <2>1. Failing
    BY <1>1 DEF BuildInv, Staged
  <2>. QED BY <1>1, <2>1, CardMoves DEF Over
<1>3. \/ task[c] = "persist" /\ CommitCard(c)
      \/ UNCHANGED <<rows, stored>> /\ images' \in {images, images \cup {c}}
  BY DEF Cancelled
<1>4. /\ Counted' /\ Whole' /\ ProgressMatchesRows'
      /\ rows' \subseteq Concepts /\ images' \subseteq Concepts /\ stored'.cards_ready \in Nat
  BY <1>1, <1>2, <1>3, InterruptedWrite DEF Cancelled
<1>5. Types'
  BY <1>1, <1>4 DEF Cancelled, BuildInv, Types, GotoTask, Elsewhere, kind, Over
<1>6. Slots'
  <2>1. /\ task[c] = "image" => Cardinality(At("image")') + 1 = Cardinality(At("image"))
        /\ task[c] # "image" => Cardinality(At("image")') = Cardinality(At("image"))
    BY <1>1, CountMoves DEF BuildInv, Over
  <2>2. At("image") \in SUBSET Concepts /\ At("image")' \in SUBSET Concepts
    BY DEF At
  <2>. QED BY <2>1, <2>2, ConceptsFinite DEF Cancelled, BuildInv, Types, Slots
<1>7. Locked'
  BY <1>1, ConceptsFinite DEF Cancelled, BuildInv, Types, Locked, GotoTask
<1>. QED BY <1>2, <1>4, <1>5, <1>6, <1>7 DEF BuildInv

-----------------------------------------------------------------------------
(* The steps of build_deck itself. *)

\* Nothing of the tasks moves.
LEMMA TasksStay ==
    ASSUME UNCHANGED task
    PROVE  (\A l : At(l)' = At(l)) /\ (Failing' <=> Failing)
BY DEF At, Failing

\* A step that leaves the tasks and the cards alone only has to come to a place of
\* build_deck that fits them.
LEMMA OnlyMain ==
    ASSUME BuildInv, UNCHANGED <<kind, taskVars, rows, decoys, images, commitLost>>,
           stored'.cards_ready = stored.cards_ready, status' \in {status, "failed"},
           picked' \in [Concepts -> SUBSET Concepts], Decided',
           main' \in Early \cup Later \cup Ending \cup {"cards", "join", "dead"},
           main' \in Early => main \in Early,
           main' \in Later => \A c \in Concepts : task[c] = "built",
           main' = "announce" => progressive,
           main' \in Ending => \A c \in Concepts : task[c] \notin Working,
           status' # "generating" => main' \in Ending \cup {"dead"}
    PROVE  BuildInv'
<1>1. (\A l : At(l)' = At(l)) /\ (Failing' <=> Failing)
  BY TasksStay DEF taskVars
<1>2. Types' /\ Staged'
  BY <1>1 DEF BuildInv, Types, Staged, kind, taskVars
<1>3. Slots' /\ Locked' /\ Counted' /\ Whole'
  BY <1>1 DEF BuildInv, Slots, Locked, Counted, Whole, kind, taskVars
<1>4. ProgressMatchesRows'
  BY DEF BuildInv, ProgressMatchesRows, taskVars
<1>5. ReadyDeckPlayable'
  BY DEF BuildInv, ReadyDeckPlayable, Final, kind
<1>. QED BY <1>2, <1>3, <1>4, <1>5 DEF BuildInv

\* Before the cards are launched no task works, nothing is stored, and the deck is
\* generating.
LEMMA EarlyFacts ==
    ASSUME BuildInv, main \in Early
    PROVE  /\ \A c \in Concepts : task[c] = "idle" /\ task[c] \notin Working
           /\ status = "generating" /\ stored.cards_ready = 0
           /\ picked \in [Concepts -> SUBSET Concepts]
BY DEF BuildInv, Types, Staged, Early, Ending, Working

LEMMA EarlyStepsKeepInv ==
    ASSUME BuildInv, StartPrompt \/ StartOperator \/ Invent \/ AnnounceImages \/ Translate
    PROVE  BuildInv'
<1>1. /\ main \in Early
      /\ main' \in Early \cup {"fail"} /\ main' # "publish"
      /\ UNCHANGED <<kind, taskVars, picked, commitLost, status, rows, decoys, images>>
  BY DEF StartPrompt, StartOperator, Invent, AnnounceImages, Translate, Early, GotoMain, Raises,
         UpdateState, Alone, deckVars
<1>2. stored'.cards_ready \in {stored.cards_ready, 0}
  BY DEF StartPrompt, StartOperator, Invent, AnnounceImages, Translate, Raises,
         UpdateState, deckVars, Metrics
<1>3. Decided'
  BY <1>1 DEF Decided
<1>4. main' \notin Later /\ main' # "announce" /\ main' # "dead"
  BY <1>1 DEF Early, Later
<1>. QED BY <1>1, <1>2, <1>3, <1>4, EarlyFacts, OnlyMain DEF Ending

LEMMA LaunchKeepsInv ==
    ASSUME BuildInv, Launch
    PROVE  BuildInv'
<1>1. main = "launch" /\ main' = "cards" /\ task' = [c \in Concepts |-> "slot"]
      /\ UNCHANGED <<kind, doomed, slots, holder, persisted, picked, deckVars, commitLost>>
  BY DEF Launch, GotoMain
<1>2. (\A c \in Concepts : task[c] = "idle") /\ status = "generating" /\ ~Failing /\ ~Failing'
  BY <1>1, EarlyFacts DEF Early, Failing
<1>3. \A l \in {"image", "built", "closing"} : At(l)' = {} /\ At(l) = {}
  BY <1>1, <1>2 DEF At
<1>4. Types'
  BY <1>1 DEF Launch, BuildInv, Types, kind, deckVars, Working
<1>5. Staged'
  BY <1>1, <1>2 DEF BuildInv, Staged, Early, Later, Ending, deckVars
<1>6. Slots' /\ Locked' /\ Counted' /\ Whole'
  BY <1>1, <1>2, <1>3 DEF BuildInv, Slots, Locked, Counted, Whole, kind, deckVars
<1>7. Decided' /\ ProgressMatchesRows' /\ ReadyDeckPlayable'
  BY <1>1, <1>2 DEF BuildInv, Decided, ProgressMatchesRows, ReadyDeckPlayable, Failing, kind, deckVars, Final
<1>. QED BY <1>4, <1>5, <1>6, <1>7 DEF BuildInv

LEMMA CancelTasksKeepsInv ==
    ASSUME BuildInv, CancelTasks
    PROVE  BuildInv'
<1>1. main = "cards" /\ main' = "join" /\ Failing /\ Failing'
      /\ doomed' \in [Concepts -> BOOLEAN]
      /\ UNCHANGED <<kind, task, tries, slots, holder, persisted, picked, deckVars, commitLost>>
  BY DEF CancelTasks, GotoMain, BuildRuns, Failing
<1>2. \A l : At(l)' = At(l)
  BY <1>1, TasksStay
<1>3. Types'
  BY <1>1 DEF BuildInv, Types, kind, deckVars
<1>4. Staged'
  BY <1>1 DEF BuildInv, Staged, Early, Later, Ending, deckVars
<1>5. Slots' /\ Locked' /\ Counted' /\ Whole'
  BY <1>1, <1>2 DEF BuildInv, Slots, Locked, Counted, Whole, kind, deckVars
<1>6. Decided' /\ ProgressMatchesRows' /\ ReadyDeckPlayable'
  BY <1>1 DEF BuildInv, Decided, ProgressMatchesRows, ReadyDeckPlayable, kind, deckVars
<1>. QED BY <1>3, <1>4, <1>5, <1>6 DEF BuildInv

LEMMA TasksEndKeepInv ==
    ASSUME BuildInv, TasksJoined \/ AllBuilt
    PROVE  BuildInv'
<1>1. /\ main \in {"cards", "join"} /\ main' \in {"fail", "announce", "decoys"}
      /\ main' = "announce" => progressive
      /\ main' = "fail" => \A c \in Concepts : task[c] \in Over
      /\ main' \in {"announce", "decoys"} => \A c \in Concepts : task[c] = "built"
      /\ UNCHANGED <<kind, taskVars, picked, deckVars, commitLost>>
  BY DEF TasksJoined, AllBuilt, GotoMain, BuildRuns, Alone
<1>2. status = "generating"
  BY <1>1 DEF BuildInv, Staged, Ending
<1>3. \A c \in Concepts : task[c] \in Over => task[c] \notin Working
  BY DEF Over, Working
<1>4. picked' \in [Concepts -> SUBSET Concepts] /\ Decided' /\ main' \notin Early
      /\ stored' = stored /\ status' = status /\ UNCHANGED <<rows, decoys, images>>
  BY <1>1 DEF BuildInv, Types, Decided, Early, deckVars
<1>. QED BY <1>1, <1>2, <1>3, <1>4, OnlyMain DEF Later, Ending, deckVars

\* Once every card is built, a progressive deck has all its rows.
LEMMA AllRows ==
    ASSUME BuildInv, main \in Later
    PROVE  /\ \A c \in Concepts : task[c] = "built" /\ task[c] \notin Working
           /\ ~Failing /\ status = "generating"
           /\ progressive => rows = Concepts /\ stored.cards_ready = Cardinality(Concepts)
<1>1. \A c \in Concepts : task[c] = "built"
  BY DEF BuildInv, Staged
<1>2. status = "generating"
  BY DEF BuildInv, Staged, Later, Ending
<1>3. ~Failing /\ \A c \in Concepts : task[c] \notin Working
  BY <1>1 DEF Failing, Working
<1>4. progressive => rows = Concepts
  BY <1>1 DEF BuildInv, Types, Counted, At
<1>. QED BY <1>1, <1>2, <1>3, <1>4 DEF BuildInv, ProgressMatchesRows, Failing

LEMMA AnnounceDecoysKeepsInv ==
    ASSUME BuildInv, AnnounceDecoys
    PROVE  BuildInv'
<1>1. /\ main = "announce" /\ main' \in {"decoys", "fail"}
      /\ UNCHANGED <<kind, taskVars, picked, commitLost, status, rows, decoys, images>>
      /\ stored'.cards_ready \in {stored.cards_ready, Cardinality(Concepts)}
  BY DEF AnnounceDecoys, UpdateState, GotoMain, Raises, Alone, deckVars, Metrics
<1>2. progressive
  BY <1>1 DEF BuildInv, Staged
<1>3. stored'.cards_ready = stored.cards_ready
  BY <1>1, <1>2, AllRows DEF Later
<1>4. picked' \in [Concepts -> SUBSET Concepts] /\ Decided' /\ main' \notin Early
  BY <1>1 DEF BuildInv, Types, Decided, Early
<1>. QED BY <1>1, <1>3, <1>4, AllRows, OnlyMain DEF Later, Ending

\* A row of distinct ids names as many cards as it is long.
LEMMA DistinctIds ==
    ASSUME NEW row, NEW n \in Nat, DOMAIN row = 1..n, IsInjective(row)
    PROVE  Cardinality(ToSet(row)) = n
<1>. DEFINE f == [i \in 1..n |-> row[i]]
<1>1. f \in Bijection(1..n, ToSet(row))
  BY DEF Bijection, Injection, Surjection, IsInjective, ToSet
<1>2. ExistsBijection(1..n, ToSet(row))
  BY <1>1 DEF ExistsBijection
<1>3. IsFiniteSet(1..n) /\ Cardinality(1..n) = n
  BY FS_Interval
<1>. QED BY <1>2, <1>3, FS_Bijection

LEMMA RowsAreFunctions ==
    ASSUME NEW c \in Concepts
    PROVE  /\ \A row \in DecoyRows : Len(row) = NDecoys => DOMAIN row = 1..NDecoys
           /\ DOMAIN FakeDecoys(c) = 1..NDecoys
<1>1. \A row \in DecoyRows : Len(row) = NDecoys => DOMAIN row = 1..NDecoys
  <2>. SUFFICES ASSUME NEW n \in Nat, NEW row \in [1..n -> Concepts \cup {Stranger}], Len(row) = NDecoys
                PROVE  DOMAIN row = 1..NDecoys
    BY DeckGenerationAssumption DEF DecoyRows
  <2>1. row \in Seq(Concepts \cup {Stranger})
    OBVIOUS
  <2>. QED BY <2>1
<1>2. DOMAIN FakeDecoys(c) = 1..NDecoys
  BY DeckGenerationAssumption DEF FakeDecoys
<1>. QED BY <1>1, <1>2

LEMMA SelectDecoysKeepsInv ==
    ASSUME BuildInv, SelectDecoys
    PROVE  BuildInv'
<1>1. /\ main = "decoys" /\ main' \in {"publish", "fail"}
      /\ UNCHANGED <<kind, taskVars, deckVars, commitLost>>
  BY DEF SelectDecoys, GotoMain
<1>2. picked' \in [Concepts -> SUBSET Concepts] /\ Decided'
  <2>1. CASE main' = "fail" /\ UNCHANGED picked
    BY <2>1 DEF BuildInv, Types, Decided
  <2>2. ASSUME NEW answer, \A c \in Concepts : RowAccepted(c, answer[c]),
               answer \in IF dry THEN {[c \in Concepts |-> FakeDecoys(c)]} ELSE [Concepts -> DecoyRows],
               picked' = [c \in Concepts |-> ToSet(answer[c])]
        PROVE  picked' \in [Concepts -> SUBSET Concepts] /\ Decided'
    <3>1. ASSUME NEW c \in Concepts
          PROVE  ToSet(answer[c]) \subseteq Concepts \ {c} /\ Cardinality(ToSet(answer[c])) = NDecoys
      <4>1. ToSet(answer[c]) \subseteq Concepts \ {c} /\ Len(answer[c]) = NDecoys /\ IsInjective(answer[c])
        BY <2>2 DEF RowAccepted
      <4>2. answer[c] = FakeDecoys(c) \/ answer[c] \in DecoyRows
        BY <2>2
      <4>3. DOMAIN answer[c] = 1..NDecoys
        BY <4>1, <4>2, RowsAreFunctions
      <4>. QED BY <4>1, <4>3, DistinctIds, DeckGenerationAssumption
    <3>. QED BY <2>2, <3>1 DEF Decided
  <2>. QED BY <2>1, <2>2 DEF SelectDecoys, GotoMain
<1>3. stored' = stored /\ status' = status /\ UNCHANGED <<rows, decoys, images>> /\ main' \notin Early
  BY <1>1 DEF deckVars, Early
<1>. QED BY <1>1, <1>2, <1>3, AllRows, OnlyMain DEF Later, Ending

\* Both publications leave a deck that can be played.
LEMMA PublicationKeepsInv ==
    ASSUME BuildInv, main = "publish", main' \in {"ended", "fail"}, Publish(Concepts),
           UNCHANGED <<kind, taskVars, picked>>, images' \subseteq Concepts,
           dry \/ images' = Concepts \/ (commitLost' /\ ~progressive)
    PROVE  BuildInv'
<1>1. /\ status' \in Final /\ rows' = Concepts /\ decoys' = picked
      /\ stored'.cards_ready = Cardinality(Concepts)
  BY DEF Publish, FinalStatus, Final, Metrics, BuildInv, Types
<1>2. (\A c \in Concepts : task[c] = "built" /\ task[c] \notin Working) /\ ~Failing
      /\ (progressive => rows = Concepts)
  BY AllRows DEF Later
<1>3. (\A l : At(l)' = At(l)) /\ (Failing' <=> Failing)
  BY TasksStay DEF taskVars
<1>4. Types'
  BY <1>1, ConceptsFinite DEF BuildInv, Types, kind, taskVars, Ending
<1>5. Staged'
  BY <1>2, <1>3 DEF BuildInv, Staged, Early, Later, Ending, taskVars
<1>6. Slots' /\ Locked'
  BY <1>3 DEF BuildInv, Slots, Locked, taskVars
<1>7. Counted'
  BY <1>1, <1>2, <1>3 DEF BuildInv, Counted, kind, taskVars
<1>8. Whole'
  BY <1>1, <1>2 DEF BuildInv, Whole, kind, taskVars
<1>9. Decided' /\ ProgressMatchesRows'
  BY <1>1, ConceptsFinite DEF Decided, ProgressMatchesRows
<1>10. ReadyDeckPlayable'
  <2>1. \A c \in Concepts : picked[c] \subseteq Concepts \ {c} /\ Cardinality(picked[c]) = NDecoys
    BY DEF BuildInv, Types, Decided
  <2>. QED BY <1>1, <2>1 DEF ReadyDeckPlayable, kind
<1>. QED BY <1>4, <1>5, <1>6, <1>7, <1>8, <1>9, <1>10 DEF BuildInv

LEMMA FinalizeProgressiveKeepsInv ==
    ASSUME BuildInv, FinalizeProgressive
    PROVE  BuildInv'
<1>1. /\ main = "publish" /\ main' \in {"ended", "fail"} /\ progressive
      /\ UNCHANGED <<kind, taskVars, picked>>
  BY DEF FinalizeProgressive, GotoMain, Raises
<1>2. rows = Concepts /\ (\A c \in Concepts : task[c] \notin Working) /\ status = "generating"
  BY <1>1, AllRows DEF Later
<1>3. CASE Publish(rows) /\ UNCHANGED images
  <2>1. dry \/ images' = Concepts
    BY <1>1, <1>2, <1>3 DEF BuildInv, Types, Counted
  <2>2. images' \subseteq Concepts /\ Publish(Concepts)
    BY <1>2, <1>3 DEF BuildInv, Types
  <2>. QED BY <1>1, <2>1, <2>2, PublicationKeepsInv
<1>4. CASE Raises /\ UNCHANGED commitLost
  <2>1. UNCHANGED <<stored, status, rows, decoys, images>> /\ main' = "fail"
    BY <1>4 DEF Raises, deckVars, GotoMain
  <2>2. picked' \in [Concepts -> SUBSET Concepts] /\ Decided'
    BY <1>1, <2>1 DEF BuildInv, Types, Decided
  <2>. QED BY <1>1, <1>2, <1>4, <2>1, <2>2, OnlyMain DEF Early, Later, Ending
<1>. QED BY <1>3, <1>4 DEF FinalizeProgressive

LEMMA PublishAllKeepsInv ==
    ASSUME BuildInv, PublishAll
    PROVE  BuildInv'
<1>1. /\ main = "publish" /\ main' \in {"ended", "fail"} /\ ~progressive
      /\ UNCHANGED <<kind, taskVars, picked>>
  BY DEF PublishAll, GotoMain
<1>2. (\A c \in Concepts : task[c] \notin Working) /\ status = "generating"
  BY <1>1, AllRows DEF Later
<1>3. CASE Publish(Concepts) /\ (dry \/ images' = Concepts \/ commitLost')
           /\ images' \in {images, Concepts}
  BY <1>1, <1>3, PublicationKeepsInv DEF BuildInv, Types
<1>4. CASE main' = "fail" /\ status' \in {status, "failed"}
           /\ UNCHANGED <<stored, rows, decoys, images, commitLost>>
  <2>1. picked' \in [Concepts -> SUBSET Concepts] /\ Decided'
    BY <1>1, <1>4 DEF BuildInv, Types, Decided
  <2>. QED BY <1>1, <1>2, <1>4, <2>1, OnlyMain DEF Early, Later, Ending
<1>. QED BY <1>3, <1>4 DEF PublishAll, GotoMain

LEMMA EndStepsKeepInv ==
    ASSUME BuildInv, MarkFailed \/ ServiceMarksFailed \/ ProcessDies
    PROVE  BuildInv'
<1>1. /\ main' \in {"ended", "service", "dead"}
      /\ main' # "dead" => main \in Ending
      /\ status' \in {status, "failed"} /\ (main' = "dead" => status' = status)
      /\ UNCHANGED <<kind, taskVars, picked, stored, rows, decoys, images, commitLost>>
  BY DEF MarkFailed, ServiceMarksFailed, ProcessDies, GotoMain, Ending, deckVars
<1>2. main \in Ending => \A c \in Concepts : task[c] \notin Working
  BY DEF BuildInv, Staged
<1>3. picked' \in [Concepts -> SUBSET Concepts] /\ Decided' /\ main' \notin Early \cup Later
  BY <1>1 DEF BuildInv, Types, Decided, Early, Later
<1>. QED BY <1>1, <1>2, <1>3, OnlyMain DEF Ending

LEMMA StutterKeepsInv ==
    ASSUME BuildInv, UNCHANGED buildVars
    PROVE  BuildInv'
BY DEF buildVars, kind, taskVars, deckVars, BuildInv, Types, Staged, Slots, Locked, Counted, Whole, Decided,
       ProgressMatchesRows, ReadyDeckPlayable, Failing, At

-----------------------------------------------------------------------------
LEMMA BuildStarts == BuildInit => BuildInv
<1>. SUFFICES ASSUME BuildInit PROVE BuildInv
  OBVIOUS
<1>1. stored.cards_ready = 0
  BY DEF BuildInit, Metrics
<1>2. At("image") = {} /\ At("built") = {} /\ At("closing") = {} /\ ~Failing
  BY DEF BuildInit, At, Failing
<1>3. Types
  BY <1>1, DeckGenerationAssumption DEF BuildInit, Types, Early, NoDecoys
<1>4. Staged /\ Slots /\ Locked
  BY <1>1, <1>2, ConceptsFinite, FS_EmptySet DEF BuildInit, Staged, Slots, Locked, Early, Later, Ending
<1>5. Counted /\ Whole /\ Decided
  BY <1>1, <1>2, FS_EmptySet DEF BuildInit, Counted, Whole, Decided
<1>6. ProgressMatchesRows /\ ReadyDeckPlayable
  BY <1>1, FS_EmptySet DEF BuildInit, ProgressMatchesRows, ReadyDeckPlayable, Final
<1>. QED BY <1>3, <1>4, <1>5, <1>6 DEF BuildInv

LEMMA BuildAlways == BuildSpec => []BuildInv
<1>1. BuildInv /\ [BuildNext]_buildVars => BuildInv'
  <2>. SUFFICES ASSUME BuildInv, [BuildNext]_buildVars PROVE BuildInv'
    OBVIOUS
  <2>1. CASE BuildStep
    BY <2>1, EarlyStepsKeepInv, LaunchKeepsInv, CancelTasksKeepsInv, TasksEndKeepInv,
       AnnounceDecoysKeepsInv, SelectDecoysKeepsInv, FinalizeProgressiveKeepsInv,
       PublishAllKeepsInv, EndStepsKeepInv
    DEF BuildStep
  <2>2. ASSUME NEW c \in Concepts, TaskStep(c) PROVE BuildInv'
    BY <2>2, TakeImageSlotKeepsInv, ImageAnswerKeepsInv, VerifyKeepsInv, TakeLockKeepsInv,
       PersistCardKeepsInv, PersistRaisesKeepsInv, PersistReturnsKeepsInv, CancelledKeepsInv
    DEF TaskStep
  <2>. QED BY <2>1, <2>2, EndStepsKeepInv, StutterKeepsInv DEF BuildNext
<1>. QED BY <1>1, BuildStarts, PTL DEF BuildSpec

\* The progress the operator sees never leads the cards that are stored, and
\* equals them until a card fails (pipeline.py, persist_card), whatever the
\* interleaving of the tasks, cancellations and lost answers.
THEOREM ProgressIsTrue == BuildSpec => []ProgressMatchesRows
<1>1. BuildInv => ProgressMatchesRows
  BY DEF BuildInv
<1>. QED BY <1>1, BuildAlways, PTL

\* When build_deck reports a failure or returns, no task of a card is still at
\* work and every slot and the lock are free again (pipeline.py, gather and the
\* cancellation after it).
THEOREM FailureLeavesNothing == BuildSpec => []NothingRunsAfterFailure
<1>1. BuildInv => NothingRunsAfterFailure
  <2>. SUFFICES ASSUME BuildInv, main \in Ending PROVE NothingRunsAfterFailure
    BY DEF NothingRunsAfterFailure, Ending
  <2>1. \A c \in Concepts : task[c] \notin Working
    BY DEF BuildInv, Staged
  <2>2. At("image") = {} /\ holder = NoCard
    BY <2>1 DEF BuildInv, Types, Locked, At, Working
  <2>3. slots = MaxImages
    <3>1. Cardinality(At("image")) = 0
      BY <2>2, FS_EmptySet
    <3>. QED BY <3>1 DEF BuildInv, Types, Slots
  <2>. QED BY <2>1, <2>2, <2>3 DEF NothingRunsAfterFailure
<1>. QED BY <1>1, BuildAlways, PTL

\* A deck that can be activated has every card, its file unless an operator
\* build lost the answer of its publication, and as many decoys of other
\* cards as the game deals (publisher.py, finalize_progressive and publish).
THEOREM ReadyDecksPlay == BuildSpec => []ReadyDeckPlayable
<1>1. BuildInv => ReadyDeckPlayable
  BY DEF BuildInv
<1>. QED BY <1>1, BuildAlways, PTL

================================================================================
