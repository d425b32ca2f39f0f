---------------------------- MODULE GeminiClient ----------------------------
(***************************************************************************)
(* The shared Gemini client (app/gemini_client.py) as the worker and the   *)
(* deck pipeline use it: the gate of one model (a semaphore, and a rolling *)
(* window of starts behind an asyncio lock), the retry loop, and the rows  *)
(* of api_calls.                                                           *)
(*                                                                         *)
(* A call is one generate_content, generate_json or generate_images.  Its  *)
(* semaphore slot is held while it waits for the window, during the        *)
(* request, the instrumentation and the backoff.  A caller may cancel it   *)
(* at any await (deckgen/pipeline.py cancels the other cards of a deck).   *)
(* The service is external: it may execute a request whose reply is lost.  *)
(* Prompts, schemas, media, log text and the length of a backoff have no   *)
(* state.                                                                  *)
(***************************************************************************)
EXTENDS Naturals, Sequences, FiniteSets

CONSTANTS
    Calls,
    MaxConcurrency,  \* gemini_flash_max_concurrency, nano_banana_max_concurrency
    Rpm,             \* gemini_flash_rpm, nano_banana_rpm
    Window,          \* the 60 seconds of the rolling window, in ticks
    MaxRetries,      \* gemini_max_retries
    MaxCancels,      \* bound on cancellations
    ForImages,       \* the gate is that of the image model
    Nobody

ASSUME GeminiAssumption ==
    /\ {MaxConcurrency, Rpm, Window} \subseteq Nat \ {0}
    /\ {MaxRetries, MaxCancels} \subseteq Nat
    /\ ForImages \in BOOLEAN
    /\ Nobody \notin Calls /\ IsFiniteSet(Calls)

VARIABLES
    permits,    \* the semaphore's value
    lock,       \* who sleeps holding the gate's lock, or Nobody
    timestamps, \* ages of the remembered starts, oldest first
    pc, attempt, nap,   \* of each call: place, attempt, ticks left to sleep
    reply,      \* what the last attempt came back with
    result,     \* what the caller got
    charged,    \* success rows of each call in api_calls, the ones with a cost
    executed, lost,     \* times the service ran the call; of these, reply lost
    starts,     \* ages of all the requests sent in the last Window ticks
    leaked, cancels     \* permits that no call holds; cancellations so far

gateVars == <<permits, lock, timestamps>>
billVars == <<charged, executed, lost>>
ghosts   == <<starts, leaked, cancels>>
vars     == <<gateVars, pc, attempt, nap, reply, result, billVars, ghosts>>

Pcs       == {"idle", "slot", "gate", "nap", "wire", "record", "backoff", "ended"}
Answered  == {"ok", "malformed"}              \* a reply the client counts as a success
Replies   == Answered \cup {"transient", "lost", "permanent", "none"}
HoldsSlot == {"gate", "nap", "wire", "record", "backoff"}

Goto(c, label) == pc' = [pc EXCEPT ![c] = label]

-----------------------------------------------------------------------------
(* _ModelGate *)

\* n is how many popleft remove: while the oldest is 60 seconds old.
Popped(ages, n) ==
    /\ \A i \in 1..n : ages[i] >= Window
    /\ n = Len(ages) \/ ages[n + 1] < Window

Unexpired(ages) ==
    LET n == CHOOSE k \in 0..Len(ages) : Popped(ages, k)
    IN  SubSeq(ages, n + 1, Len(ages))

KeepsOneSlot(c) ==             \* broken form: off by one, the last permit is never given out
    /\ pc[c] = "slot"
    /\ permits > 1
    /\ permits' = permits - 1
    /\ Goto(c, "gate")
    /\ UNCHANGED <<lock, timestamps, attempt, nap, reply, result, billVars, ghosts>>

TakeSlot(c) ==
    /\ pc[c] = "slot"
    /\ permits > 0
    /\ permits' = permits - 1
    /\ Goto(c, "gate")
    /\ UNCHANGED <<lock, timestamps, attempt, nap, reply, result, billVars, ghosts>>

\* The request leaves as soon as its start is remembered: no await in between.
Send(c) ==
    /\ timestamps' = Append(Unexpired(timestamps), 0)
    /\ starts' = Append(starts, 0)
    /\ Goto(c, "wire")

NapsUnlocked(c) ==             \* broken form: the lock is not held over the sleep
    /\ pc[c] = "gate" /\ lock = Nobody
    /\ LET live == Unexpired(timestamps) IN
        IF Len(live) < Rpm THEN Send(c) /\ UNCHANGED nap
        ELSE /\ timestamps' = live
             /\ nap' = [nap EXCEPT ![c] = Window - Head(live)]
             /\ Goto(c, "nap")
             /\ UNCHANGED starts
    /\ UNCHANGED <<permits, lock, attempt, reply, result, billVars, leaked, cancels>>

\* With the window full, sleep until its oldest start has left it, lock in hand.
EnterGate(c) ==
    /\ pc[c] = "gate" /\ lock = Nobody
    /\ LET live == Unexpired(timestamps) IN
        IF Len(live) < Rpm THEN Send(c) /\ UNCHANGED <<lock, nap>>
        ELSE /\ lock' = c
             /\ timestamps' = live
             /\ nap' = [nap EXCEPT ![c] = Window - Head(live)]
             /\ Goto(c, "nap")
             /\ UNCHANGED starts
    /\ UNCHANGED <<permits, attempt, reply, result, billVars, leaked, cancels>>

\* After the sleep the window is not looked at again: one start has left it.
WakeUp(c) ==
    /\ pc[c] = "nap" /\ nap[c] = 0
    /\ lock' = IF lock = c THEN Nobody ELSE lock
    /\ Send(c)
    /\ UNCHANGED <<permits, attempt, nap, reply, result, billVars, leaked, cancels>>

-----------------------------------------------------------------------------
(* _run_with_policy *)

Begin(c) ==
    /\ pc[c] = "idle"
    /\ attempt' = [attempt EXCEPT ![c] = 1]
    /\ Goto(c, "slot")
    /\ UNCHANGED <<gateVars, nap, reply, result, billVars, ghosts>>

\* A model that is not pinned, or options that make no configuration: ValueError
\* before the gate, and no row.
Refuse(c) ==
    /\ pc[c] = "idle"
    /\ result' = [result EXCEPT ![c] = "error"]
    /\ Goto(c, "ended")
    /\ UNCHANGED <<gateVars, attempt, nap, reply, billVars, ghosts>>

Unanswered == {"transient", "lost", "permanent"}

\* generate_json rejects an answer that is no JSON object, after it was recorded.
TextReplies == Unanswered \cup {"ok", "malformed"}

\* generate_images takes any answer, one without an image too; "permanent" also
\* stands for options that its transport refuses itself.
ImageReplies == Unanswered \cup {"ok"}

\* is_transient_error sorts what the transport raised.
Answer(c) ==
    /\ pc[c] = "wire"
    /\ \E r \in (IF ForImages THEN ImageReplies ELSE TextReplies) :
        /\ reply' = [reply EXCEPT ![c] = r]
        /\ executed' = [executed EXCEPT ![c] = IF r \in Answered \cup {"lost"} THEN @ + 1 ELSE @]
        /\ lost' = [lost EXCEPT ![c] = IF r = "lost" THEN @ + 1 ELSE @]
    /\ Goto(c, "record")
    /\ UNCHANGED <<gateVars, attempt, nap, result, charged, ghosts>>

\* extract_token_usage_counts: an answer may come without its token counts.
UsageReported == IF ForImages THEN {TRUE} ELSE BOOLEAN

\* Whether the row of reply r has a cost: images are counted, and tokens priced, for
\* an answer; the row of an error, or of an answer without its counts, has none.
Costs(r) == IF r \in Answered THEN UsageReported ELSE {FALSE}

\* PostgresApiCallRecorder: one INSERT; charged counts the rows with a cost.
InsertRow(c, cost) ==
    charged' = [charged EXCEPT ![c] = IF cost THEN @ + 1 ELSE @]

\* _safe_record: one row for the attempt, or none if the recorder raises.
RecordRow(c) ==
    \/ UNCHANGED charged
    \/ \E cost \in Costs(reply[c]) : InsertRow(c, cost)

RetriesAnswered(c) ==          \* broken form of Retryable: a lost row counts as a failure
    attempt[c] <= MaxRetries /\ (reply[c] \in {"transient", "lost"} \/ charged[c] = 0)

Retryable(c) == reply[c] \in {"transient", "lost"} /\ attempt[c] <= MaxRetries

\* The last row of a call; its slot is free when the caller goes on.
Finish(c) ==
    /\ pc[c] = "record" /\ ~Retryable(c)
    /\ RecordRow(c)
    /\ result' = [result EXCEPT ![c] = IF reply[c] = "ok" THEN "ok" ELSE "error"]
    /\ permits' = permits + 1
    /\ Goto(c, "ended")
    /\ UNCHANGED <<lock, timestamps, attempt, nap, reply, executed, lost, ghosts>>

BackOff(c) ==
    /\ pc[c] = "record" /\ Retryable(c)
    /\ RecordRow(c)
    /\ Goto(c, "backoff")
    /\ UNCHANGED <<gateVars, attempt, nap, reply, result, executed, lost, ghosts>>

Retry(c) ==
    /\ pc[c] = "backoff"
    /\ permits' = permits + 1
    /\ attempt' = [attempt EXCEPT ![c] = @ + 1]
    /\ reply' = [reply EXCEPT ![c] = "none"]
    /\ Goto(c, "slot")
    /\ UNCHANGED <<lock, timestamps, nap, result, billVars, ghosts>>

\* CancelledError at an await.  acquire gives the slot back for an Exception only,
\* which a cancellation is not; the finally of the loop covers the later places.
Cancel(c) ==
    /\ cancels < MaxCancels
    /\ pc[c] \notin {"idle", "ended"}
    /\ cancels' = cancels + 1
    /\ lock' = IF lock = c THEN Nobody ELSE lock
    /\ IF pc[c] \in {"gate", "nap"}
       THEN leaked' = leaked + 1 /\ UNCHANGED permits
       ELSE permits' = (IF pc[c] = "slot" THEN permits ELSE permits + 1) /\ UNCHANGED leaked
    /\ IF pc[c] = "record" THEN RecordRow(c) ELSE UNCHANGED charged
    /\ result' = [result EXCEPT ![c] = "cancelled"]
    /\ Goto(c, "ended")
    /\ UNCHANGED <<timestamps, attempt, nap, reply, executed, lost, starts>>

Tick ==
    /\ timestamps' = [i \in DOMAIN timestamps |->
                        IF timestamps[i] < Window THEN timestamps[i] + 1 ELSE Window]
    /\ starts' = Unexpired([i \in DOMAIN starts |-> starts[i] + 1])
    /\ nap' = [c \in Calls |-> IF nap[c] > 0 THEN nap[c] - 1 ELSE 0]
    /\ UNCHANGED <<permits, lock, pc, attempt, reply, result, billVars, leaked, cancels>>

-----------------------------------------------------------------------------
Init ==
    /\ permits = MaxConcurrency /\ lock = Nobody /\ timestamps = <<>>
    /\ pc = [c \in Calls |-> "idle"]
    /\ attempt = [c \in Calls |-> 0]
    /\ nap = [c \in Calls |-> 0]
    /\ reply = [c \in Calls |-> "none"]
    /\ result = [c \in Calls |-> "none"]
    /\ charged = [c \in Calls |-> 0]
    /\ executed = [c \in Calls |-> 0] /\ lost = [c \in Calls |-> 0]
    /\ starts = <<>> /\ leaked = 0 /\ cancels = 0

Progress(c) ==
    \/ TakeSlot(c) \/ EnterGate(c) \/ WakeUp(c)
    \/ Answer(c) \/ Finish(c) \/ BackOff(c) \/ Retry(c)

Next ==
    \/ Tick
    \/ \E c \in Calls : Begin(c) \/ Refuse(c) \/ Progress(c) \/ Cancel(c)

Spec == Init /\ [][Next]_vars

\* Time passes, and the event loop runs some call whenever one can run: the service
\* answers or the connection breaks, sleepers and waiters are woken.
FairSpec == Spec /\ WF_vars(Tick) /\ WF_vars(\E c \in Calls : Progress(c))

-----------------------------------------------------------------------------
\* At most Rpm requests leave in any window of 60 seconds, retries included,
\* though acquire looks at the window once and not again after its sleep.
RpmRespected == Len(starts) <= Rpm

Holders == {c \in Calls : pc[c] \in HoldsSlot}

\* The semaphore counts the calls between acquire and release, in backoff too;
\* a permit is lost only to a cancellation inside acquire.
PermitsAccounted == permits + Cardinality(Holders) + leaked = MaxConcurrency

\* The service runs a call again only when its reply was lost, whatever becomes
\* of the rows; api_calls charges a call at most once, and only if it was run.
ChargedOnce ==
    \A c \in Calls : /\ executed[c] <= lost[c] + 1
                     /\ charged[c] <= executed[c] - lost[c]

\* Every call that began returns or raises, and nothing is left running, unless
\* cancellations inside acquire have used up the permits.
CallsSettle ==
    [](leaked < MaxConcurrency) => <>[](\A c \in Calls : pc[c] \in {"idle", "ended"})

=============================================================================
