--------------------------- MODULE DeckGeneration ---------------------------
(***************************************************************************)
(* One build of a picture deck (deckgen/pipeline.py) from its concepts to  *)
(* a ready deck: the invention of the concepts, the labels, one task per   *)
(* card behind a semaphore for the image calls and a lock for the rows,    *)
(* the decoys, the publication, and what a failure anywhere leaves behind. *)
(*                                                                         *)
(* Two kinds of build are run: "prompt" decks keep every card as soon as   *)
(* it is verified, "operator" decks are published whole.  Either may be a  *)
(* dry run, with the fake client and the publisher in memory.  The deck's  *)
(* competitors for the live state are in DeckLifecycle, the retries of one *)
(* call in GeminiClient.  Prompts, labels, image bytes and prices have no  *)
(* state of their own; a card is its concept.                              *)
(***************************************************************************)
EXTENDS Naturals, Sequences, FiniteSets, SequencesExt, Functions

CONSTANTS
    Concepts,
    Stranger,       \* a concept the model may name that is not in the deck
    MaxImages,      \* IMAGE_GENERATION_CONCURRENCY
    MaxImageRetries,     \* PROMPT_MAX_IMAGE_RETRIES, MAX_IMAGE_RETRIES
    MaxInventions,  \* 1 + MAX_CONCEPT_GEN_RETRIES
    NDecoys,        \* N_DECOYS
    NoCard

ASSUME DeckGenerationAssumption ==
    /\ IsFiniteSet(Concepts) /\ NDecoys \in Nat /\ NDecoys < Cardinality(Concepts)
    /\ {MaxImages, MaxInventions} \subseteq Nat \ {0}
    /\ MaxImageRetries \in Nat
    /\ Stranger \notin Concepts /\ NoCard \notin Concepts

VARIABLES
    progressive, dry,       \* the kind of build
    main,                   \* where build_deck is
    task, tries, doomed,    \* of each card's task: place, image attempts, cancel() called
    slots, holder,          \* image_semaphore, persist_lock
    persisted,              \* persisted_count
    inventions,             \* invent_concepts calls made
    metrics,                \* DeckMetrics: images_attempted, flash_calls
    picked,                 \* what select_decoys_batch returned
    status, stored,         \* the deck's row: status, generation_metrics
    rows, decoys, images,   \* its cards, their decoys, the files under DATA_DIR
    refused,                \* times mark_failed raised
    commitLost              \* a publication committed, and its answer was lost

kind      == <<progressive, dry>>
taskVars  == <<task, tries, doomed, slots, holder, persisted>>
deckVars  == <<status, stored, rows, decoys, images>>
buildVars == <<kind, main, taskVars, inventions, metrics, picked, deckVars, refused, commitLost>>

Stages  == {"inventing_concepts", "generating_images", "finalizing_decoys", "ready"}
Final   == {"ready", "live"}
Working == {"slot", "image", "verify", "lock", "persist", "closing"}
Over    == {"built", "failed", "cancelled"}
NoDecoys == [c \in Concepts |-> {}]

-----------------------------------------------------------------------------
(* Progress fields and metrics *)

Metrics(m, stage, n) == [images |-> m.images, flash |-> m.flash, stage |-> stage, cards_ready |-> n]

FlashCall(n) == metrics' = [metrics EXCEPT !.flash = @ + n]

GotoMain(label) == main' = label

\* The fake client answers every operation; the shared one may also raise, and an
\* array it cannot make out of the answer raises too: then no call is counted.
ModelMayFail == ~dry
JsonRaises == ModelMayFail /\ UNCHANGED metrics

\* A step of the build itself, between the tasks.
Alone == UNCHANGED <<kind, taskVars, picked, refused, commitLost>>

\* update_generation_state: nothing but a generating deck is updated.
UpdateState(stage, n) ==
    /\ stored' = IF status = "generating" THEN Metrics(metrics, stage, n) ELSE stored
    /\ UNCHANGED <<status, rows, decoys, images>>

\* Either a database call of the build goes through, or it raises; a fake never does.
Raises == ~dry /\ GotoMain("fail") /\ UNCHANGED deckVars

-----------------------------------------------------------------------------
(* build_deck_from_prompt, and the beginning of build_deck *)

StartPrompt ==
    /\ main = "start" /\ progressive
    /\ \/ UpdateState("inventing_concepts", 0) /\ GotoMain("invent")
       \/ Raises
    /\ UNCHANGED <<inventions, metrics>> /\ Alone

StartOperator ==
    /\ main = "start" /\ ~progressive
    /\ GotoMain("translate")
    /\ UNCHANGED <<deckVars, inventions, metrics>> /\ Alone

\* What the model may invent (the fake invents what it is asked for), and what makes it
\* usable: the right number of concepts, each a valid operator row, under different ids.
Payloads == [object : BOOLEAN, count : {Cardinality(Concepts) - 1, Cardinality(Concepts)},
             distinct : BOOLEAN, valid : BOOLEAN]
FakePayload == [object |-> TRUE, count |-> Cardinality(Concepts), distinct |-> TRUE, valid |-> TRUE]
OperatorRows(payload) == payload.object /\ payload.count = Cardinality(Concepts) /\ payload.distinct
ConceptsFromOperator(payload) == payload.valid /\ payload.distinct

\* invent_concepts_from_prompt: an unusable payload is asked for again; an error of
\* the client is not.
Invent ==
    /\ main = "invent"
    /\ inventions' = inventions + 1
    /\ \/ /\ \E payload \in IF dry THEN {FakePayload} ELSE Payloads :
            LET usable == OperatorRows(payload) /\ ConceptsFromOperator(payload) IN
            GotoMain(CASE usable -> "images"
                       [] ~usable /\ inventions' < MaxInventions -> "invent"
                       [] OTHER -> "fail")
          /\ FlashCall(1)
       \/ JsonRaises /\ GotoMain("fail")
    /\ UNCHANGED deckVars /\ Alone

AnnounceImages ==
    /\ main = "images"
    /\ \/ UpdateState("generating_images", 0) /\ GotoMain("translate")
       \/ Raises
    /\ UNCHANGED <<inventions, metrics>> /\ Alone

\* translate_labels_batch: a concept without a translation keeps its English label;
\* not a list, or a row that names no known concept and has no English: raises.
Translate ==
    /\ main = "translate"
    /\ \/ FlashCall(1) /\ GotoMain("launch")
       \/ ModelMayFail /\ FlashCall(1) /\ GotoMain("fail")
       \/ JsonRaises /\ GotoMain("fail")
    /\ UNCHANGED <<deckVars, inventions>> /\ Alone

Launch ==
    /\ main = "launch"
    /\ task' = [c \in Concepts |-> "slot"]
    /\ tries' = [c \in Concepts |-> 1]
    /\ GotoMain("cards")
    /\ UNCHANGED <<kind, doomed, slots, holder, persisted, inventions, metrics, picked,
                   deckVars, refused, commitLost>>

-----------------------------------------------------------------------------
(* generate_verified_image and _build_one: the task of one card *)

GotoTask(c, label) == task' = [task EXCEPT ![c] = label]

\* A step of a task: after cancel() it gets CancelledError instead.
Runs(c, label) == task[c] = label /\ ~doomed[c] /\ main # "dead"

Elsewhere == UNCHANGED <<kind, main, doomed, inventions, picked, status, decoys, refused, commitLost>>

TakeImageSlot(c) ==
    /\ Runs(c, "slot") /\ slots > 0
    /\ slots' = slots - 1
    /\ GotoTask(c, "image")
    /\ UNCHANGED <<tries, holder, persisted, metrics, stored, rows, images>> /\ Elsewhere

ImageAnswer(c) ==
    /\ Runs(c, "image")
    /\ slots' = slots + 1
    /\ \/ GotoTask(c, "verify") /\ metrics' = [metrics EXCEPT !.images = @ + 1]
       \/ ModelMayFail /\ GotoTask(c, "failed") /\ UNCHANGED metrics
    /\ UNCHANGED <<tries, holder, persisted, stored, rows, images>> /\ Elsewhere

Verdicts == [verdict : {"pass", "fail"}, depicts_label : BOOLEAN, has_text : BOOLEAN, cultural_ok : BOOLEAN]

Accepted(v) == v.verdict = "pass" /\ v.depicts_label /\ ~v.has_text /\ v.cultural_ok

\* An accepted image goes to persist_card, or waits for the others to be published.
AcceptTo == IF progressive THEN "lock" ELSE "built"

Verify(c) ==
    /\ Runs(c, "verify")
    /\ \/ \E v \in Verdicts :
            /\ FlashCall(1)
            /\ IF Accepted(v) THEN GotoTask(c, AcceptTo) /\ UNCHANGED tries
               ELSE IF tries[c] <= MaxImageRetries
                    THEN GotoTask(c, "slot") /\ tries' = [tries EXCEPT ![c] = @ + 1]
                    ELSE GotoTask(c, "failed") /\ UNCHANGED tries
       \/ ModelMayFail /\ FlashCall(1) /\ GotoTask(c, "failed") /\ UNCHANGED tries  \* not a dict
       \/ JsonRaises /\ GotoTask(c, "failed") /\ UNCHANGED tries
    /\ UNCHANGED <<slots, holder, persisted, stored, rows, images>> /\ Elsewhere

TakeLockUnlocked(c) ==         \* broken form: no persist_lock
    /\ Runs(c, "lock")
    /\ GotoTask(c, "persist")
    /\ UNCHANGED <<tries, slots, holder, persisted, metrics, stored, rows, images>> /\ Elsewhere

TakeLock(c) ==
    /\ Runs(c, "lock") /\ holder = NoCard
    /\ holder' = c
    /\ GotoTask(c, "persist")
    /\ UNCHANGED <<tries, slots, persisted, metrics, stored, rows, images>> /\ Elsewhere

\* The transaction of persist_card.  The file is written before the row; a row of
\* this concept would be left as it is; the publisher in memory looks at no status.
CommitCard(c) ==
    /\ dry \/ status = "generating"
    /\ rows' = rows \cup {c}
    /\ images' = IF dry \/ c \in rows THEN images ELSE images \cup {c}
    /\ stored' = Metrics(metrics, "generating_images", persisted + 1)

PersistCard(c) ==
    /\ Runs(c, "persist")
    /\ CommitCard(c)
    /\ GotoTask(c, "closing")
    /\ UNCHANGED <<tries, slots, holder, persisted, metrics>> /\ Elsewhere

PersistRaises(c) ==
    /\ Runs(c, "persist") /\ ~dry
    /\ \/ CommitCard(c)                            \* committed, the answer was lost
       \/ UNCHANGED <<rows, stored>> /\ images' \in {images, images \cup {c}}
    /\ holder' = NoCard
    /\ GotoTask(c, "failed")
    /\ UNCHANGED <<tries, slots, persisted, metrics>> /\ Elsewhere

\* The connection is closed, the count goes up and the lock is released.
PersistReturns(c) ==
    /\ Runs(c, "closing")
    /\ persisted' = persisted + 1
    /\ holder' = IF holder = c THEN NoCard ELSE holder
    /\ GotoTask(c, "built")
    /\ UNCHANGED <<tries, slots, metrics, stored, rows, images>> /\ Elsewhere

\* CancelledError at the await the task is in; a commit under way may still happen.
Cancelled(c) ==
    /\ doomed[c] /\ task[c] \in Working /\ main # "dead"
    /\ GotoTask(c, "cancelled")
    /\ slots' = IF task[c] = "image" THEN slots + 1 ELSE slots
    /\ holder' = IF holder = c THEN NoCard ELSE holder
    /\ \/ UNCHANGED <<rows, images, stored>>
       \/ task[c] = "persist" /\ CommitCard(c)
       \/ task[c] = "persist" /\ ~dry /\ images' = images \cup {c} /\ UNCHANGED <<rows, stored>>
    /\ UNCHANGED <<tries, persisted, metrics>> /\ Elsewhere

TaskStep(c) ==
    \/ TakeImageSlot(c) \/ ImageAnswer(c) \/ Verify(c)
    \/ TakeLock(c) \/ PersistCard(c) \/ PersistRaises(c) \/ PersistReturns(c)
    \/ Cancelled(c)

-----------------------------------------------------------------------------
(* The end of build_deck *)

\* With the publisher in memory a task is never suspended inside persist_card.
BuildRuns(label) == main = label /\ (dry => \A c \in Concepts : task[c] \notin {"persist", "closing"})

AbandonTasks ==                \* broken form: cancel() without waiting for the tasks
    /\ BuildRuns("cards")
    /\ \E c \in Concepts : task[c] = "failed"
    /\ doomed' = [c \in Concepts |-> task[c] \in Working]
    /\ GotoMain("fail")
    /\ UNCHANGED <<kind, task, tries, slots, holder, persisted, inventions, metrics, picked,
                   deckVars, refused, commitLost>>

\* gather raises the first failure; the other tasks are cancelled ...
CancelTasks ==
    /\ BuildRuns("cards")
    /\ \E c \in Concepts : task[c] = "failed"
    /\ doomed' = [c \in Concepts |-> task[c] \in Working]
    /\ GotoMain("join")
    /\ UNCHANGED <<kind, task, tries, slots, holder, persisted, inventions, metrics, picked,
                   deckVars, refused, commitLost>>

\* ... and waited for.
TasksJoined ==
    /\ main = "join" /\ \A c \in Concepts : task[c] \in Over
    /\ GotoMain("fail")
    /\ UNCHANGED <<deckVars, inventions, metrics>> /\ Alone

AllBuilt ==
    /\ BuildRuns("cards") /\ \A c \in Concepts : task[c] = "built"
    /\ GotoMain(IF progressive THEN "announce" ELSE "decoys")
    /\ UNCHANGED <<deckVars, inventions, metrics>> /\ Alone

AnnounceDecoys ==
    /\ main = "announce"
    /\ \/ UpdateState("finalizing_decoys", Cardinality(Concepts)) /\ GotoMain("decoys")
       \/ Raises
    /\ UNCHANGED <<inventions, metrics>> /\ Alone

\* One row of select_decoys_batch: the ids it lists.  Rows of unknown cards raise too.
DecoyRows == UNION {[1..n -> Concepts \cup {Stranger}] : n \in {NDecoys - 1, NDecoys} \cap Nat}

RowAcceptedUnchecked(c, row) ==     \* broken form: a card may be its own decoy
    /\ Len(row) = NDecoys
    /\ ToSet(row) \subseteq Concepts
    /\ IsInjective(row)

RowAccepted(c, row) ==
    /\ Len(row) = NDecoys
    /\ ToSet(row) \subseteq Concepts \ {c}
    /\ IsInjective(row)

\* The fake takes the first others of the pool.
FakeDecoys(c) == SubSeq(SelectSeq(SetToSeq(Concepts), LAMBDA d : d # c), 1, NDecoys)

\* All cards need a row, and every row must be accepted.
SelectDecoys ==
    /\ main = "decoys"
    /\ \/ /\ \E answer \in IF dry THEN {[c \in Concepts |-> FakeDecoys(c)]} ELSE [Concepts -> DecoyRows] :
            /\ \A c \in Concepts : RowAccepted(c, answer[c])
            /\ picked' = [c \in Concepts |-> ToSet(answer[c])]
          /\ FlashCall(1) /\ GotoMain("publish")
       \/ ModelMayFail /\ FlashCall(1) /\ GotoMain("fail") /\ UNCHANGED picked
       \/ JsonRaises /\ GotoMain("fail") /\ UNCHANGED picked
    /\ UNCHANGED <<kind, taskVars, inventions, deckVars, refused, commitLost>>

\* What both publications write in their transaction: deck, cards and decoys.
FinalStatus == IF progressive \/ ~dry THEN "ready" ELSE "live"

Publish(cards) ==
    /\ status' = FinalStatus
    /\ rows' = cards
    /\ decoys' = [c \in Concepts |-> IF c \in cards THEN picked[c] ELSE {}]
    /\ stored' = Metrics(metrics, "ready", Cardinality(Concepts))

\* finalize_progressive gives its decoys to the cards that are there.
FinalizeProgressive ==
    /\ main = "publish" /\ progressive
    /\ \/ /\ dry \/ status = "generating"
          /\ Publish(rows)
          /\ UNCHANGED images
          /\ \/ GotoMain("ended") /\ UNCHANGED commitLost
             \/ ~dry /\ GotoMain("fail") /\ commitLost' = TRUE
       \/ Raises /\ UNCHANGED commitLost
    /\ UNCHANGED <<kind, taskVars, inventions, metrics, picked, refused>>

\* publish stages the images, and takes them away again when it raises, and
\* tries to mark the deck failed itself.
PublishAll ==
    /\ main = "publish" /\ ~progressive
    /\ \/ /\ dry \/ status = "generating"
          /\ Publish(Concepts)
          /\ \/ /\ GotoMain("ended")
                /\ images' = IF dry THEN images ELSE Concepts
                /\ UNCHANGED commitLost
             \/ ~dry /\ GotoMain("fail") /\ commitLost' = TRUE /\ UNCHANGED images
       \/ /\ ~dry /\ GotoMain("fail")
          /\ status' \in {status, "failed"}
          /\ UNCHANGED <<stored, rows, decoys, images, commitLost>>
    /\ UNCHANGED <<kind, taskVars, inventions, metrics, picked, refused>>

\* The except clauses of build_deck and build_deck_from_prompt: only a generating
\* deck fails; if that raises too it is only logged.  A dry operator build has no deck.
MarkFailed ==
    /\ main = "fail"
    /\ \/ /\ status' = IF status = "generating" /\ (progressive \/ ~dry) THEN "failed" ELSE status
          /\ UNCHANGED refused
       \/ ~dry /\ refused' = refused + 1 /\ UNCHANGED status
    /\ GotoMain(IF dry THEN "ended" ELSE "service")
    /\ UNCHANGED <<kind, taskVars, inventions, metrics, picked, stored, rows, decoys, images, commitLost>>

ServiceOnlyLogs ==             \* broken form: the service leaves the mark to the pipeline
    /\ main = "service"
    /\ GotoMain("ended")
    /\ UNCHANGED <<kind, taskVars, inventions, metrics, picked, deckVars, refused, commitLost>>

\* run_prompt_generation and run_generation: whatever is not live fails.
ServiceMarksFailed ==
    /\ main = "service"
    /\ \/ status' = "failed" /\ UNCHANGED refused
       \/ refused' = refused + 1 /\ UNCHANGED status
    /\ GotoMain("ended")
    /\ UNCHANGED <<kind, taskVars, inventions, metrics, picked, stored, rows, decoys, images, commitLost>>

\* The build is a background task of the API process.
ProcessDies ==
    /\ main \notin {"ended", "dead"} /\ ~dry
    /\ GotoMain("dead")
    /\ UNCHANGED <<kind, taskVars, inventions, metrics, picked, deckVars, refused, commitLost>>

-----------------------------------------------------------------------------
BuildInit ==
    /\ progressive \in BOOLEAN /\ dry \in BOOLEAN
    /\ main = "start"
    /\ task = [c \in Concepts |-> "idle"]
    /\ tries = [c \in Concepts |-> 0]
    /\ doomed = [c \in Concepts |-> FALSE]
    /\ slots = MaxImages /\ holder = NoCard /\ persisted = 0 /\ inventions = 0
    /\ metrics = [images |-> 0, flash |-> 0]
    /\ picked = NoDecoys
    /\ status = "generating"
    /\ stored = Metrics(metrics, "inventing_concepts", 0)
    /\ rows = {} /\ decoys = NoDecoys /\ images = {}
    /\ refused = 0 /\ commitLost = FALSE

BuildStep ==
    \/ StartPrompt \/ StartOperator \/ Invent \/ AnnounceImages \/ Translate \/ Launch
    \/ CancelTasks \/ TasksJoined \/ AllBuilt \/ AnnounceDecoys \/ SelectDecoys
    \/ FinalizeProgressive \/ PublishAll \/ MarkFailed \/ ServiceMarksFailed

BuildNext ==
    \/ BuildStep
    \/ \E c \in Concepts : TaskStep(c)
    \/ ProcessDies

BuildSpec == BuildInit /\ [][BuildNext]_buildVars

\* The event loop runs whatever can run; the service and the database answer.
BuildFairSpec == BuildSpec /\ WF_buildVars(BuildStep \/ \E c \in Concepts : TaskStep(c))

-----------------------------------------------------------------------------

\* The progress the operator sees counts exactly the cards that are stored, at every
\* commit and after a crash or a cancellation; after a failed card it may lag, never lead.
ProgressMatchesRows ==
    /\ stored.cards_ready <= Cardinality(rows)
    /\ (\A c \in Concepts : task[c] # "failed") => stored.cards_ready = Cardinality(rows)

\* Once build_deck handles a failure, none of its cards still calls the models, holds
\* a slot or writes a row.
NothingRunsAfterFailure ==
    main \in {"fail", "service", "ended"} =>
        /\ \A c \in Concepts : task[c] \notin Working
        /\ slots = MaxImages /\ holder = NoCard

\* A deck that can be activated has every card, its file, and as many decoys as the
\* game deals, all other cards of the deck.  Only an operator build whose committed
\* publication went unanswered has thrown its files away.
ReadyDeckPlayable ==
    status \in Final =>
        /\ rows = Concepts
        /\ \A c \in rows : decoys[c] \subseteq rows \ {c} /\ Cardinality(decoys[c]) = NDecoys
        /\ dry \/ images = Concepts \/ (commitLost /\ ~progressive)

\* Unless the process dies, every build ends, and its deck is ready or failed unless
\* the database refused to mark it twice.
BuildSettles ==
    <>[](/\ main \in {"ended", "dead"}
         /\ (main = "ended" /\ status = "generating") => refused = 2 \/ (dry /\ ~progressive))

=============================================================================
