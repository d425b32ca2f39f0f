--------------------------- MODULE DeckLifecycle ---------------------------
(***************************************************************************)
(* A picture deck from its generation to its activation: the background    *)
(* tasks of the admin API (app/deck_admin), the pipeline and publisher of  *)
(* deckgen, the deckgen command line, and the activation by an operator.   *)
(*                                                                         *)
(* A builder runs build_deck for one deck.  A task of the API generates an *)
(* operator deck (one publish at the end) or a prompted deck (progressive: *)
(* one card at a time, then finalize).  The command line always publishes  *)
(* atomically, into a row of its own or into the row named by --deck-id.   *)
(*                                                                         *)
(* publish moves its staging directory in place before it commits; what    *)
(* its transaction and that of an activation have written but not          *)
(* committed is implied by pc, rowLock and demoted.  persist_card and      *)
(* finalize_progressive lock the deck row first and are one action each.   *)
(* A card row, and its image, is the pair of its builder and concept.      *)
(* Prompts, labels, metrics and staging directories have no state.         *)
(***************************************************************************)
EXTENDS Naturals, FiniteSets

CONSTANTS
    Decks,
    Concepts,       \* what a deck has one card for each of
    Tasks,          \* background tasks of the API
    Clis,           \* runs of python -m deckgen
    Admins,         \* activation requests in flight at one time
    Prompted,       \* decks generated from a prompt when a task generates them
    CliFinal,       \* --final-status of the command line
    None            \* no deck, no concept, no lock holder

Builders == Tasks \cup Clis
Agents   == Builders \cup Admins

ASSUME ConstantsAssumption ==
    /\ CliFinal \in {"ready", "live"}
    /\ Prompted \subseteq Decks
    /\ Tasks \cap Clis = {} /\ Builders \cap Admins = {}
    /\ None \notin Decks \cup Concepts \cup Agents

VARIABLES
    status,     \* decks.status, "absent" without a row
    cards,      \* card rows of each deck
    decoyed,    \* those whose decoys are set
    hasDir,     \* data/decks/<deck_id> exists
    images,     \* image files in it
    rowLock,    \* transaction that holds the deck row
    activating, \* transaction that holds the activation advisory lock
    pc, deck,   \* per builder or activation: place and deck
    arg,        \* concept whose card a builder is persisting
    built,      \* concepts whose card a builder has persisted
    demoted,    \* live decks an activation has set back to ready
    exposed,    \* history: card rows persisted while another builder's cleanup was due
    unanswered  \* history: builders whose publish committed without an answer

dbVars    == <<status, cards, decoyed>>
fileVars  == <<hasDir, images>>
lockVars  == <<rowLock, activating>>
history   == <<exposed, unanswered>>
vars      == <<status, cards, decoyed, hasDir, images, rowLock, activating,
               pc, deck, arg, built, demoted, exposed, unanswered>>

Statuses   == {"absent", "generating", "ready", "live", "failed"}
InPublish  == {"inserting", "moved"}
FailurePcs == {"undo", "undo_moved", "failing", "reporting"}
BuilderPcs == {"idle", "building", "persisting", "staged", "done"} \cup InPublish \cup FailurePcs
HoldsTarget == {"selected", "demoted"}
AdminPcs   == {"idle", "activating"} \cup HoldsTarget

Card == Builders \X Concepts

-----------------------------------------------------------------------------
Progressive(b) == b \in Tasks /\ deck[b] \in Prompted

\* The command line without --deck-id: the row is inserted by publish itself.
Fresh(b) == status[deck[b]] = "absent"

Own(b) == {b} \X Concepts

RowFree(d) == rowLock[d] = None

Goto(x, label) == pc' = [pc EXCEPT ![x] = label]

SetStatus(d, s) == status' = [status EXCEPT ![d] = s]

\* A rollback or commit of x.
ReleaseLocks(x) ==
    /\ rowLock' = [d \in Decks |-> IF rowLock[d] = x THEN None ELSE rowLock[d]]
    /\ activating' = IF activating = x THEN None ELSE activating

\* An exception before publish has a connection: build_deck marks a deck it was given.
Raise(b) == Goto(b, IF Fresh(b) THEN "done" ELSE "failing")

Unused(d) == status[d] = "absent" /\ \A x \in Agents : deck[x] # d

-----------------------------------------------------------------------------
(* Generation *)

\* POST /api/admin/decks and /from-prompt: create_generating, then the task.
StartGeneration(b, d) ==
    /\ pc[b] = "idle" /\ Unused(d)
    /\ SetStatus(d, "generating")
    /\ deck' = [deck EXCEPT ![b] = d]
    /\ Goto(b, "building")
    /\ UNCHANGED <<cards, decoyed, fileVars, lockVars, arg, built, demoted, history>>

\* python -m deckgen, for a new deck or with --deck-id.
RunDeckgen(b, d) ==
    /\ pc[b] = "idle"
    /\ status[d] # "absent" \/ Unused(d)
    /\ deck' = [deck EXCEPT ![b] = d]
    /\ Goto(b, "building")
    /\ UNCHANGED <<dbVars, fileVars, lockVars, arg, built, demoted, history>>

\* A GenAI call, a progress update, or a write of a card's image fails.
BuildFails(b) ==
    /\ pc[b] \in {"building", "persisting"}
    /\ Raise(b)
    /\ arg' = [arg EXCEPT ![b] = None]
    /\ UNCHANGED <<dbVars, fileVars, lockVars, deck, built, demoted, history>>

\* persist_card makes the deck directory before its transaction.
MakeDir(b, c) ==
    /\ pc[b] = "building" /\ Progressive(b) /\ c \notin built[b]
    /\ hasDir' = [hasDir EXCEPT ![deck[b]] = TRUE]
    /\ arg' = [arg EXCEPT ![b] = c]
    /\ Goto(b, "persisting")
    /\ UNCHANGED <<dbVars, images, lockVars, deck, built, demoted, history>>

HasCardFor(d, c) == \E card \in cards[d] : card[2] = c

\* A publish of d has failed after the move of its images, and has yet to remove them.
CleanupDue(d) == \E x \in Builders : pc[x] = "undo_moved" /\ deck[x] = d

PersistCard(b) ==
    LET d == deck[b]
        new == IF HasCardFor(d, arg[b]) THEN {} ELSE {<<b, arg[b]>>}
    IN  /\ pc[b] = "persisting" /\ RowFree(d)
        /\ status[d] = "generating" /\ hasDir[d]
        /\ images' = [images EXCEPT ![d] = @ \cup new]
        /\ cards' = [cards EXCEPT ![d] = @ \cup new]
        /\ built' = [built EXCEPT ![b] = @ \cup {arg[b]}]
        /\ arg' = [arg EXCEPT ![b] = None]
        /\ exposed' = IF CleanupDue(d) THEN exposed \cup new ELSE exposed
        /\ Goto(b, "building")
        /\ UNCHANGED <<status, decoyed, hasDir, lockVars, deck, demoted, unanswered>>

\* The image is written, the transaction is rolled back.
PersistRollsBack(b) ==
    LET d == deck[b] IN
    /\ pc[b] = "persisting" /\ RowFree(d)
    /\ status[d] = "generating" /\ hasDir[d] /\ ~HasCardFor(d, arg[b])
    /\ images' = [images EXCEPT ![d] = @ \cup {<<b, arg[b]>>}]
    /\ arg' = [arg EXCEPT ![b] = None]
    /\ Raise(b)
    /\ UNCHANGED <<dbVars, hasDir, lockVars, deck, built, demoted, history>>

\* gather returns only if the card of every concept was persisted.
AllBuilt(b) == built[b] = Concepts

FinalizeDeck(b) ==
    LET d == deck[b] IN
    /\ pc[b] = "building" /\ Progressive(b) /\ AllBuilt(b)
    /\ RowFree(d) /\ status[d] = "generating"
    /\ decoyed' = [decoyed EXCEPT ![d] = cards[d] \cap Own(b)]
    /\ SetStatus(d, "ready")
    /\ Goto(b, "done")
    /\ UNCHANGED <<cards, fileVars, lockVars, deck, arg, built, demoted, history>>

-----------------------------------------------------------------------------
(* Atomic publication *)

StageImages(b) ==
    /\ pc[b] = "building" /\ ~Progressive(b)
    /\ IF hasDir[deck[b]] THEN Raise(b) ELSE Goto(b, "staged")
    /\ UNCHANGED <<dbVars, fileVars, lockVars, deck, arg, built, demoted, history>>

\* Only a row that is still generating may be published into.
Publishable(b) == Fresh(b) \/ status[deck[b]] = "generating"

\* SELECT ... FOR UPDATE or the INSERT of the row, and the INSERTs of its cards.
LockDeck(b) ==
    LET d == deck[b] IN
    /\ pc[b] = "staged" /\ RowFree(d)
    /\ \/ /\ Publishable(b)
          /\ rowLock' = [rowLock EXCEPT ![d] = b]
          /\ Goto(b, "inserting")
       \/ /\ ~Publishable(b)
          /\ Goto(b, "undo")
          /\ UNCHANGED rowLock
    /\ UNCHANGED <<dbVars, fileVars, activating, deck, arg, built, demoted, history>>

\* staging_dir.replace(deck_dir) takes the place of an empty directory only.
MoveImages(b) ==
    LET d == deck[b] IN
    /\ pc[b] = "inserting" /\ images[d] = {}
    /\ hasDir' = [hasDir EXCEPT ![d] = TRUE]
    /\ images' = [images EXCEPT ![d] = Own(b)]
    /\ Goto(b, "moved")
    /\ UNCHANGED <<dbVars, lockVars, deck, arg, built, demoted, history>>

FinalStatus(b) == IF b \in Clis THEN CliFinal ELSE "ready"

\* What the COMMIT of publish makes of the deck.
Published(b) ==
    LET d == deck[b] IN
    /\ pc[b] = "moved"
    /\ SetStatus(d, FinalStatus(b))
    /\ cards' = [cards EXCEPT ![d] = @ \cup Own(b)]
    /\ decoyed' = [decoyed EXCEPT ![d] = @ \cup Own(b)]
    /\ ReleaseLocks(b)
    /\ UNCHANGED <<fileVars, deck, arg, built, demoted, exposed>>

CommitPublish(b) ==
    /\ Published(b)
    /\ Goto(b, "done")
    /\ UNCHANGED unanswered

\* The COMMIT is done and the connection is lost before the publisher hears of it.
CommitUnanswered(b) ==
    /\ Published(b)
    /\ Goto(b, "undo_moved")
    /\ unanswered' = unanswered \cup {b}

\* A failing write, connection or statement; the transaction is rolled back.
PublishRaises(b) ==
    /\ \/ pc[b] = "staged" /\ Raise(b)
       \/ pc[b] = "inserting" /\ Goto(b, "undo")
       \/ pc[b] = "moved" /\ Goto(b, "undo_moved")
    /\ ReleaseLocks(b)
    /\ UNCHANGED <<dbVars, fileVars, deck, arg, built, demoted, history>>

\* Broken form: whatever is in the way is removed.
AnyDir(b) == TRUE

\* final_dir_created
CreatedDir(b) == pc[b] = "undo_moved"

UndoPublish(b) ==
    LET d == deck[b] IN
    /\ pc[b] \in {"undo", "undo_moved"}
    /\ \/ /\ CreatedDir(b)
          /\ hasDir' = [hasDir EXCEPT ![d] = FALSE]
          /\ images' = [images EXCEPT ![d] = {}]
       \/ ~CreatedDir(b) /\ UNCHANGED fileVars
    /\ Goto(b, "failing")
    /\ UNCHANGED <<dbVars, lockVars, deck, arg, built, demoted, history>>

-----------------------------------------------------------------------------
(* Failure *)

\* The publisher's mark_failed, or the failed row publish inserts for a fresh deck.
MarkFailed(b) ==
    LET d == deck[b] IN
    /\ pc[b] = "failing" /\ RowFree(d)
    /\ SetStatus(d, IF Fresh(b) \/ status[d] = "generating" THEN "failed" ELSE status[d])
    /\ Goto(b, IF b \in Tasks THEN "reporting" ELSE "done")
    /\ UNCHANGED <<cards, decoyed, fileVars, lockVars, deck, arg, built, demoted, history>>

\* The failure could not be recorded, with the connection lost say; it is logged.
MarkingFails(b) ==
    /\ pc[b] = "failing"
    /\ Goto(b, IF b \in Tasks THEN "reporting" ELSE "done")
    /\ UNCHANGED <<dbVars, fileVars, lockVars, deck, arg, built, demoted, history>>

\* Broken form: no deck is left alone.
KeptByNobody(s) == FALSE

\* What the service's mark_failed leaves alone.
KeptByService(s) == s = "live"

\* run_generation and run_prompt_generation, when the gateway raises.
ServiceMarksFailed(b) ==
    LET d == deck[b] IN
    /\ pc[b] = "reporting" /\ RowFree(d)
    /\ SetStatus(d, IF KeptByService(status[d]) THEN status[d] ELSE "failed")
    /\ Goto(b, "done")
    /\ UNCHANGED <<cards, decoyed, fileVars, lockVars, deck, arg, built, demoted, history>>

\* A restart of the API, or the end of a deckgen process.
BuilderDies(b) ==
    /\ pc[b] \notin {"idle", "done"}
    /\ Goto(b, "done")
    /\ arg' = [arg EXCEPT ![b] = None]
    /\ ReleaseLocks(b)
    /\ UNCHANGED <<dbVars, fileVars, deck, built, demoted, history>>

-----------------------------------------------------------------------------
(* Activation *)

\* Broken form: activations are not serialised.
LockNotAsked == TRUE

\* pg_advisory_xact_lock
LockFree == activating = None

Activate(a, d) ==
    /\ pc[a] = "idle" /\ LockFree
    /\ activating' = a
    /\ deck' = [deck EXCEPT ![a] = d]
    /\ Goto(a, "activating")
    /\ UNCHANGED <<dbVars, fileVars, rowLock, arg, built, demoted, history>>

EndActivation(a) ==
    /\ Goto(a, "idle")
    /\ deck' = [deck EXCEPT ![a] = None]
    /\ demoted' = [demoted EXCEPT ![a] = {}]
    /\ ReleaseLocks(a)
    /\ UNCHANGED <<fileVars, cards, decoyed, arg, built, history>>

\* SELECT ... FOR UPDATE of the target
SelectTarget(a) ==
    LET d == deck[a] IN
    /\ pc[a] = "activating" /\ RowFree(d) /\ status[d] \in {"ready", "live"}
    /\ rowLock' = [rowLock EXCEPT ![d] = a]
    /\ Goto(a, "selected")
    /\ UNCHANGED <<dbVars, fileVars, activating, deck, arg, built, demoted, history>>

\* 404 without a row, 409 for a deck that is neither ready nor live.
RefuseTarget(a) ==
    LET d == deck[a] IN
    /\ pc[a] = "activating" /\ RowFree(d) /\ status[d] \notin {"ready", "live"}
    /\ EndActivation(a) /\ UNCHANGED status

LiveDecks == {d \in Decks : status[d] = "live"}

DemoteOthers(a) ==
    LET others == LiveDecks \ {deck[a]} IN
    /\ pc[a] = "selected" /\ \A d \in others : RowFree(d)
    /\ demoted' = [demoted EXCEPT ![a] = others]
    /\ rowLock' = [d \in Decks |-> IF d \in others THEN a ELSE rowLock[d]]
    /\ Goto(a, "demoted")
    /\ UNCHANGED <<dbVars, fileVars, activating, deck, arg, built, history>>

\* The promotion of the target and the commit.
PromoteDeck(a) ==
    /\ pc[a] = "demoted"
    /\ status' = [d \in Decks |-> IF d = deck[a] THEN "live"
                                  ELSE IF d \in demoted[a] THEN "ready" ELSE status[d]]
    /\ EndActivation(a)

\* The connection or the process is lost; the transaction is rolled back.
ActivationLost(a) ==
    /\ pc[a] # "idle"
    /\ EndActivation(a) /\ UNCHANGED status

-----------------------------------------------------------------------------
Init ==
    /\ status = [d \in Decks |-> "absent"]
    /\ cards = [d \in Decks |-> {}]
    /\ decoyed = [d \in Decks |-> {}]
    /\ hasDir = [d \in Decks |-> FALSE]
    /\ images = [d \in Decks |-> {}]
    /\ rowLock = [d \in Decks |-> None]
    /\ activating = None
    /\ pc = [x \in Agents |-> "idle"]
    /\ deck = [x \in Agents |-> None]
    /\ arg = [b \in Builders |-> None]
    /\ built = [b \in Builders |-> {}]
    /\ demoted = [a \in Admins |-> {}]
    /\ exposed = {}
    /\ unanswered = {}

BuilderStep(b) ==
    \/ BuildFails(b)
    \/ \E c \in Concepts : MakeDir(b, c)
    \/ PersistCard(b) \/ PersistRollsBack(b) \/ FinalizeDeck(b)
    \/ StageImages(b) \/ LockDeck(b) \/ MoveImages(b)
    \/ CommitPublish(b) \/ CommitUnanswered(b) \/ PublishRaises(b) \/ UndoPublish(b)
    \/ MarkFailed(b) \/ MarkingFails(b) \/ ServiceMarksFailed(b)
    \/ BuilderDies(b)

AdminStep(a) ==
    \/ \E d \in Decks : Activate(a, d)
    \/ SelectTarget(a) \/ RefuseTarget(a) \/ DemoteOthers(a) \/ PromoteDeck(a)
    \/ ActivationLost(a)

Next ==
    \/ \E b \in Tasks, d \in Decks : StartGeneration(b, d)
    \/ \E b \in Clis, d \in Decks : RunDeckgen(b, d)
    \/ \E b \in Builders : BuilderStep(b)
    \/ \E a \in Admins : AdminStep(a)

Spec == Init /\ [][Next]_vars

-----------------------------------------------------------------------------
(* Properties *)

\* Types, and what an agent at each place holds.
TypeOK ==
    /\ status \in [Decks -> Statuses]
    /\ cards \in [Decks -> SUBSET Card]
    /\ decoyed \in [Decks -> SUBSET Card]
    /\ hasDir \in [Decks -> BOOLEAN]
    /\ images \in [Decks -> SUBSET Card]
    /\ rowLock \in [Decks -> Builders \cup Admins \cup {None}]
    /\ activating \in Admins \cup {None}
    /\ pc \in [Agents -> BuilderPcs \cup AdminPcs]
    /\ \A b \in Builders : pc[b] \in BuilderPcs
    /\ \A a \in Admins : pc[a] \in AdminPcs
    /\ deck \in [Agents -> Decks \cup {None}]
    /\ \A x \in Agents : pc[x] # "idle" => deck[x] \in Decks
    /\ arg \in [Builders -> Concepts \cup {None}]
    /\ \A b \in Builders : arg[b] \in Concepts <=> pc[b] = "persisting"
    /\ built \in [Builders -> SUBSET Concepts]
    /\ demoted \in [Admins -> SUBSET Decks]
    /\ exposed \subseteq Card
    /\ unanswered \subseteq Builders

\* Transactions of publish hold their deck's row; an activation holds its target and
\* what it has demoted.
Holds(x, d) ==
    \/ x \in Builders /\ pc[x] \in InPublish /\ deck[x] = d
    \/ x \in Admins /\ pc[x] \in HoldsTarget /\ deck[x] = d
    \/ x \in Admins /\ pc[x] = "demoted" /\ d \in demoted[x]

\* The row locks and the advisory lock are held by the transactions that rely on them.
LocksOK ==
    /\ \A x \in Agents, d \in Decks : rowLock[d] = x <=> Holds(x, d)
    /\ \A a \in Admins : activating = a <=> pc[a] # "idle"

\* The target of an activation under way may go live; what it has demoted is live until
\* it commits and, unless the command line publishes live decks, is all that is.
ActivationOK ==
    \A a \in Admins :
        /\ pc[a] \in HoldsTarget => status[deck[a]] \in {"ready", "live"}
        /\ pc[a] = "demoted" => /\ demoted[a] \subseteq LiveDecks \ {deck[a]}
                                /\ CliFinal = "ready" => LiveDecks \subseteq demoted[a] \cup {deck[a]}

\* A publish under way has its row to itself, in the status it read.
PublishOK ==
    \A b \in Builders : pc[b] \in InPublish => status[deck[b]] \in {"absent", "generating"}

\* "Atomically make a ready deck the sole live deck": overlapping activations, with
\* builders and failures around them, never leave two live decks.
AtMostOneLive == \A d, e \in LiveDecks : d = e

\* The lock discipline of activate and publish, inductive.
DeckInv == TypeOK /\ LocksOK /\ ActivationOK /\ PublishOK

\* A failed deck stays failed, no deck goes back to generating, a live deck is only
\* set back to ready: neither an activation that read ready before mark_failed, nor a
\* late mark_failed, nor a second publish gets past the row lock.
Moves ==
    {"absent"} \X {"generating", "ready", CliFinal, "failed"}
        \cup {"generating"} \X {"ready", CliFinal, "failed"}
        \cup {"ready"} \X {"live", "failed"}
        \cup {<<"live", "ready">>}

StatusOrder ==
    [][\A d \in Decks : status'[d] # status[d] => <<status[d], status'[d]>> \in Moves]_vars

\* Once a deck is live the game always has one: activation takes a live deck away only
\* in the commit that puts another in its place, and a failing task takes none away.
SomeDeckStaysLive == [][LiveDecks # {} => LiveDecks' # {}]_vars

\* A deck that can be played has one card for every concept, each with decoys of the
\* same deck, whichever of several builders won; except a deck with an exposed card,
\* into which another builder may still publish once the images are gone.
ReadyDeckComplete ==
    \A d \in Decks : status[d] \in {"ready", "live"} /\ cards[d] \cap exposed = {} =>
        /\ \A c \in Concepts : \E card \in cards[d] :
               card[2] = c /\ \A other \in cards[d] : other[2] = c => other = card
        /\ decoyed[d] = cards[d]

\* A committed card row has its image file, also when another builder of the same
\* deck cleans up after its failed publish.  Two kinds of rows may lose it: one that
\* was persisted between the failure of another builder's publish and the removal of
\* the directory both use, and those of a publish that has taken a COMMIT without an
\* answer for a failure.
CardsHaveImages ==
    \A d \in Decks : \A card \in cards[d] \ exposed :
        card \in images[d] \/ card[1] \in unanswered

\* A deck that can be played is complete and every committed card shows its image,
\* whoever else built, failed and cleaned up (publish.py:498-640).
DecksPlayable == ReadyDeckComplete /\ CardsHaveImages

=============================================================================
