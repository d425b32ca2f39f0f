# Verification of the dialect data factory

The repository runs a two-player game that collects speech. Players are matched
into pairs, one describes a picture, the other guesses it, and every recording
goes through a cleaning gauntlet into an append-only training corpus. Around the
game there are generated picture decks, a fine-tuning demo that an operator
starts from a console, browsers that poll, and backups. This directory models
those parts in TLA+, checks them with TLC, and proves the safety of the core
with TLAPS.

## Inventory

| Component | State | Operations | What is hard | What makes it correct |
|---|---|---|---|---|
| Matchmaking (`app/game/service.py` `request_pair`, `app/game/pg_store.py` `enqueue_player`, `try_match`) | `matchmaking_queue`, `pairs`, row locks | join the queue, evict, claim, commit | several processes, READ COMMITTED, SKIP LOCKED, deadlocks, stale checks | no row claimed twice, nobody dropped, every request answered |
| Turns (`upload_audio`, `confirm_label`, `guess`, `_after_scored`) | `turns`, `pairs.status`, `data/audio`, `jobs`, counters | the handlers, each several statements | overlapping and repeated requests, handlers lost between statements, two enqueuers of one job | one open turn, statuses in order, no lost job, the pair moves on |
| State composer (`app/game/state.py`) | none | phase and version for one player | what a reader sees of a turn that moves on | in `PlayerClient` |
| Gauntlet worker (`worker/service.py`, `worker/repository.py`) | `jobs`, `turns.quality`, fingerprints, `records`, advisory lock | claim, triage, package, export, fail, recover | late and dead workers, retries, stale context | one line per eligible turn, duplicates kept out, jobs settle |
| Corpus writer (`worker/corpus.py`) | shard files | find, append, rotate | torn writes | whole lines, full shards, links that hold |
| Gemini client (`app/gemini_client.py`) | semaphore, window of starts, `api_calls` | call with retries | slots held across naps and back-off, cancellation, lost replies | the limits hold, a call is charged once, every call ends |
| Deck generation (`deckgen`) | `decks`, `cards`, images, stored progress | invent, draw, verify, persist, publish, fail | a task per card, cancellation, commits without an answer | exact progress, a quiet failure, a ready deck is playable |
| Deck administration (`app/deck_admin`) | deck status, activation lock | create, generate, fail, activate | tasks against the command line, concurrent activation | one live deck, always one |
| Tune queue (`app/tune_admin`, `scripts/tune_demo_supervisor.py`) | lock, request, job and status files, run directories | enqueue, claim, recover, run, publish | two processes and a directory, crashes between two files | one active job, no job run twice, final means final |
| Fine-tuning harness (`tune/`) | corpus shards, split files, manifests, adapter | prepare, train, compare, publish | no lock between readers and writers | the adapter is what its manifest says, comparisons use unseen samples |
| Operator console (`frontend/web/src/admin`) | tabs, shown deck, tracked job, audio, microphone | poll, generate, activate, start, listen, record | replies in any order, unmounted panels, lost key | what is shown settles, the microphone is released |
| Player's browser (`frontend/web/src`) | token, screen, poll, pair-request loop, recorder, locked buttons | join, ask, talk, guess | lost replies, late prompts, callbacks of a screen that is gone | it keeps asking, buttons come back, discarded takes stay unsent |
| Operations (`scripts/ops`) | backup directories, rehearsal targets | back up, rehearse | a live system under the copy, scripts killed half way | a pass means usable and whole; no false alarm |
| Players, leaderboard and metrics, fingerprints, in-memory store | rows, aggregates | insert, read | little | not modelled, see below |

The API handlers and the workers meet only in Postgres and in the data
directory. A turn's `triage` job is inserted when its audio is accepted; the
`package` job by the game after scoring or by the worker after triage, whichever
comes second. Workers and deck builds call the models through the Gemini client.
The API and the GPU supervisor share one directory. The supervisor runs `tune/`,
which reads the corpus the workers write. The browsers know the rest only by
polling. Backups read the database and the data directory of the running system.

## Modules

| Module | Models | Proofs |
|---|---|---|
| `TurnGame` | the turns of one pair: one action per statement or transaction of the handlers, and the worker's `persist_triage` | `TurnGame_proofs` |
| `Matchmaking` | `request_pair` and the `try_match` transaction, statement by statement, with row locks | `Matchmaking_proofs` |
| `Corpus` | shards as sequences of lines: find, rotate, append, torn writes (operators) | |
| `Gauntlet` | workers, jobs, triage, packaging and export, over `Corpus` | `Gauntlet_proofs` |
| `GoldenCorpus` | the abstract specification: what the gauntlet promises of records and lines | |
| `GeminiClient` | the gate, the retry loop and the call rows | `Generation_proofs` |
| `DeckGeneration` | one build of a deck, from its concepts to a ready or failed deck | `Generation_proofs` |
| `DeckLifecycle` | several builders of a deck, publisher's files and transactions, `mark_failed`, activation | `DeckLifecycle_proofs` |
| `TuneQueue` | the file queue: API processes and supervisor, file by file | `Tune_proofs` |
| `TuneArtifacts` | prepare, train, compare and publish over the files they share | `Tune_proofs` |
| `AdminShell`, `DeckPanel`, `TunePanel`, `Console` | the operator console: what its tabs share, the two tabs, and their composition | `Frontend_proofs` |
| `StateView`, `PlayerClient` | what the server shows to one player (bundle, phase, version, a queue row that lapses), and that player's browser over it | `Frontend_proofs` |
| `Backup` | backup and restore rehearsal of a system that goes on writing | `Backup_proofs` |
| `MC...` | values of the constants for TLC | |

How state and actions correspond to the code:

- **Request handlers.** In `TurnGame` and `Matchmaking` handler `r` is a program
  counter `pc[r]` with what it has read (`who`, `arg`, `turn`; `now`, `evicted`,
  `partner`). Handlers interleave between any two actions, as coroutines do at an
  await and processes at any time. A handler may be lost between two statements;
  a transaction is then rolled back. One UPDATE, or one transaction that locks
  its row first (`apply_guess`, `persist_triage`), is one action. `try_match` is
  not: its statements are actions of their own, its uncommitted writes are implied
  by `pc`, `lock` and `evicted`, and an upsert or DELETE waits for a locked row.
  `DeadlockVictim` is Postgres aborting a transaction in a wait cycle.
- **Workers.** In `Gauntlet` a worker is a program counter with its claimed job.
  `Alike` and `SameHash` are the pairs of turns of one speaker whose recordings
  match; a verdict of the model is a free choice (`clean`).
- **Calls.** In `GeminiClient` a call is a program counter through
  `_run_with_policy`; `permits` is the semaphore and `starts` the ages of the
  starts in the window. `executed`, `lost` and `charged` are histories.
- **Builds.** In `DeckGeneration` `main` is `build_deck` and `task[c]` the task of
  one card; `slots` is the image semaphore and `holder` the lock of the rows. In
  `DeckLifecycle` a builder runs `build_deck` for one deck as a task of the API or
  from the command line, which may name any deck with `--deck-id`; `publish` is
  four actions (looks for the directory, locks the row, moves the images,
  commits), `activate` four statements under the advisory lock. A build that
  competes with nobody is followed in the first, the competition in the second.
- **Files.** In `TuneQueue` every file operation is an action; a file's mtime is
  its age, which saturates at the threshold the code compares it with. In
  `TuneArtifacts` the corpus is its first `n` records, so a file derived from it is
  known by that `n`, and equal hashes are equal contents. A file that is being
  rewritten is `Torn`. Weights are known by the splits they learnt; a training begins
  from the base model in an empty output directory or from any checkpoint in it, and
  a comparison validates the adapter in one step and loads it in a later one. In `Backup` each command of the script is an action;
  `dir[b]` is what backup `b` holds, `live` the running system.
- **Browsers.** A GET is answered when it is sent and delivered later, in any
  order; a POST is executed by a step of its own, and its reply may be lost. An
  effect is the condition under which React runs it. A panel or screen that
  unmounts loses its state, and its callbacks still run. A session of the console
  follows one `plan` and one of the player's browser one `session`, which bounds
  what the user does and never what the page does with the answers.

Each module also holds a few deliberately broken forms of a definition, next to
it and described in its comment (`RowUnguarded`, `TrainSkipsHashes`, ...). No
action uses them; substituting one for the definition it accompanies makes TLC
find the property it endangers violated, which `PROJECT.json` records under
"mutants".

## Runs

| Run | Instance | Shows |
|---|---|---|
| `turn_game` | 2 fair handlers that may be lost at any await, cap 3, 2 attempts, a prior round, the deck may be empty | `OneOpenTurn`, `PackageNotLost`, `TurnLifecycle`, `RoundAdvances` |
| `match_races` | 2 fair handlers that may be lost, 3 players, TTL of one tick, two ticks | `ClaimsHold`, `WaiterNotDropped`, `RequestsAnswered` |
| `gauntlet_overlap` | 2 workers that may die or outlive their claim, 2 matching turns, the jobs of one claimed twice, shards of one line | `OneOriginal`, `LinesMatchRecords`, `KeepsPromise` |
| `gauntlet_settles` | 2 fair workers, 1 turn, failing steps, torn writes | `EligibleRecordLinked`, `JobsSettle` |
| `deck_generation` | 1 build of 3 cards (prompt, operator or dry), 2 image slots, 1 retry, any failure, cancellation or death | `ProgressMatchesRows`, `NothingRunsAfterFailure`, `ReadyDeckPlayable`, `BuildSettles` |
| `deck_lifecycle` | 2 decks of 2 cards, 2 tasks, 2 command line runs, 2 activations; all may fail or be lost | `AtMostOneLive`, `DecksPlayable`, `SomeDeckStaysLive` |
| `gemini_calls` | 3 calls, 2 slots, 1 start per window of 2 ticks, 1 retry, 1 cancellation | `RpmRespected`, `ChargedOnce`, `CallsSettle` |
| `tune_queue` | 2 API processes, a supervisor, 2 jobs of different kinds, each side dies once | `OneActiveJob`, `NoJobRunsTwice`, `FinalStatusStays`, `JobsSettle` |
| `tune_artifacts` | a corpus of 2 records that grows to 3, in 2 languages, half held out; 2 preparations, 2 trainings | `AdapterIsWhatItSays`, `ComparedUnseen`, `LeakSettles` |
| `console` | 2 decks, 2 jobs, 2 samples, 2 overlapping chains of requests of a kind, 1 lost reply | `ReviewSettles`, `JobBadgeSettles`, `NoMicLeftOpen` |
| `player_client` | 1 browser, 2 turns, 3 options, 2 attempts, 2 POSTs in flight, 2 sign-ins, 1 lost request, 2 prompts | `RightAnswerOpen`, `DiscardedNotSent`, `WaiterKeepsAsking`, `ButtonsComeBack`, `MicCloses` |
| `backup` | 1 recording, 2 backups, 2 rehearsals, 1 backup damaged later | `RestoredRowsHaveFiles`, `PassMeansWhole`, `NoFalseAlarm` |

`KeepsPromise` is the refinement: under `exported <- {t \in Turns : InCorpus(t)}`
every behaviour of `Gauntlet` is one of `GoldenCorpus`, which knows only scored
turns, records, eligibility, exported lines and links. The comment of each
property says what it excepts; the section on known limits says why.

### Bounds

Two actors race in every pair of places, and what a third would add is a row,
file or lock state that two also produce one after the other; the theorems cover
any number of them for most modules. Further:

- `turn_game`: two attempts and a cap of three rounds, with a prior round of one
  player, reach every branch of `apply_guess` and `complete_pair_if_capped`;
  `MaxTurns` is one above the cap, so that it never stops a handler.
- `match_races`: three players are needed for two claimers of one row; with two
  ticks and a TTL of one, rows are fresh, exactly at the TTL, and stale. `MaxPairs`
  and `MaxClock` bound arrivals and time.
- `gauntlet_*`: `MaxClaims` says how often a job may be claimed: twice is one
  crash, failure or recovery. Shards of one or two lines rotate at once.
- `deck_generation`: three cards against two slots make one wait; one retry
  (`MaxImageRetries`) makes a card fail or recover; `MaxInventions` bounds the corrections of concepts.
- `deck_lifecycle`: two decks for two activations to disagree, two cards for a
  partial deck, three builders on one deck. Every builder may fail, also between
  the move of the images and its commit. `CliFinal` is ready: with live, the default
  of the command line, `AtMostOneLive` fails (see known limits).
- `gemini_calls`: three calls for two slots, a window that two of them overlap;
  `MaxCancels` is how many callers are cancelled. `ForImages` is FALSE: a text call
  can do what an image call can, and fail in one more way.
- `tune_queue`: time limits are ticks (`LockStale`, `HeartbeatStale`, `UploadTTL`
  0, `ProcessingStale` 1): what matters is that a claim goes stale only after the
  heartbeat. One job of each kind, the one with an upload
  and the one without. `MaxApiCrashes` and `MaxSupervisorCrashes` are 1.
- `tune_artifacts`: growth by one record changes which records are held out;
  two preparations and two trainings put an old file next to a new one.
- `console`: `Chains`, `Polls` and `Fetches` are requests of one kind in flight;
  two can answer in the wrong order. `MaxFailures`, `MaxLost` and `MaxStreams`
  bound builds that fail, lost replies and prompts. There is one POST at a time.
- `player_client`: `Requests` are the POSTs of the screens in flight, `MaxFailed`
  bounds those that fail before or after the server executed them, `MaxJoins` the
  players one browser creates, `MaxPrompts` the permission prompts open at once.
- `backup`: the properties speak of one recording at a time, and the theorems
  cover any number; two backups and two rehearsals let a used target and a failed
  predecessor matter.

Symmetry permutes handlers, workers, builders or backups of one kind, and only in
runs without liveness. Deadlock is checked in `console` and `tune_artifacts`. The
other models really stop: a completed pair, a settled job, a finished build, or
bounds that are used up.

### Fairness

| Specification | Fair | Because |
|---|---|---|
| `TurnGame` | weak: every handler's next step | a statement returns and asyncio resumes the handler |
| `Matchmaking` | strong: every handler's next step | a statement that waits for a row lock is enabled only while it is free; Postgres queues the waiters |
| `Gauntlet` | strong: a worker's step and the claim of each job; weak: recovery, the API's look | the advisory lock is queued, `claim_next_job` takes the oldest due job |
| `GeminiClient` | weak: time, some call that can go on | the event loop runs what can run; the SDK answers or fails |
| `DeckGeneration` | weak: some step of the build that can be taken | likewise |
| `TuneQueue` | weak: time, the supervisor, an admitted POST | a service manager keeps the supervisor running; the GPU process itself is not assumed to end, a timeout kills it |
| `TuneArtifacts` | weak: publication | the supervisor publishes at every turn of its loop |
| `Console` | weak: delivery and execution of requests; strong: the timers that poll | timers fire; strong because all `Chains` may be in use for a while |
| `PlayerClient` | weak: polling, the loop, delivery, the recorder's limit and its stop event | likewise |

Nothing is assumed of players, operators, builds, GPU jobs, crashes or failures.
`DeckLifecycle` and `Backup` have safety properties only.

## What is proved

Every invariant, action property and refinement of the runs is also a theorem. It
holds for every value of the constants that satisfies the named assumption of
the module, with the faults of the model included, apart from the hypotheses named
below. `PROJECT.json` lists the theorems under "theorems".

**`TurnGame_proofs`.** `OneOpenTurn` alone is not inductive: nothing in it keeps
two handlers from standing before `CreateTurn`. What keeps them out is a token
(`AdvancerOwnsPair`): a handler is let into `_after_scored` by moving the one open
turn to scored under its row lock, and while it is there its turn is the newest,
all turns are scored, and no other turn can be opened or scored.
`OpenTurnIsNewest` and `RoomForNextTurn` complete `TurnInv`. `AtMostOneOpenTurn`,
`SpeakersAlternate`, `PairCompletesBetweenRounds`, `TurnsNeverExceedCap` follow;
`PackageEnqueuedOnce`, `TurnsAdvanceInOrder` and `AttemptsAgreeWithOutcome` add
what each needs. Lost handlers and an empty deck are included.

**`Matchmaking_proofs`.** `QueueInv` is the lock discipline: from its first write
to its end a transaction holds the row of its player, each row it evicted (which
was stale for it) and the row it claimed; a row is held by one transaction, and
only by one that is that far. What a transaction ends with therefore touches
nothing another relies on. `ClaimsAreHeld` follows; `WaitersNotDropped`, about
steps, also needs that pairs are numbered as they are inserted.

**`DeckLifecycle_proofs`.** A row lock is held by `x` exactly when `x` is a publish
past its SELECT of that deck or an activation past its SELECT or UPDATE of it, and
the advisory lock likewise (`DeckInv`). Hence a publish keeps the status it read,
an activation's target stays ready or live, and what it has demoted is all else
that is live. `ActivationKeepsOneLive` holds if `CliFinal` is ready;
`StatusAdvances` and `LiveDeckRemains` hold with either value. For
`PlayableDecks`, `PlayInv` adds whose the cards are: a deck has one task at most
(`OneTask`); until it is published its cards are those its own task persisted, and
afterwards those of the one builder that published it (`Growing`, `Complete`); one
builder at a time has moved a directory in place (`OneMover`), from the move to the
commit or the cleanup its images are there, and what cards the deck has meanwhile
are exposed or its own (`Moved`); and a publish that went unanswered has taken
effect (`Unheard`). No builder, deck or failure is excluded. What the
property itself excepts are the rows the code does lose: one persisted while another
builder's cleanup of the directory is due (`exposed`), and those of a publish whose
COMMIT succeeded and went unanswered (`unanswered`).

**`Generation_proofs`**, the Gemini client. `BillInv` gives the bill of a call at
each place of the retry loop: while it may still be sent, every run of it was lost
and nothing is charged. `CallsChargedOnce` follows. `SemaphoreSound` (permits,
holders and leaked permits add up) is by the cardinality of the holders, one step at
a time. For `RateLimited`, `WindowInv` says that the gate remembers exactly the
starts of the last `Window` ticks, in order, and that a sleeper has the lock and
wakes no earlier than the oldest start of a full window leaves it (`Sleeping`):
without the lock, two sleepers would wake to one free place. How many ages a tick
drops is a least number, taken from the well-foundedness of the naturals.

**`Generation_proofs`**, one build. `BuildInv` relates the tasks to the place of
`build_deck` (`Staged`), the slots to the tasks that draw (`Slots`), the lock to
the one task that writes (`Locked`), and the counter to the built cards and their
rows (`Counted` for progressive builds, `Whole` for those that write once). No
card's write is ahead of the counter by more than the one that holds the lock,
hence `ProgressIsTrue`; after the tasks were cancelled and awaited none works,
hence `FailureLeavesNothing`; the decoys a publication writes were chosen from the
other cards, hence `ReadyDecksPlay`. Any number of cards, slots, retries and
corrections; cancellation, death and a COMMIT without an answer are included.

**`Tune_proofs`**, the queue. `QueueInv` says who holds the lock file (`Mutex`), that
the supervisor rewrites only the status of a job that is active already (`Backed`),
that identifiers are fresh (`Ids`) and that a started command left its run
directory, which a second claim cannot make again (`Runs`). `OneJobIsActive` and
`CommandStartsOnce` follow, the first while no handler took over a stale lock.
`FinalStays` needs more: an identifier whose request is not written has neither a
run nor an outcome (`Fresh`), and as long as the supervisor lives, the claim in its
hand is the only one of that job and none is claimed twice (`Tidy`). Without
`Tidy` a recovered claim of a finished job could be failed once more, which is what
happens after a crash.

**`Tune_proofs`**, the files. The two files a manifest names were split from one
corpus (`Prepared`), and what was split later was split from a longer corpus
(`Ordered`), so rows read earlier lie between those the manifest names and those
in the file (`Reading`): once the hashes agree they are the hashed rows, unless a
preparation finished in between (`mixed`). Weights, in memory, in a checkpoint or
sealed, learnt their split and no other, unless a training went on from a checkpoint
of another one (`carried`), and in any case none that was split later (`Trained`).
An adapter is known by the run that saved it (`Numbered`), so the one a comparison
loads is the one it validated, or it is `replaced` (`Compared`).
`AdapterLearntItsSplit` and `ComparedSamplesUnseen` follow for any corpus, languages,
holdout fraction and number of preparations, trainings and resumptions.

**`Gauntlet_proofs`.** `GauntletInv` holds with torn writes: an exporting worker
serves a recorded, eligible turn (`WorkersOK`); its line goes to one shard only,
and to one place in it (`FilesOK`); a turn that was once fit for export makes every
matching recording a duplicate for good (`FitOK`), so a context read long ago does
no harm. `OneOriginalKept` and `NoLineTwice` (no turn twice in the corpus, no two
matching recordings both in it) follow, even when an export is retried on a file
that ends in half a line. `WholeInv` (every line ends with a newline, what is
linked or about to be is there) is for `~TornWrites`; so are
`CorpusMatchesRecords` and the refinement `WorkersKeepPromise`: the initial state
maps to an initial state and every action to a step of `GoldenCorpus` or a stutter.

**`Backup_proofs`.** At every moment the live rows have their files, and the dump
is taken before the files are copied, so a finished backup has the files of its
dump (`Origin`). A backup that is damaged later has fewer files than its manifest
says, or files that its index does not name (`SourceIntact`, by cardinality); a
rehearsal therefore loads the original or refuses. `PassedRestoreIsUsable` and
`PassedRestoreIsWhole` follow. The other direction, `RefusalsAreEarned`, has an
invariant of its own: the manifest of an undamaged backup counts the files beside
it (`Sound`), and a rehearsal of one begins on nothing and has all of it by the time
it is verified (`Rehearsed`), so every check of the script that can refuse passes.

**`Frontend_proofs`**, the console. `MicReleased` by `OneTake`: while Record was not
pressed twice for one prompt there is one prompt or one stream, never both, and a
stream only while the panel says that it records. Every other step of the console
leaves these variables alone, whatever replies arrive and whichever tab is shown.

**`Frontend_proofs`**, the player's browser. `DiscardedTakesStay`: the first stop of
a recording decides, also for a recorder whose screen is gone
(`FirstStopDecides`), and a request carries only a take that was stopped with
`send` or by the limit (`ClientTypes`). `RightAnswerStaysOpen` is the hardest of
the browser: a pick is ruled out when a later view shows fewer attempts, and the view
and the reply to the pick travel separately. `GuesserInv` says that the one guess
whose reply the screen awaits has locked its option (`LockedByItsGuess`), and that
the attempts on screen, in a view under way and on the server fall by one at most
and only for a wrong locked pick (`AttemptsSeen`); all of it until a guess counts
that its screen did not see answered (`blind`), a limit of the code described
below. A session that guesses does so on its first turn, for any number of
attempts, options and requests in flight.

**Only model-checked.** All liveness: TLAPS does not reason about fairness or
ENABLED here. What the holdout split computes (quotas by largest remainder) is
modelled as the code computes it, and no theorem is about its sizes.

## Known limits of the code

Schedules met while choosing the properties. Each is why some property carries an
exception, or why a stronger one is not stated.

Game:

- A player may be in two active pairs: the active-pair check of `try_match` takes
  no lock (`pg_store.py:303`), and a match that commits before the upsert of the
  queue row puts an already paired player back into the queue.
- An accepted clip may be overwritten or removed by a second upload for the same
  turn, whose status was read before (`service.py:249`, `258`); `Backup` excepts
  such clips (`overwritten`).
- A handler that is lost takes with it what it owed: the triage job after
  `accept_audio`, the package job if quality came first, the next turn
  (`service.py:271`, `413`, `447`). Nothing retries; `dropped` records it.
- A partner who leaves mid-turn leaves the other waiting; no turn times out.
- Two compatible waiters can pass each other by (`SKIP LOCKED`); a later poll
  matches them.

Worker:

- A worker dies after `persist_triage` of a recording, a matching recording is
  triaged as its duplicate, and the repeated triage finds that one and marks the
  original a duplicate too (`worker/repository.py:759`): no original is left.
- A worker that outlives its claim overwrites the state of the next attempt:
  `complete_job` and `fail_job` do not ask whose the claim is.
- After a torn write the retried export continues the unterminated line and links
  a line that does not parse; `LinesMatchRecords` is for whole writes.
- `recover_stale_claims` ignores `tries`: a job that kills its worker every time
  is never parked.

Gemini client:

- `_ModelGate.acquire` releases its slot on `except Exception`, which a
  cancellation is not: a caller cancelled in there leaks a permit, and with as many
  as there are slots every later call waits for ever (`leaked`).
- A slot is kept through the back-off. Every process and every client has a gate of
  its own, so the window is one client's. The SDK is assumed to answer or fail.

Decks:

- The command line publishes with final status live by default, without the
  activation lock and without demoting anything: two live decks (`publish.py:573`).
- A publish whose COMMIT succeeded but went unanswered removes the images of a
  ready deck in its cleanup (`unanswered`; `commitLost` in `DeckGeneration`); for a
  prompted deck the same lost reply lets `mark_failed` turn a ready deck into a failed
  one. A `--deck-id` run that publishes first does so too.
- The cleanup of a command line that fails while it publishes into a prompted deck
  removes the images of cards the deck's own task persisted meanwhile (`exposed`),
  and the deck may still be published (`publish.py:602-604`).
- A process that dies leaves its deck generating.

Tune queue:

- `claim_next` is documented to take "the oldest queued request"
  (`tune_demo_supervisor.py:603`), but its pattern `*.json` also matches
  `*.processing.json`: a restarted supervisor claims its predecessor's claim again,
  finds its name is not a job identifier, and the job stays active. The console
  then answers 409 until someone removes the file.
- Taking over a stale lock is not atomic and the lock is removed without looking
  whose it is: after a takeover two handlers may be inside (`stolen`).
- An API process that dies between the job file and the request file leaves an
  active job that nobody runs. A supervisor that dies leaves its child running, and
  stale recovery may turn "completed" into "failed", hence `supCrashes = 0` in
  `FinalStatusStays`; `JobsSettle` is for runs without a crash.

Fine-tuning:

- `train` and `compare` read the rows before they compare the files with the
  manifest; a preparation that finishes exactly in between is not noticed, and the
  adapter is sealed for a later split than it learnt (`mixed`).
- `--resume-from-checkpoint` takes any checkpoint below the output directory and
  compares nothing of it with the manifest (`train.py:149-153`): an adapter continued
  from another split's checkpoint has learnt that split too, or only that one if no
  step is left to do, and is sealed for the current one (`carried`). A sample held
  out now may have been trained on then.
- `compare` validates the adapter, runs the base model, and only then loads the
  adapter (`compare.py:293`, `174`): one that was replaced by a resumed or a new
  training meanwhile is used unvalidated (`replaced`).
- The corpus is hashed after its rows were read, and the artifact manifest hashes
  the dataset manifest at the end of the training; an adapter made while the corpus
  grew is then not compatible, which errs on the safe side.
- The overview is put together from several reads: it can show a learnt sample as
  held out until the next publication (`LeakSettles`). The approved predictions are
  not bound to an adapter.
- Two preparations into one directory at once would mix their files; the operator
  runs one at a time.

Console:

- `loadDetail` neither aborts nor checks what is selected when the answer comes;
  the poll corrects the view. A lost reply, or a change of tabs, lets the same
  generation be started twice, since `busy` belongs to the mounted panel. A late
  401 clears a newer key.
- Record can be pressed again while the permission prompt is open and opens a
  second stream that nothing closes (`overlap`).

Player's browser:

- A sign-in that finds the displayed phase unchanged does not restart the pair
  loop (`EpisodeMissed`). Any 401 clears the token, whichever one it was for.
- A guess carries no turn id. After a lost reply of a guess that counted, or for a
  screen that was gone, a right tile may be shown dead on the next turn (`blind`).
- A second press while the prompt is open leaks the first stream (`pressedTwice`). The
  prompt of a Speaker screen that is gone still opens a stream, records to the
  limit and uploads; so does the teardown of a recording.
- A join whose reply is lost leaves a player nobody uses.

Backup:

- Row counts are a query of their own: inserts between the counts and the dump make
  a good backup fail, and, with a table that failed to load, could let it pass;
  `PassMeansWhole` and `NoFalseAlarm` are for counts that agree (`Quiet`). psql runs
  without ON_ERROR_STOP, and only the counts are compared afterwards.
- The corpus is copied last and may hold lines of records the dump does not know.
- Two backups to one explicit destination could mix; one script runs at a time.

## Not modelled

- Cards and labels in `TurnGame` (a guess is right or wrong), tokens, the contents
  of recordings, prompts and images, prices, wording and layout.
- What goes wrong in `useRecorder.js` between the grant of the microphone and the
  start of the recording (`MediaRecorder`, `AudioContext` or `start()` throwing,
  lines 106-148): the stream then has no owner and stays open; `MicCloses` is for
  browsers in which a granted stream can be recorded.
- Retry delays, heartbeats and the connection pool of the worker.
- Players and nicknames: `create_player` inserts with fresh suffixes, twelve times
  at most; the unique index decides alone. Leaderboard and metrics only read.
  Fingerprints are signal processing; whether two recordings match is a constant.
  The in-memory store is a double for tests.
- Score and rank, which also enter the version of the state; the Tv screen and the
  leaderboard of the browser; a reset of the database is an external step.
- The command lines the supervisor builds, the checks of an uploaded clip, the
  machine learning, `preflight`, the smoke fixture, the stage pages of `demo.py`.
- Operations: status, restart, health polling, schema scripts and load tools; that
  a rehearsal target is isolated and not started meanwhile (input checks); deck
  images, which rows name just as they name clips; symbolic links in the data
  directory, which the copy keeps and the verification refuses (`integrity.py:238`),
  while the system itself makes none; constraints that fail to be
  added on restore.

## Plan

Done: the game core, the gauntlet with its refinement, decks, the Gemini client,
the tune queue and files, both browsers and backups, and a proof of every safety
property and action property the runs check. Next, in this order:

1. `TurnGame` as the implementation of a smaller specification of a round (spoken,
   confirmed, guessed or exhausted, next speaker), and a proof of it.
2. `PlayerClient` over `TurnGame` instead of a partner that acts by itself, with
   `StateView` as the mapping between them.
3. `DeckGeneration` over `GeminiClient`: the leaked permits of a cancelled build.
4. The connection pool of the worker, and the commands of `neva-ops.sh` that act on
   running services.
