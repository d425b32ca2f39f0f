------------------------------ MODULE Gauntlet ------------------------------
(***************************************************************************)
(* The gauntlet workers (worker/service.py, worker/repository.py): claim a *)
(* job, triage a recording or package a scored turn into a golden record,  *)
(* and append eligible records to the corpus shards.                       *)
(*                                                                         *)
(* A worker handles one job at a time; each action is one statement or     *)
(* transaction, or one stretch of file work without an await.  Several     *)
(* workers may run.  A claim goes stale by age alone, so a slow worker and *)
(* a dead one look the same to recover_stale_claims.  Retry delays         *)
(* (available_at) are left out: a pending job may be claimed at any time.  *)
(***************************************************************************)
EXTENDS Corpus, FiniteSets

CONSTANTS
    Workers,
    Nobody,
    Alike,          \* {t, u}: same speaker, fingerprints_match holds
    SameHash,       \* {t, u}: same speaker, equal content hash
    MaxTries,       \* GauntletLimits.max_tries
    MaxClaims,      \* bound on the claims of each job
    WorkersDie,     \* TRUE: a worker process may die at any await
    JobsMayFail,    \* TRUE: any step of a job may raise
    LateWorkers,    \* TRUE: a claim may be recovered while its worker lives
    TornWrites      \* TRUE: a write may reach the disk only in part

Kinds == {"triage", "package"}
Jobs == Kinds \X Turns

ASSUME GauntletAssumption ==
    /\ Nobody \notin Workers
    /\ \A e \in Alike : e \subseteq Turns /\ Cardinality(e) = 2
    /\ SameHash \subseteq Alike
    /\ MaxTries \in Nat \ {0} /\ MaxClaims \in [Jobs -> Nat]
    /\ {WorkersDie, JobsMayFail, LateWorkers, TornWrites} \subseteq BOOLEAN

VARIABLES
    scored,         \* turns.status = 'scored'
    validated,      \* turns.outcome = 'validated'
    afterScored,    \* scored turns whose _after_scored has not looked yet
    triaged,        \* turns.quality IS NOT NULL
    clean,          \* the model's verdict: speech, one speaker, good, no readout
    duplicate,      \* quality.duplicate
    owners,         \* turns with a row in speaker_audio_fingerprints
    jobStatus,      \* jobs.status, "absent" without a row
    tries,          \* jobs.tries
    recorded,       \* turns with a row in records
    eligible,       \* records.training_eligible
    shardOf,        \* records.shard_file, 0 for NULL
    shards,         \* the files of corpus/
    flusher,        \* holder of the shard flusher advisory lock
    pc,
    job,            \* the job each worker handles
    jobTries,       \* tries as of its claim
    fit,            \* eligibility it computed from the context it read
    target          \* the shard it is about to link

turnVars == <<scored, validated, afterScored>>
qualityVars == <<triaged, clean, duplicate, owners>>
jobVars == <<jobStatus, tries>>
recordVars == <<recorded, eligible, shardOf>>
workerVars == <<pc, job, jobTries, fit, target>>
vars == <<turnVars, qualityVars, jobVars, recordVars, shards, flusher, workerVars>>

NoJob == <<"none", Nobody>>
TurnOf(w) == job[w][2]
Pcs == {"idle", "triage", "package", "state", "create", "lock", "locked",
        "append", "torn", "link", "unlock", "finish"}

-----------------------------------------------------------------------------
(* Job rows. *)

\* INSERT ... ON CONFLICT DO NOTHING against the unique (kind, turn_id) index.
Enqueued(j) == [jobStatus EXCEPT ![j] = IF @ = "absent" THEN "pending" ELSE @]

Goto(w, label) == pc' = [pc EXCEPT ![w] = label]

\* The worker is done with its job; a lock it held goes with its connection.
Leave(w) ==
    /\ pc' = [pc EXCEPT ![w] = "idle"]
    /\ job' = [job EXCEPT ![w] = NoJob]
    /\ jobTries' = [jobTries EXCEPT ![w] = 0]
    /\ fit' = [fit EXCEPT ![w] = FALSE]
    /\ target' = [target EXCEPT ![w] = 0]
    /\ flusher' = IF flusher = w THEN Nobody ELSE flusher

\* The row claim_next_job takes, with a bound on the claims of one job.
Claimable(j) == jobStatus[j] = "pending" /\ tries[j] < MaxClaims[j]

Claim(w, j) ==
    /\ pc[w] = "idle"
    /\ Claimable(j)
    /\ jobStatus' = [jobStatus EXCEPT ![j] = "processing"]
    /\ tries' = [tries EXCEPT ![j] = @ + 1]
    /\ Goto(w, j[1])
    /\ job' = [job EXCEPT ![w] = j]
    /\ jobTries' = [jobTries EXCEPT ![w] = tries[j] + 1]
    /\ UNCHANGED <<turnVars, qualityVars, recordVars, shards, flusher, fit, target>>

\* complete_job does not ask whether the claim is still this worker's.
CompleteJob(w) ==
    /\ pc[w] = "finish"
    /\ jobStatus' = [jobStatus EXCEPT ![job[w]] = "complete"]
    /\ Leave(w)
    /\ UNCHANGED <<turnVars, qualityVars, tries, recordVars, shards>>

\* fail_job parks a job by the tries its claim read.  (NeverParked does not.)
NeverParked(w) == jobTries[w] < 1
Parked(w) == jobTries[w] >= MaxTries

\* An exception ends the job's handler (releasing the lock); fail_job then
\* decides, again without looking whether the claim is still this worker's.
FailJob(w) ==
    /\ pc[w] # "idle"
    /\ JobsMayFail \/ pc[w] = "torn"
    /\ jobStatus' = [jobStatus EXCEPT ![job[w]] = IF Parked(w) THEN "failed" ELSE "pending"]
    /\ Leave(w)
    /\ UNCHANGED <<turnVars, qualityVars, tries, recordVars, shards>>

\* A death is followed by a recovery and a claim, which the bound must leave room for.
WorkerDies(w) ==
    /\ WorkersDie
    /\ pc[w] # "idle"
    /\ tries[job[w]] < MaxClaims[job[w]]
    /\ Leave(w)
    /\ UNCHANGED <<turnVars, qualityVars, jobVars, recordVars, shards>>

Held(j) == \E w \in Workers : job[w] = j

RecoverStaleClaim(j) ==
    /\ jobStatus[j] = "processing"
    /\ LateWorkers \/ ~Held(j)
    /\ jobStatus' = [jobStatus EXCEPT ![j] = "pending"]
    /\ UNCHANGED <<turnVars, qualityVars, tries, recordVars, shards, flusher, workerVars>>

-----------------------------------------------------------------------------
(* Triage *)

ExactOwned(t) == t \in owners \/ ~\E u \in owners : {t, u} \in SameHash
NearClear(t) == ~\E u \in triaged \ {t} : {t, u} \in Alike

\* _register_speaker_fingerprint_on_connection.  (OwnedAmongScored overlooks
\* recordings whose turn is not scored yet.)
OwnedAmongScored(t) == ~\E u \in (triaged \cap scored) \ {t} : {t, u} \in Alike
Owned(t) == ExactOwned(t) /\ NearClear(t)

\* persist_triage in one transaction, serialised per speaker by an advisory lock:
\* fingerprint ownership, quality, and the package job if the turn is scored.
PersistTriage(w) ==
    LET t == TurnOf(w) IN
    /\ pc[w] = "triage"
    /\ triaged' = triaged \cup {t}
    /\ clean' \in {clean \cup {t}, clean \ {t}}
    /\ duplicate' = IF Owned(t) THEN duplicate \ {t} ELSE duplicate \cup {t}
    /\ owners' = CASE Owned(t) -> owners \cup {t}
                   [] ExactOwned(t) /\ ~Owned(t) -> owners \ {t}
                   [] OTHER -> owners
    /\ jobStatus' = IF t \in scored THEN Enqueued(<<"package", t>>) ELSE jobStatus
    /\ Goto(w, "finish")
    /\ UNCHANGED <<turnVars, tries, recordVars, shards, flusher, job, jobTries, fit, target>>

-----------------------------------------------------------------------------
(* Packaging *)

TrainingEligible(t) == t \in clean /\ t \in validated /\ t \notin duplicate

\* get_turn_context; a turn that is not ready ends the job quietly.
Ready(t) == t \in scored /\ t \in triaged

ReadContext(w) ==
    LET t == TurnOf(w) IN
    /\ pc[w] = "package"
    /\ Goto(w, IF Ready(t) THEN "state" ELSE "finish")
    /\ fit' = [fit EXCEPT ![w] = Ready(t) /\ TrainingEligible(t)]
    /\ UNCHANGED <<turnVars, qualityVars, jobVars, recordVars, shards, flusher,
                   job, jobTries, target>>

\* get_record_export_state, before and after create_record: where packaging goes
\* from there.  (Broken forms: export whatever is unlinked; a record is enough.)
ExportsUnlinked(w, t) == shardOf[t] = 0
RecordIsEnough(w, t) == t \notin recorded
Exports(w, t) == t \in eligible /\ fit[w] /\ shardOf[t] = 0

ReadRecord(w) ==
    LET t == TurnOf(w) IN
    /\ pc[w] = "state"
    /\ Goto(w, IF t \notin recorded THEN "create"
               ELSE IF Exports(w, t) THEN "lock"
               ELSE "finish")
    /\ UNCHANGED <<turnVars, qualityVars, jobVars, recordVars, shards, flusher,
                   job, jobTries, fit, target>>

\* INSERT INTO records ... ON CONFLICT DO NOTHING, with what was read earlier.
CreateRecord(w) ==
    LET t == TurnOf(w) IN
    /\ pc[w] = "create"
    /\ recorded' = recorded \cup {t}
    /\ eligible' = IF t \notin recorded /\ fit[w] THEN eligible \cup {t} ELSE eligible
    /\ Goto(w, "state")
    /\ UNCHANGED <<turnVars, qualityVars, jobVars, shardOf, shards, flusher,
                   job, jobTries, fit, target>>

AcquireFlusherLock(w) ==
    /\ pc[w] = "lock"
    /\ flusher = Nobody
    /\ flusher' = w
    /\ Goto(w, "locked")
    /\ UNCHANGED <<turnVars, qualityVars, jobVars, recordVars, shards, job, jobTries, fit, target>>

ReadRecordLocked(w) ==
    /\ pc[w] = "locked"
    /\ Goto(w, IF shardOf[TurnOf(w)] = 0 THEN "append" ELSE "unlock")
    /\ UNCHANGED <<turnVars, qualityVars, jobVars, recordVars, shards, flusher,
                   job, jobTries, fit, target>>

\* A line left by an export that died before linking is linked, not repeated.
RelinkUtterance(w) ==
    /\ pc[w] = "append"
    /\ \E n \in DOMAIN shards :
        /\ IsFirstShardWith(shards, TurnOf(w), n)
        /\ target' = [target EXCEPT ![w] = n]
    /\ Goto(w, "link")
    /\ UNCHANGED <<turnVars, qualityVars, jobVars, recordVars, shards, flusher, job, jobTries, fit>>

\* (Broken form: the shard is looked up after the append.)
AppendsThenLooks(w) ==
    /\ pc[w] = "append"
    /\ ShardsWith(shards, TurnOf(w)) = {}
    /\ shards' = AppendRecord(shards, TurnOf(w), "whole")
    /\ target' = [target EXCEPT ![w] = CurrentShard(shards')]
    /\ Goto(w, "link")
    /\ UNCHANGED <<turnVars, qualityVars, jobVars, recordVars, flusher, job, jobTries, fit>>

AppendUtterance(w) ==
    /\ pc[w] = "append"
    /\ ShardsWith(shards, TurnOf(w)) = {}
    /\ shards' = AppendRecord(shards, TurnOf(w), "whole")
    /\ target' = [target EXCEPT ![w] = CurrentShard(shards)]
    /\ Goto(w, "link")
    /\ UNCHANGED <<turnVars, qualityVars, jobVars, recordVars, flusher, job, jobTries, fit>>

\* The disk fills up, or the power goes, in the middle of the write.
TearWrite(w) ==
    /\ TornWrites
    /\ pc[w] = "append"
    /\ ShardsWith(shards, TurnOf(w)) = {}
    /\ \E result \in WriteResults \ {"whole"} :
        shards' = AppendRecord(shards, TurnOf(w), result)
    /\ Goto(w, "torn")
    /\ UNCHANGED <<turnVars, qualityVars, jobVars, recordVars, flusher, job, jobTries, fit, target>>

\* set_record_shard: only an eligible record that is unlinked, or linked there.
LinkShard(w) ==
    LET t == TurnOf(w) IN
    /\ pc[w] = "link"
    /\ shardOf' = IF t \in eligible /\ shardOf[t] \in {0, target[w]}
                  THEN [shardOf EXCEPT ![t] = target[w]] ELSE shardOf
    /\ Goto(w, "unlock")
    /\ UNCHANGED <<turnVars, qualityVars, jobVars, recorded, eligible, shards, flusher,
                   job, jobTries, fit, target>>

ReleaseFlusherLock(w) ==
    /\ pc[w] = "unlock"
    /\ flusher' = Nobody
    /\ Goto(w, "finish")
    /\ UNCHANGED <<turnVars, qualityVars, jobVars, recordVars, shards, job, jobTries, fit, target>>

-----------------------------------------------------------------------------
(* The game, as module TurnGame has it: audio accepted, turn scored, and the *)
(* look for quality that _after_scored takes afterwards.                     *)

AudioAccepted(t) ==
    /\ jobStatus[<<"triage", t>>] = "absent"
    /\ jobStatus' = Enqueued(<<"triage", t>>)
    /\ UNCHANGED <<turnVars, qualityVars, tries, recordVars, shards, flusher, workerVars>>

GuessScores(t) ==
    /\ jobStatus[<<"triage", t>>] # "absent"
    /\ t \notin scored
    /\ scored' = scored \cup {t}
    /\ validated' \in {validated, validated \cup {t}}
    /\ afterScored' = afterScored \cup {t}
    /\ UNCHANGED <<qualityVars, jobVars, recordVars, shards, flusher, workerVars>>

AfterScored(t) ==
    /\ t \in afterScored
    /\ afterScored' = afterScored \ {t}
    /\ jobStatus' = IF t \in triaged THEN Enqueued(<<"package", t>>) ELSE jobStatus
    /\ UNCHANGED <<scored, validated, qualityVars, tries, recordVars, shards, flusher, workerVars>>

-----------------------------------------------------------------------------
Init ==
    /\ scored = {} /\ validated = {} /\ afterScored = {}
    /\ triaged = {} /\ clean = {} /\ duplicate = {} /\ owners = {}
    /\ jobStatus = [j \in Jobs |-> "absent"]
    /\ tries = [j \in Jobs |-> 0]
    /\ recorded = {} /\ eligible = {}
    /\ shardOf = [t \in Turns |-> 0]
    /\ shards = <<>>
    /\ flusher = Nobody
    /\ pc = [w \in Workers |-> "idle"]
    /\ job = [w \in Workers |-> NoJob]
    /\ jobTries = [w \in Workers |-> 0]
    /\ fit = [w \in Workers |-> FALSE]
    /\ target = [w \in Workers |-> 0]

WorkerStep(w) ==
    \/ CompleteJob(w) \/ PersistTriage(w)
    \/ ReadContext(w) \/ ReadRecord(w) \/ CreateRecord(w)
    \/ AcquireFlusherLock(w) \/ ReadRecordLocked(w)
    \/ RelinkUtterance(w) \/ AppendUtterance(w) \/ LinkShard(w) \/ ReleaseFlusherLock(w)
    \/ (pc[w] = "torn" /\ FailJob(w))

Next ==
    \/ \E w \in Workers : \/ WorkerStep(w) \/ TearWrite(w) \/ FailJob(w) \/ WorkerDies(w)
                          \/ \E j \in Jobs : Claim(w, j)
    \/ \E j \in Jobs : RecoverStaleClaim(j)
    \/ \E t \in Turns : AudioAccepted(t) \/ GuessScores(t) \/ AfterScored(t)

Spec == Init /\ [][Next]_vars

\* A live worker finishes its job, waits in line for the flusher lock, and takes
\* pending jobs oldest first; the API handler gets to its look.
FairSpec ==
    /\ Spec
    /\ \A w \in Workers : SF_vars(WorkerStep(w))
    /\ \A j \in Jobs : SF_vars(\E w \in Workers : Claim(w, j)) /\ WF_vars(RecoverStaleClaim(j))
    /\ \A t \in Turns : WF_vars(AfterScored(t))

-----------------------------------------------------------------------------
(* Properties *)

InCorpus(t) == ShardsWith(shards, t) # {}

\* The corpus holds a turn's line at most once, whatever workers overlap or die
\* between the append and set_record_shard.
NoRepeatedLine ==
    /\ \A t \in Turns : Cardinality(ShardsWith(shards, t)) <= 1
    /\ \A n \in DOMAIN shards : \A i, k \in DOMAIN shards[n].lines :
        shards[n].lines[i] = shards[n].lines[k] /\ shards[n].lines[i] # Garbage => i = k

\* records.shard_file names the shard that holds the line.
LinkedLineExists ==
    \A t \in Turns : shardOf[t] # 0 => shardOf[t] \in ShardsWith(shards, t)

\* Two recordings of one speaker that match are never both kept as originals,
\* whichever is triaged first or again.
OneOriginal ==
    \A t, u \in triaged : {t, u} \in Alike => t \in duplicate \/ u \in duplicate

\* Nor do both reach the corpus, though packaging acts on a context read before.
NoMatchingLines ==
    \A t, u \in Turns : {t, u} \in Alike => ~(InCorpus(t) /\ InCorpus(u))

\* The corpus and the records table agree: a record is linked to a shard that has
\* its line, there is no second line and no line of a matching recording, whatever
\* workers overlap or die between the append and set_record_shard
\* (worker/service.py:289-316).
LinesMatchRecords == NoRepeatedLine /\ LinkedLineExists /\ NoMatchingLines

\* The detailed worker keeps the promise of GoldenCorpus.
Promise == INSTANCE GoldenCorpus WITH exported <- {t \in Turns : InCorpus(t)}
KeepsPromise == Promise!PromiseSpec

\* An eligible record is linked to a shard, unless its package job was parked or
\* a repeated triage took the eligibility back before the export.
EligibleRecordLinked ==
    \A t \in Turns :
        t \in eligible ~> \/ shardOf[t] # 0
                         \/ ~TrainingEligible(t)
                         \/ jobStatus[<<"package", t>>] = "failed"

\* Every pending job is completed or parked.
JobsSettle ==
    \A j \in Jobs : jobStatus[j] = "pending" ~> jobStatus[j] \in {"complete", "failed"}

=============================================================================
