-------------------------------- MODULE Backup --------------------------------
(***************************************************************************)
(* Live backups and their restore rehearsal (scripts/ops): neva-ops.sh     *)
(* backup counts the rows, dumps the database, copies DATA_DIR and writes  *)
(* a manifest and a checksum index, while the API and the workers go on    *)
(* writing; neva-ops.sh restore-verify loads a backup into a fresh,        *)
(* isolated target and reports "pass" or refuses.                          *)
(*                                                                         *)
(* The operator runs one script at a time; each action is one command of   *)
(* it.  A script ends at its first failing command (set -euo pipefail) or  *)
(* is killed, and leaves what it wrote.  The live system is the part of it *)
(* that the copies have to agree on: a clip and then its turn, a record,   *)
(* its corpus line and then its shard link.  Deck images are files that    *)
(* rows name just as clips are, and are left out; so are secret files,     *)
(* which no side copies, and the isolation of the target, an input check.  *)
(***************************************************************************)
EXTENDS Naturals, FiniteSets

CONSTANTS Takes,        \* turns and, one to one, their clips and records
          Backups,      \* backup destinations
          MaxRestores,  \* bound on restore rehearsals
          MaxDamaged    \* bound on backups that are damaged later

ASSUME BackupAssumption == {MaxRestores, MaxDamaged} \subseteq Nat /\ IsFiniteSet(Takes)

VARIABLES
    db, audio, corpus,  \* the live tables, clips, and lines of the corpus
    overwritten,        \* accepted clips that a second, refused upload removed
    step, cur,          \* the running script's next command, its backup
    counts,             \* the shell variable database_counts
    dir,                \* the backup directories
    target,             \* the isolated database and DATA_DIR
    verdict,            \* how the last script ended, if a rehearsal that did not fail
    skipped,            \* a statement of the last load failed
    damaged,            \* backups whose files changed after they were finished
    restores

live == <<db, audio, corpus, overwritten>>
script == <<step, cur, counts>>
rehearsal == <<target, verdict, skipped, restores>>
vars == <<live, script, dir, rehearsal, damaged>>

Tables == {"turns", "records"}
Nothing == [table \in Tables |-> {}]
Keys(rows) == {r.take : r \in rows}
CountsOf(d) == [table \in Tables |-> Cardinality(d[table])]
NoCounts == CountsOf(Nothing)

Init ==
    /\ db = [turns |-> {[take |-> t, done |-> FALSE] : t \in Takes}, records |-> {}]
    /\ audio = {} /\ corpus = {} /\ overwritten = {}
    /\ step = "idle" /\ cur \in Backups /\ counts = NoCounts
    /\ dir = [b \in Backups |-> [made |-> FALSE, dump |-> {}, audio |-> {}, corpus |-> {},
                                 manifest |-> {}, sums |-> {}]]
    /\ target = [schema |-> FALSE, db |-> Nothing, audio |-> {}, corpus |-> {}]
    /\ verdict = "none" /\ skipped = FALSE /\ damaged = {} /\ restores = 0

------------------------------------------------------------------------------
(* The live system.  done is turns.audio_path set, records.shard_file set. *)

UpdateRow(table, t) ==
    /\ [take |-> t, done |-> FALSE] \in db[table]
    /\ db' = [db EXCEPT ![table] = (@ \ {[take |-> t, done |-> FALSE]})
                                      \cup {[take |-> t, done |-> TRUE]}]

StoreClip(t) ==
    /\ t \notin audio \cup overwritten
    /\ audio' = audio \cup {t}
    /\ UNCHANGED <<db, corpus, overwritten>>

AcceptClip(t) ==
    /\ t \in audio
    /\ UpdateRow("turns", t)
    /\ UNCHANGED <<audio, corpus, overwritten>>

\* A clip is checked after it was written, and a refused one is unlinked: also one
\* that an upload read as still awaited and that was accepted meanwhile.
RejectClip(t) ==
    /\ t \in audio
    /\ audio' = audio \ {t}
    /\ overwritten' = IF [take |-> t, done |-> TRUE] \in db["turns"]
                      THEN overwritten \cup {t} ELSE overwritten
    /\ UNCHANGED <<db, corpus>>

CreateRecord(t) ==
    /\ [take |-> t, done |-> TRUE] \in db["turns"]
    /\ t \notin Keys(db["records"])
    /\ db' = [db EXCEPT !["records"] = @ \cup {[take |-> t, done |-> FALSE]}]
    /\ UNCHANGED <<audio, corpus, overwritten>>

AppendLine(t) ==
    /\ t \in Keys(db["records"]) \ corpus
    /\ corpus' = corpus \cup {t}
    /\ UNCHANGED <<db, audio, overwritten>>

LinkRecord(t) ==
    /\ t \in corpus
    /\ UpdateRow("records", t)
    /\ UNCHANGED <<audio, corpus, overwritten>>

LiveWrite ==
    /\ \E t \in Takes : \/ StoreClip(t) \/ AcceptClip(t) \/ RejectClip(t)
                        \/ CreateRecord(t) \/ AppendLine(t) \/ LinkRecord(t)
    /\ UNCHANGED <<script, dir, rehearsal, damaged>>

------------------------------------------------------------------------------
(* neva-ops.sh backup *)

\* mutant: the runtime tree is copied before the database is dumped
FilesFirst == [counts |-> "audio", audio |-> "corpus", corpus |-> "dump",
               dump |-> "manifest", manifest |-> "sums", sums |-> "idle"]

\* The commands of the script and what follows each: the dump comes before the copy.
Then == [counts |-> "dump", dump |-> "audio", audio |-> "corpus",
         corpus |-> "manifest", manifest |-> "sums", sums |-> "idle"]

\* A command of the backup script succeeds.
Did(s) ==
    /\ step = s
    /\ step' = Then[s]
    /\ UNCHANGED <<live, cur, rehearsal, damaged>>

\* The protected files of a backup, each with its content.
FilesOf(d) ==
    {<<"dump", snapshot>> : snapshot \in d.dump}
        \cup {<<"clip", t>> : t \in d.audio}
        \cup {<<"shard", lines>> : lines \in {d.corpus} \ {{}}}

\* validate_backup_destination: it does not exist yet (and lies outside DATA_DIR).
NewDestination(b) == ~dir[b].made

\* validate-backup, mkdir.
StartBackup(b) ==
    /\ step = "idle"
    /\ NewDestination(b)
    /\ dir' = [dir EXCEPT ![b].made = TRUE]
    /\ cur' = b
    /\ step' = "counts"
    /\ verdict' = "none" /\ skipped' = FALSE
    /\ UNCHANGED <<live, counts, target, restores, damaged>>

CountRows ==
    /\ Did("counts")
    /\ counts' = CountsOf(db)
    /\ UNCHANGED dir

DumpDatabase ==
    /\ Did("dump")
    /\ dir' = [dir EXCEPT ![cur].dump = {db}]
    /\ UNCHANGED counts

\* rsync, one directory after the other.
CopyClips ==
    /\ Did("audio")
    /\ dir' = [dir EXCEPT ![cur].audio = audio]
    /\ UNCHANGED counts

CopyCorpus ==
    /\ Did("corpus")
    /\ dir' = [dir EXCEPT ![cur].corpus = corpus]
    /\ UNCHANGED counts

\* count_runtime_entries: clips, and shard files.
RuntimeCounts(clips, lines) == <<Cardinality(clips), IF lines = {} THEN 0 ELSE 1>>

\* mutant: the manifest counts the files of the live DATA_DIR
LiveRuntime(b) == RuntimeCounts(audio, corpus)

CopiedRuntime(b) == RuntimeCounts(dir[b].audio, dir[b].corpus)

\* finalize-backup writes the manifest and then the checksum index.
WriteManifest ==
    /\ Did("manifest")
    /\ dir' = [dir EXCEPT ![cur].manifest =
                  {[counts |-> counts, runtime |-> CopiedRuntime(cur),
                    files |-> Cardinality(FilesOf(dir[cur]))]}]
    /\ UNCHANGED counts

WriteChecksums ==
    /\ Did("sums")
    /\ dir' = [dir EXCEPT ![cur].sums = FilesOf(dir[cur])]
    /\ counts' = NoCounts

\* The script is killed in the middle of the index.
CutChecksums ==
    /\ step = "sums"
    /\ step' = "idle"
    /\ \E part \in SUBSET FilesOf(dir[cur]) : dir' = [dir EXCEPT ![cur].sums = part]
    /\ counts' = NoCounts
    /\ UNCHANGED <<live, cur, rehearsal, damaged>>

\* An artifact of a finished backup is lost or altered on its disk.
Damage(b) ==
    /\ dir[b].sums # {}
    /\ b \notin damaged /\ Cardinality(damaged) < MaxDamaged
    /\ damaged' = damaged \cup {b}
    /\ \/ dir' = [dir EXCEPT ![b].dump = {}]
       \/ \E t \in dir[b].audio : dir' = [dir EXCEPT ![b].audio = @ \ {t}]
       \/ \E t \in dir[b].corpus : dir' = [dir EXCEPT ![b].corpus = @ \ {t}]
    /\ UNCHANGED <<live, script, rehearsal>>

------------------------------------------------------------------------------
(* neva-ops.sh restore-verify *)

\* load_manifest: there is one, whole; here also its numbers are those of the files.
ManifestAgrees(b) ==
    \E m \in dir[b].manifest :
        /\ m.files = Cardinality(FilesOf(dir[b]))
        /\ m.runtime = RuntimeCounts(dir[b].audio, dir[b].corpus)

\* parse_checksums refuses an index that is missing or empty; then exact coverage, and
\* every digest again.
IndexAgrees(b) == dir[b].sums # {} /\ dir[b].sums = FilesOf(dir[b])

\* verify_gzip_stream: the dump is there and whole.
DumpReadable(b) == dir[b].dump # {}

\* verify_backup_source
SourceVerified(b) == ManifestAgrees(b) /\ IndexAgrees(b) /\ DumpReadable(b)

StartRestore(b) ==
    /\ step = "idle"
    /\ dir[b].made
    /\ restores < MaxRestores
    /\ restores' = restores + 1
    /\ cur' = b
    /\ step' = "validate"
    /\ verdict' = "none" /\ skipped' = FALSE
    /\ UNCHANGED <<live, counts, dir, target, damaged>>

\* The script goes on to the command s, or ends with a verdict.
GoOn(s) == step' = s /\ UNCHANGED verdict
End(v) == step' = "idle" /\ verdict' = v

\* validate_restore_destination_empty: nothing but the marker of isolation, which
\* validate_restore_target asks for.
EmptyDestination == target.audio = {} /\ target.corpus = {}

\* validate-restore.
ValidateRestore ==
    /\ step = "validate"
    /\ IF ~EmptyDestination THEN End("not fresh")
       ELSE IF SourceVerified(cur) THEN GoOn("preflight")
       ELSE End("refused")
    /\ UNCHANGED <<live, cur, counts, dir, target, skipped, damaged, restores>>

\* mutant: no look at the tables of the target database
AssumesEmpty ==
    /\ step = "preflight"
    /\ GoOn("load")
    /\ UNCHANGED <<live, cur, counts, dir, target, skipped, damaged, restores>>

\* assert_empty_database counts tables: not even an empty one may be there.
NoUserTables == ~target.schema

\* validate-db-empty.
RequireEmptyDatabase ==
    /\ step = "preflight"
    /\ IF NoUserTables THEN GoOn("load") ELSE End("not fresh")
    /\ UNCHANGED <<live, cur, counts, dir, target, skipped, damaged, restores>>

\* The target's tables after COPY of the tables in done: all rows of a table or,
\* at a duplicate key, none.
Loaded(snapshot, done) ==
    [table \in Tables |->
        IF table \in done /\ Keys(snapshot[table]) \cap Keys(target.db[table]) = {}
        THEN target.db[table] \cup snapshot[table] ELSE target.db[table]]

\* psql without ON_ERROR_STOP: a statement that fails does not end the load.  The
\* script may also be killed in the middle of it.
LoadDump ==
    /\ step = "load"
    /\ \E snapshot \in dir[cur].dump, done \in SUBSET Tables :
         /\ target' = [target EXCEPT !.schema = TRUE, !.db = Loaded(snapshot, done)]
         /\ \/ step' = "files" /\ skipped' = (done # Tables)
            \/ step' = "idle" /\ UNCHANGED skipped
    /\ UNCHANGED <<live, cur, counts, dir, verdict, damaged, restores>>

CopyBack ==
    /\ step = "files"
    /\ \/ /\ target' = [target EXCEPT !.audio = @ \cup dir[cur].audio,
                                      !.corpus = dir[cur].corpus]
          /\ step' = "query"
       \/ \E part \in SUBSET dir[cur].audio :
             /\ target' = [target EXCEPT !.audio = @ \cup part]
             /\ step' = "idle"
    /\ UNCHANGED <<live, cur, counts, dir, verdict, skipped, damaged, restores>>

QueryRestored ==
    /\ step = "query"
    /\ counts' = CountsOf(target.db)
    /\ step' = "verify"
    /\ UNCHANGED <<live, cur, dir, rehearsal, damaged>>

\* The runtime files of the checksum index.
Indexed(b) == {f \in dir[b].sums : f[1] # "dump"}

\* verify_restored_runtime: the restored files are those of the index.
RuntimeRestored(b) ==
    Indexed(b) = FilesOf([dump |-> {}, audio |-> target.audio, corpus |-> target.corpus])

\* validate_post_restore_database: as many rows as the manifest counts.  A dump adds
\* its constraints validated, so the count of the others is 0.
RowsRestored(b) == \E m \in dir[b].manifest : m.counts = counts

\* verify-restore: the source again, and what was restored from it.
Matches(b) == SourceVerified(b) /\ RuntimeRestored(b) /\ RowsRestored(b)

\* A report is only written of a rehearsal that passed.
Report(b) == IF Matches(b) THEN "pass" ELSE "mismatch"

VerifyRestore ==
    /\ step = "verify"
    /\ End(Report(cur))
    /\ counts' = NoCounts
    /\ UNCHANGED <<live, cur, dir, target, skipped, damaged, restores>>

\* A command fails, or the script is killed between two of them.
ScriptFails ==
    /\ step # "idle"
    /\ step' = "idle"
    /\ counts' = NoCounts
    /\ UNCHANGED <<live, cur, dir, rehearsal, damaged>>

\* The operator provides a new isolated database and directory.
NewTarget ==
    /\ step = "idle"
    /\ target' = [schema |-> FALSE, db |-> Nothing, audio |-> {}, corpus |-> {}]
    /\ verdict' = "none" /\ skipped' = FALSE
    /\ UNCHANGED <<live, script, dir, restores, damaged>>

------------------------------------------------------------------------------
BackupStep ==
    \/ CountRows \/ DumpDatabase \/ CopyClips \/ CopyCorpus
    \/ WriteManifest \/ WriteChecksums \/ CutChecksums

RestoreStep ==
    \/ ValidateRestore \/ RequireEmptyDatabase \/ LoadDump \/ CopyBack
    \/ QueryRestored \/ VerifyRestore

Next ==
    \/ LiveWrite
    \/ \E b \in Backups : StartBackup(b) \/ StartRestore(b) \/ Damage(b)
    \/ BackupStep
    \/ RestoreStep
    \/ ScriptFails
    \/ NewTarget

Spec == Init /\ [][Next]_vars

------------------------------------------------------------------------------

\* What a passed rehearsal restored is usable: the clip of every accepted turn
\* and the corpus line of every linked record are there, though the live system
\* went on writing between the dump and the copy.  A clip the live system itself
\* had lost is excepted.
RestoredRowsHaveFiles ==
    verdict = "pass" =>
        /\ \A r \in target.db["turns"] : r.done => r.take \in target.audio \cup overwritten
        /\ \A r \in target.db["records"] : r.done => r.take \in target.corpus

\* The row counts before the dump and the dump itself agree.
Quiet(b) == \A m \in dir[b].manifest, s \in dir[b].dump : m.counts = CountsOf(s)

\* A pass means the whole dump and nothing else was restored, although only row
\* counts are compared, a failed statement goes unnoticed and a target may have
\* been used before; unless rows were inserted between the counts and the dump.
PassMeansWhole ==
    verdict = "pass" /\ Quiet(cur) => \A s \in dir[cur].dump : target.db = s

\* Only what is wrong is refused: a finished, undamaged backup with agreeing
\* counts, loaded without a failed statement, verifies.
NoFalseAlarm ==
    verdict \in {"refused", "mismatch"} =>
        \/ cur \in damaged
        \/ skipped
        \/ dir[cur].manifest = {} \/ dir[cur].sums # FilesOf(dir[cur])
        \/ ~Quiet(cur)

==============================================================================
