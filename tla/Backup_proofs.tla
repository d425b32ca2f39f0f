----------------------------- MODULE Backup_proofs -----------------------------
(***************************************************************************)
(* What a passed restore rehearsal means, proved for any number of clips,  *)
(* backups, rehearsals and damaged backups.                                *)
(*                                                                         *)
(* The argument: at every moment the live rows have their files, and a row *)
(* that says so never takes it back; the database is dumped before the     *)
(* files are copied, so a finished backup has the files of its dump        *)
(* (Origin).  A backup that is damaged later has fewer files than its      *)
(* manifest says, or files that its index does not name (SourceIntact).    *)
(***************************************************************************)
EXTENDS Backup, FiniteSetTheorems, TLAPS

Rows == [take : Takes, done : BOOLEAN]
Snapshots == [Tables -> SUBSET Rows]
Files == ({"dump"} \X Snapshots) \cup ({"clip"} \X Takes) \cup ({"shard"} \X SUBSET Takes)
Manifests == [counts : [Tables -> Nat], runtime : Nat \X Nat, files : Nat]
Directories == [made : BOOLEAN, dump : SUBSET Snapshots, audio : SUBSET Takes,
                corpus : SUBSET Takes, manifest : SUBSET Manifests, sums : SUBSET Files]

BackupSteps == {"counts", "dump", "audio", "corpus", "manifest", "sums"}
RestoreSteps == {"validate", "preflight", "load", "files", "query", "verify"}

Types ==
    /\ db \in Snapshots
    /\ audio \subseteq Takes /\ corpus \subseteq Takes /\ overwritten \subseteq Takes
    /\ step \in {"idle"} \cup BackupSteps \cup RestoreSteps
    /\ cur \in Backups
    /\ counts \in [Tables -> Nat]
    /\ dir \in [Backups -> Directories]
    /\ target \in [schema : BOOLEAN, db : Snapshots, audio : SUBSET Takes, corpus : SUBSET Takes]

\* The rows of s that name a file find it among these.
Linked(s, clips, lines) ==
    /\ \A r \in s["turns"] : r.done => r.take \in clips
    /\ \A r \in s["records"] : r.done => r.take \in lines

LiveOK ==
    /\ Linked(db, audio \cup overwritten, corpus)
    /\ \A b \in Backups : \A s \in dir[b].dump : \A table \in Tables : \A r \in s[table] :
        r.done => r \in db[table]

\* The backup that is being written.
Building ==
    /\ \A b \in Backups : ~dir[b].made => dir[b].dump = {} /\ dir[b].manifest = {} /\ dir[b].sums = {}
    /\ \A b \in Backups : \A s, z \in dir[b].dump : s = z
    /\ step \in BackupSteps => dir[cur].sums = {} /\ dir[cur].made
    /\ step \in BackupSteps \ {"sums"} => dir[cur].manifest = {}
    /\ step \in BackupSteps \ {"counts", "dump"} => \E s \in Snapshots : dir[cur].dump = {s}
    /\ step \in {"corpus", "manifest", "sums"} =>
        \A s \in dir[cur].dump : Linked(s, dir[cur].audio \cup overwritten, Takes)
    /\ step \in {"manifest", "sums"} => \A s \in dir[cur].dump : Linked(s, Takes, dir[cur].corpus)

\* What a backup was when its manifest was written, whatever happened since.
Original(s, clips, lines) == [dump |-> {s}, audio |-> clips, corpus |-> lines]

Origin(b) ==
    dir[b].manifest # {} =>
        \E s \in Snapshots, clips \in SUBSET Takes, lines \in SUBSET Takes :
            /\ Linked(s, clips \cup overwritten, lines)
            /\ dir[b].dump \subseteq {s}
            /\ dir[b].sums \subseteq FilesOf(Original(s, clips, lines))
            /\ \A m \in dir[b].manifest : m.files = Cardinality(FilesOf(Original(s, clips, lines)))
            /\ step = "sums" /\ cur = b => FilesOf(dir[b]) = FilesOf(Original(s, clips, lines))

\* Each table of the target is empty or has the rows of the dump.
PartOfDump == \A s \in dir[cur].dump, table \in Tables : target.db[table] \in {{}, s[table]}

Restoring ==
    /\ ~target.schema => target.db = Nothing
    /\ step \in {"load"} => ~target.schema
    /\ step \in {"files", "query", "verify"} => PartOfDump
    /\ step = "verify" => counts = CountsOf(target.db)
    /\ step # "idle" => verdict = "none"
    /\ verdict = "pass" => PartOfDump /\ \E m \in dir[cur].manifest : m.counts = CountsOf(target.db)

USE DEF ManifestAgrees, IndexAgrees, DumpReadable, RuntimeRestored, RowsRestored, Report,
        EmptyDestination, NoUserTables, NewDestination

BackupInv ==
    /\ Types /\ LiveOK /\ Building /\ (\A b \in Backups : Origin(b)) /\ Restoring
    /\ RestoredRowsHaveFiles

-----------------------------------------------------------------------------
(* Finite sets *)

LEMMA RowsFinite == ASSUME NEW S \in SUBSET Rows PROVE IsFiniteSet(S)
<1>. DEFINE f == [p \in Takes \X BOOLEAN |-> [take |-> p[1], done |-> p[2]]]
<1>1. IsFiniteSet(Takes \X BOOLEAN)
  <2>1. BOOLEAN = {TRUE} \cup {FALSE} /\ IsFiniteSet({TRUE}) /\ IsFiniteSet({FALSE})
    BY FS_Singleton
  <2>2. IsFiniteSet(BOOLEAN)
    BY <2>1, FS_Union
  <2>. QED BY <2>2, BackupAssumption, FS_Product
<1>2. f \in Surjection(Takes \X BOOLEAN, Rows)
  <2>1. f \in [Takes \X BOOLEAN -> Rows]
    BY DEF Rows
  <2>2. ASSUME NEW r \in Rows
        PROVE  \E p \in Takes \X BOOLEAN : f[p] = r
    <3>1. <<r.take, r.done>> \in Takes \X BOOLEAN /\ f[<<r.take, r.done>>] = r
      BY DEF Rows
    <3>. QED BY <3>1
  <2>. QED BY <2>1, <2>2 DEF Surjection
<1>. QED BY <1>1, <1>2, FS_Surjection, FS_Subset

LEMMA CountsTyped == ASSUME NEW s \in Snapshots PROVE CountsOf(s) \in [Tables -> Nat]
BY RowsFinite, FS_CardinalityType DEF CountsOf, Snapshots

LEMMA NothingTyped == Nothing \in Snapshots /\ NoCounts \in [Tables -> Nat]
<1>1. Nothing \in Snapshots
  BY DEF Nothing, Snapshots
<1>. QED BY <1>1, CountsTyped DEF NoCounts

LEMMA FilesTyped == ASSUME NEW d \in Directories PROVE FilesOf(d) \in SUBSET Files
BY DEF FilesOf, Files, Directories

LEMMA RuntimeTyped == ASSUME NEW clips \in SUBSET Takes, NEW lines
                      PROVE  RuntimeCounts(clips, lines) \in Nat \X Nat
BY BackupAssumption, FS_Subset, FS_CardinalityType DEF RuntimeCounts

LEMMA FilesFinite ==
    ASSUME NEW s, NEW clips \in SUBSET Takes, NEW lines
    PROVE  IsFiniteSet(FilesOf(Original(s, clips, lines)))
<1>1. IsFiniteSet(clips)
  BY BackupAssumption, FS_Subset
<1>2. IsFiniteSet({"dump"} \X {s}) /\ IsFiniteSet({"clip"} \X clips) /\ IsFiniteSet({"shard"} \X {lines})
  BY <1>1, FS_Singleton, FS_Product
<1>3. IsFiniteSet(({"dump"} \X {s}) \cup ({"clip"} \X clips) \cup ({"shard"} \X {lines}))
  BY <1>2, FS_Union
<1>4. FilesOf(Original(s, clips, lines))
        \subseteq ({"dump"} \X {s}) \cup ({"clip"} \X clips) \cup ({"shard"} \X {lines})
  BY DEF FilesOf, Original
<1>. QED BY <1>3, <1>4, FS_Subset

\* Membership in the protected files.
LEMMA FilesMembers ==
    ASSUME NEW d
    PROVE  /\ \A t : <<"clip", t>> \in FilesOf(d) <=> t \in d.audio
           /\ \A lines : <<"shard", lines>> \in FilesOf(d) <=> lines = d.corpus /\ lines # {}
           /\ \A s : <<"dump", s>> \in FilesOf(d) <=> s \in d.dump
BY DEF FilesOf

-----------------------------------------------------------------------------
\* A source that verifies is what it was when it was finished.
LEMMA SourceIntact ==
    ASSUME Types, NEW b \in Backups, Origin(b), SourceVerified(b)
    PROVE  \E s \in Snapshots : dir[b].dump = {s} /\ Linked(s, dir[b].audio \cup overwritten, dir[b].corpus)
<1>1. PICK m \in dir[b].manifest : m.files = Cardinality(FilesOf(dir[b]))
  BY DEF SourceVerified
<1>2. PICK s \in Snapshots, clips \in SUBSET Takes, lines \in SUBSET Takes :
            /\ Linked(s, clips \cup overwritten, lines)
            /\ dir[b].dump \subseteq {s}
            /\ dir[b].sums \subseteq FilesOf(Original(s, clips, lines))
            /\ m.files = Cardinality(FilesOf(Original(s, clips, lines)))
  BY <1>1 DEF Origin
<1>. DEFINE o == FilesOf(Original(s, clips, lines))
<1>3. FilesOf(dir[b]) \subseteq o /\ Cardinality(FilesOf(dir[b])) = Cardinality(o) /\ IsFiniteSet(o)
  BY <1>1, <1>2, FilesFinite DEF SourceVerified
<1>4. FilesOf(dir[b]) = o
  <2>. HIDE DEF o
  <2>. QED BY <1>3, FS_Subset
<1>5. \A t \in clips : t \in dir[b].audio
  BY <1>4, FilesMembers DEF Original
<1>6. lines # {} => dir[b].corpus = lines
  BY <1>4, FilesMembers DEF Original
<1>7. dir[b].dump = {s}
  BY <1>2 DEF SourceVerified
<1>. QED BY <1>2, <1>5, <1>6, <1>7 DEF Linked

-----------------------------------------------------------------------------
(* What most steps leave alone *)

LEMMA OriginSame ==
    ASSUME NEW b \in Backups, Origin(b), dir'[b] = dir[b], overwritten \subseteq overwritten',
           step' = "sums" /\ cur' = b => step = "sums" /\ cur = b
    PROVE  Origin(b)'
BY DEF Origin, Linked

LEMMA BuildingSame ==
    ASSUME Building, UNCHANGED <<dir, step, cur>>, overwritten \subseteq overwritten'
    PROVE  Building'
BY DEF Building, Linked

USE DEF live, script, rehearsal, Tables, BackupSteps, RestoreSteps, BackupInv, PartOfDump

\* The steps of the live system: its rows have their files, and do not take it back.
LEMMA LiveWriteKeepsInv == ASSUME BackupInv, LiveWrite PROVE BackupInv'
<1>1. PICK t \in Takes : \/ StoreClip(t) \/ AcceptClip(t) \/ RejectClip(t)
                         \/ CreateRecord(t) \/ AppendLine(t) \/ LinkRecord(t)
  BY DEF LiveWrite
<1>2. UNCHANGED <<script, dir, rehearsal, damaged>>
  BY DEF LiveWrite
<1>3. overwritten \subseteq overwritten' /\ overwritten' \subseteq Takes
      /\ audio' \subseteq Takes /\ corpus' \subseteq Takes
  BY <1>1 DEF StoreClip, AcceptClip, RejectClip, CreateRecord, AppendLine, LinkRecord, Types
<1>4. db' \in Snapshots /\ \A table \in Tables : \A r \in db[table] : r.done => r \in db'[table]
  <2>1. CASE UNCHANGED db
    BY <2>1 DEF Types
  <2>2. ASSUME NEW table \in Tables, UpdateRow(table, t)
        PROVE  db' \in Snapshots /\ \A other \in Tables : \A r \in db[other] : r.done => r \in db'[other]
    <3>1. PICK now \in SUBSET Rows : /\ db' = [db EXCEPT ![table] = now]
                                    /\ \A r \in db[table] : r.done => r \in now
      <4>. DEFINE now == (db[table] \ {[take |-> t, done |-> FALSE]}) \cup {[take |-> t, done |-> TRUE]}
      <4>1. now \in SUBSET Rows
        <5>1. db[table] \in SUBSET Rows
          BY DEF Types, Snapshots
        <5>2. [take |-> t, done |-> TRUE] \in Rows
          BY DEF Rows
        <5>. QED BY <5>1, <5>2
      <4>2. \A r \in db[table] : r.done => r \in now
        OBVIOUS
      <4>. QED BY <2>2, <4>1, <4>2 DEF UpdateRow
    <3>. QED BY <3>1 DEF Types, Snapshots
  <2>3. CASE CreateRecord(t)
    <3>1. [take |-> t, done |-> FALSE] \in Rows
      BY DEF Rows
    <3>. QED BY <2>3, <3>1 DEF CreateRecord, Types, Snapshots
  <2>. QED BY <1>1, <2>1, <2>2, <2>3 DEF StoreClip, AcceptClip, RejectClip, AppendLine, LinkRecord
<1>5. Linked(db, audio \cup overwritten, corpus)'
  <2>1. CASE StoreClip(t) \/ AppendLine(t)
    BY <2>1 DEF StoreClip, AppendLine, Linked, LiveOK
  <2>2. CASE RejectClip(t)
    <3>1. \A r \in db["turns"] : r.done /\ r.take = t => r = [take |-> t, done |-> TRUE]
      BY DEF Types, Snapshots, Rows
    <3>. QED BY <2>2, <3>1 DEF RejectClip, Linked, LiveOK
  <2>3. CASE AcceptClip(t)
    BY <2>3 DEF AcceptClip, UpdateRow, Linked, LiveOK, Types, Snapshots, Rows
  <2>4. CASE LinkRecord(t)
    BY <2>4 DEF LinkRecord, UpdateRow, Linked, LiveOK, Types, Snapshots, Rows
  <2>5. CASE CreateRecord(t)
    BY <2>5 DEF CreateRecord, Linked, LiveOK, Types, Snapshots, Rows
  <2>. QED BY <1>1, <2>1, <2>2, <2>3, <2>4, <2>5
<1>6. LiveOK'
  BY <1>2, <1>4, <1>5 DEF LiveOK, Types, Snapshots, Directories
<1>7. \A b \in Backups : Origin(b)'
  BY <1>2, <1>3, OriginSame
<1>8. Building'
  BY <1>2, <1>3, BuildingSame
<1>9. RestoredRowsHaveFiles' /\ Restoring'
  BY <1>2, <1>3 DEF RestoredRowsHaveFiles, Restoring
<1>. QED BY <1>2, <1>3, <1>4, <1>6, <1>7, <1>8, <1>9 DEF Types

LEMMA StartBackupKeepsInv == ASSUME BackupInv, NEW b \in Backups, StartBackup(b) PROVE BackupInv'
<1>1. Types'
  BY DEF StartBackup, Types, Directories
<1>2. LiveOK'
  BY DEF StartBackup, LiveOK, Types, Directories
<1>3. Building'
  BY DEF StartBackup, Building, Types, Directories
<1>4. ASSUME NEW a \in Backups PROVE Origin(a)'
  <2>1. CASE a = b
    BY <2>1 DEF StartBackup, Types, Directories, Origin, Building
  <2>2. CASE a # b
    BY <2>2, OriginSame DEF StartBackup, Types
  <2>. QED BY <2>1, <2>2
<1>5. Restoring' /\ RestoredRowsHaveFiles'
  BY DEF StartBackup, Restoring, RestoredRowsHaveFiles, Types
<1>. QED BY <1>1, <1>2, <1>3, <1>4, <1>5

LEMMA CountRowsKeepsInv == ASSUME BackupInv, CountRows PROVE BackupInv'
<1>1. Types'
  BY CountsTyped DEF CountRows, Types, Did, Then, Directories
<1>2. LiveOK'
  BY DEF CountRows, LiveOK, Types, Did, Directories
<1>3. Building'
  BY DEF CountRows, Building, Types, Did, Then, Directories
<1>4. \A b \in Backups : Origin(b)'
  BY OriginSame DEF CountRows, Types, Did, Then, Directories, Origin, Building
<1>5. Restoring' /\ RestoredRowsHaveFiles'
  BY DEF CountRows, Restoring, RestoredRowsHaveFiles, Types, Did, Then
<1>. QED BY <1>1, <1>2, <1>3, <1>4, <1>5

LEMMA DumpDatabaseKeepsInv == ASSUME BackupInv, DumpDatabase PROVE BackupInv'
<1>1. Types'
  BY DEF DumpDatabase, Types, Did, Then, Directories
<1>2. LiveOK'
  BY DEF DumpDatabase, LiveOK, Types, Did, Directories
<1>3. Building'
  BY DEF DumpDatabase, Building, Types, Did, Then, Directories
<1>4. ASSUME NEW a \in Backups PROVE Origin(a)'
  <2>1. CASE a = cur
    BY <2>1 DEF DumpDatabase, Did, Types, Directories, Origin, Building
  <2>2. CASE a # cur
    BY <2>2, OriginSame DEF DumpDatabase, Did, Types
  <2>. QED BY <2>1, <2>2
<1>5. Restoring' /\ RestoredRowsHaveFiles'
  BY DEF DumpDatabase, Restoring, RestoredRowsHaveFiles, Types, Did, Then
<1>. QED BY <1>1, <1>2, <1>3, <1>4, <1>5

LEMMA CopyClipsKeepsInv == ASSUME BackupInv, CopyClips PROVE BackupInv'
<1>1. Types'
  BY DEF CopyClips, Types, Did, Then, Directories
<1>2. LiveOK'
  BY DEF CopyClips, LiveOK, Types, Did, Directories
<1>3. Building'
  BY DEF CopyClips, Building, Types, Did, Then, Directories, LiveOK, Linked, Snapshots, Rows
<1>4. ASSUME NEW a \in Backups PROVE Origin(a)'
  <2>1. CASE a = cur
    BY <2>1 DEF CopyClips, Did, Types, Directories, Origin, Building
  <2>2. CASE a # cur
    BY <2>2, OriginSame DEF CopyClips, Did, Types
  <2>. QED BY <2>1, <2>2
<1>5. Restoring' /\ RestoredRowsHaveFiles'
  BY DEF CopyClips, Restoring, RestoredRowsHaveFiles, Types, Did, Then
<1>. QED BY <1>1, <1>2, <1>3, <1>4, <1>5

LEMMA CopyCorpusKeepsInv == ASSUME BackupInv, CopyCorpus PROVE BackupInv'
<1>1. Types'
  BY DEF CopyCorpus, Types, Did, Then, Directories
<1>2. LiveOK'
  BY DEF CopyCorpus, LiveOK, Types, Did, Directories
<1>3. Building'
  BY DEF CopyCorpus, Building, Types, Did, Then, Directories, LiveOK, Linked, Snapshots, Rows
<1>4. ASSUME NEW a \in Backups PROVE Origin(a)'
  <2>1. CASE a = cur
    BY <2>1 DEF CopyCorpus, Did, Types, Directories, Origin, Building
  <2>2. CASE a # cur
    BY <2>2, OriginSame DEF CopyCorpus, Did, Types
  <2>. QED BY <2>1, <2>2
<1>5. Restoring' /\ RestoredRowsHaveFiles'
  BY DEF CopyCorpus, Restoring, RestoredRowsHaveFiles, Types, Did, Then
<1>. QED BY <1>1, <1>2, <1>3, <1>4, <1>5

LEMMA WriteManifestKeepsInv == ASSUME BackupInv, WriteManifest PROVE BackupInv'
<1>. DEFINE m == [counts |-> counts, runtime |-> CopiedRuntime(cur), files |-> Cardinality(FilesOf(dir[cur]))]
<1>6. PICK s \in Snapshots : dir[cur].dump = {s}
  BY DEF WriteManifest, Did, Building
<1>7. FilesOf(dir[cur]) = FilesOf(Original(s, dir[cur].audio, dir[cur].corpus))
  BY <1>6 DEF FilesOf, Original
<1>8. m \in Manifests
  <2>1. dir[cur].audio \in SUBSET Takes /\ dir[cur].corpus \in SUBSET Takes
    BY DEF Types, Directories
  <2>2. Cardinality(FilesOf(dir[cur])) \in Nat
    BY <1>7, <2>1, FilesFinite, FS_CardinalityType
  <2>3. CopiedRuntime(cur) \in Nat \X Nat
    BY <2>1, RuntimeTyped DEF CopiedRuntime
  <2>. QED BY <2>2, <2>3 DEF Manifests, Types
<1>9. /\ step = "manifest" /\ step' = "sums" /\ dir' = [dir EXCEPT ![cur].manifest = {m}]
      /\ UNCHANGED <<live, cur, rehearsal, damaged, counts>>
  BY DEF WriteManifest, Did, Then
<1>. HIDE DEF m
<1>1. Types'
  BY <1>8, <1>9 DEF Types, Directories
<1>2. LiveOK'
  BY DEF WriteManifest, LiveOK, Types, Did, Directories
<1>3. Building'
  BY <1>6, <1>9 DEF Building, Types, Directories, Linked
<1>4. ASSUME NEW a \in Backups PROVE Origin(a)'
  <2>1. CASE a = cur
    <3>1. Linked(s, dir[cur].audio \cup overwritten, dir[cur].corpus)
      BY <1>6, <1>9 DEF Building, Linked
    <3>2. dir[cur].audio \in SUBSET Takes /\ dir[cur].corpus \in SUBSET Takes /\ dir[cur].sums = {}
      BY <1>9 DEF Types, Directories, Building
    <3>3. /\ dir'[cur].manifest = {m} /\ dir'[cur].dump = {s} /\ dir'[cur].sums = {}
          /\ FilesOf(dir'[cur]) = FilesOf(dir[cur])
      BY <1>6, <1>9, <3>2 DEF Types, Directories, FilesOf
    <3>4. m.files = Cardinality(FilesOf(dir[cur]))
      BY DEF m
    <3>5. PICK clips \in SUBSET Takes, lines \in SUBSET Takes :
              clips = dir[cur].audio /\ lines = dir[cur].corpus
      BY <3>2
    <3>6. /\ Linked(s, clips \cup overwritten', lines)
          /\ FilesOf(dir'[cur]) = FilesOf(Original(s, clips, lines))
          /\ \A k \in dir'[cur].manifest : k.files = Cardinality(FilesOf(Original(s, clips, lines)))
      BY <1>7, <1>9, <3>1, <3>3, <3>4, <3>5
    <3>7. dir'[cur].dump \subseteq {s} /\ dir'[cur].sums \subseteq FilesOf(Original(s, clips, lines))
      BY <3>3
    <3>8. \E o \in Snapshots, c \in SUBSET Takes, l \in SUBSET Takes :
            /\ Linked(o, c \cup overwritten', l)
            /\ dir'[cur].dump \subseteq {o}
            /\ dir'[cur].sums \subseteq FilesOf(Original(o, c, l))
            /\ \A k \in dir'[cur].manifest : k.files = Cardinality(FilesOf(Original(o, c, l)))
            /\ FilesOf(dir'[cur]) = FilesOf(Original(o, c, l))
      BY <3>6, <3>7
    <3>9. Origin(cur)' <=> Origin(a)'
      BY <1>9, <2>1
    <3>. HIDE DEF BackupInv
    <3>. QED BY <2>1, <3>8 DEF Origin
  <2>2. CASE a # cur
    BY <1>9, <2>2, OriginSame DEF Types
  <2>. QED BY <2>1, <2>2
<1>5. Restoring' /\ RestoredRowsHaveFiles'
  BY DEF WriteManifest, Restoring, RestoredRowsHaveFiles, Types, Did, Then
<1>. QED BY <1>1, <1>2, <1>3, <1>4, <1>5

LEMMA WriteChecksumsKeepsInv == ASSUME BackupInv, WriteChecksums PROVE BackupInv'
<1>6. PICK part \in SUBSET FilesOf(dir[cur]) : dir' = [dir EXCEPT ![cur].sums = part]
  BY DEF WriteChecksums
<1>7. /\ step = "sums" /\ step' = "idle" /\ counts' = NoCounts
      /\ UNCHANGED <<live, cur, rehearsal, damaged>>
  BY DEF WriteChecksums, Did, Then
<1>8. part \in SUBSET Files
  BY FilesTyped DEF Types
<1>1. Types'
  BY <1>6, <1>7, <1>8, NothingTyped DEF Types, Directories
<1>2. LiveOK'
  BY DEF WriteChecksums, LiveOK, Types, Did, Directories
<1>3. Building'
  BY DEF WriteChecksums, Building, Types, Did, Then, Directories
<1>4. ASSUME NEW a \in Backups PROVE Origin(a)'
  <2>1. CASE a = cur
    <3>1. dir'[cur].manifest = dir[cur].manifest /\ dir'[cur].dump = dir[cur].dump /\ dir'[cur].sums = part
      BY <1>6 DEF Types, Directories
    <3>2. Origin(cur)
      BY DEF Types
    <3>. QED BY <1>6, <1>7, <2>1, <3>1, <3>2 DEF Origin
  <2>2. CASE a # cur
    BY <1>6, <1>7, <2>2, OriginSame DEF Types
  <2>. QED BY <2>1, <2>2
<1>5. Restoring' /\ RestoredRowsHaveFiles'
  BY DEF WriteChecksums, Restoring, RestoredRowsHaveFiles, Types, Did, Then
<1>. QED BY <1>1, <1>2, <1>3, <1>4, <1>5

LEMMA CutChecksumsKeepsInv == ASSUME BackupInv, CutChecksums PROVE BackupInv'
<1>6. PICK part \in SUBSET FilesOf(dir[cur]) : dir' = [dir EXCEPT ![cur].sums = part]
  BY DEF CutChecksums
<1>7. /\ step = "sums" /\ step' = "idle" /\ counts' = NoCounts
      /\ UNCHANGED <<live, cur, rehearsal, damaged>>
  BY DEF CutChecksums, Did, Then
<1>8. part \in SUBSET Files
  BY FilesTyped DEF Types
<1>1. Types'
  BY <1>6, <1>7, <1>8, NothingTyped DEF Types, Directories
<1>2. LiveOK'
  BY DEF CutChecksums, LiveOK, Types, Did, Directories
<1>3. Building'
  BY DEF CutChecksums, Building, Types, Did, Then, Directories
<1>4. ASSUME NEW a \in Backups PROVE Origin(a)'
  <2>1. CASE a = cur
    <3>1. dir'[cur].manifest = dir[cur].manifest /\ dir'[cur].dump = dir[cur].dump /\ dir'[cur].sums = part
      BY <1>6 DEF Types, Directories
    <3>2. Origin(cur)
      BY DEF Types
    <3>. QED BY <1>6, <1>7, <2>1, <3>1, <3>2 DEF Origin
  <2>2. CASE a # cur
    BY <1>6, <1>7, <2>2, OriginSame DEF Types
  <2>. QED BY <2>1, <2>2
<1>5. Restoring' /\ RestoredRowsHaveFiles'
  BY DEF CutChecksums, Restoring, RestoredRowsHaveFiles, Types, Did, Then
<1>. QED BY <1>1, <1>2, <1>3, <1>4, <1>5

LEMMA DamageKeepsInv == ASSUME BackupInv, NEW b \in Backups, Damage(b) PROVE BackupInv'
<1>6. /\ \A a \in Backups \ {b} : dir'[a] = dir[a]
      /\ dir'[b].made = dir[b].made /\ dir'[b].manifest = dir[b].manifest /\ dir'[b].sums = dir[b].sums
      /\ dir'[b].dump \subseteq dir[b].dump
  BY DEF Damage, Types, Directories
<1>7. UNCHANGED <<live, script, rehearsal>> /\ dir[b].sums # {}
  BY DEF Damage
<1>1. Types'
  BY DEF Damage, Types, Directories
<1>2. LiveOK'
  BY DEF Damage, LiveOK, Types, Directories
<1>3. Building'
  <2>1. step \in BackupSteps => b # cur
    BY <1>7 DEF Building
  <2>2. \A a \in Backups : ~dir'[a].made => dir'[a].dump = {} /\ dir'[a].manifest = {} /\ dir'[a].sums = {}
    BY <1>6 DEF Building
  <2>3. step \in BackupSteps => dir'[cur] = dir[cur]
    BY <1>6, <2>1 DEF Types
  <2>4. \A a \in Backups : \A s, z \in dir'[a].dump : s = z
    BY <1>6 DEF Building
  <2>5. CASE step \in BackupSteps
    <3>1. dir'[cur] = dir[cur] /\ UNCHANGED <<step, cur, overwritten>>
      BY <1>7, <2>3, <2>5
    <3>. QED BY <2>2, <2>4, <3>1 DEF Building
  <2>6. CASE step \notin BackupSteps
    BY <1>7, <2>2, <2>4, <2>6 DEF Building
  <2>. QED BY <2>5, <2>6
<1>4. ASSUME NEW a \in Backups PROVE Origin(a)'
  <2>1. CASE a = b
    <3>1. ~(step = "sums" /\ cur = b)
      BY <1>7 DEF Building
    <3>. QED BY <1>6, <1>7, <2>1, <3>1 DEF Origin
  <2>2. CASE a # b
    BY <1>6, <1>7, <2>2, OriginSame
  <2>. QED BY <2>1, <2>2
<1>5. Restoring' /\ RestoredRowsHaveFiles'
  <2>1. dir'[cur].dump \subseteq dir[cur].dump /\ dir'[cur].manifest = dir[cur].manifest
    BY <1>6 DEF Types
  <2>. QED BY <1>7, <2>1 DEF Restoring, RestoredRowsHaveFiles
<1>. QED BY <1>1, <1>2, <1>3, <1>4, <1>5

LEMMA StartRestoreKeepsInv == ASSUME BackupInv, NEW b \in Backups, StartRestore(b) PROVE BackupInv'
<1>1. Types'
  BY DEF StartRestore, Types
<1>2. LiveOK'
  BY DEF StartRestore, LiveOK, Types
<1>3. Building'
  BY DEF StartRestore, Building, Types
<1>4. \A k \in Backups : Origin(k)'
  BY OriginSame DEF StartRestore, Types
<1>5. Restoring' /\ RestoredRowsHaveFiles'
  BY DEF StartRestore, Restoring, RestoredRowsHaveFiles, Types
<1>. QED BY <1>1, <1>2, <1>3, <1>4, <1>5

LEMMA ValidateRestoreKeepsInv == ASSUME BackupInv, ValidateRestore PROVE BackupInv'
<1>1. Types'
  BY DEF ValidateRestore, Types, GoOn, End
<1>2. LiveOK'
  BY DEF ValidateRestore, LiveOK, Types, GoOn, End
<1>3. Building'
  BY DEF ValidateRestore, Building, Types, GoOn, End
<1>4. \A b \in Backups : Origin(b)'
  BY OriginSame DEF ValidateRestore, Types, GoOn, End
<1>5. Restoring' /\ RestoredRowsHaveFiles'
  BY DEF ValidateRestore, Restoring, RestoredRowsHaveFiles, Types, GoOn, End
<1>. QED BY <1>1, <1>2, <1>3, <1>4, <1>5

LEMMA RequireEmptyDatabaseKeepsInv == ASSUME BackupInv, RequireEmptyDatabase PROVE BackupInv'
<1>1. Types'
  BY DEF RequireEmptyDatabase, Types, GoOn, End
<1>2. LiveOK'
  BY DEF RequireEmptyDatabase, LiveOK, Types, GoOn, End
<1>3. Building'
  BY DEF RequireEmptyDatabase, Building, Types, GoOn, End
<1>4. \A b \in Backups : Origin(b)'
  BY OriginSame DEF RequireEmptyDatabase, Types, GoOn, End
<1>5. Restoring' /\ RestoredRowsHaveFiles'
  BY DEF RequireEmptyDatabase, Restoring, RestoredRowsHaveFiles, Types, GoOn, End
<1>. QED BY <1>1, <1>2, <1>3, <1>4, <1>5

LEMMA LoadDumpKeepsInv == ASSUME BackupInv, LoadDump PROVE BackupInv'
<1>6. PICK s \in dir[cur].dump, done \in SUBSET Tables :
        target' = [target EXCEPT !.schema = TRUE, !.db = Loaded(s, done)]
  BY DEF LoadDump
<1>7. s \in Snapshots /\ \A d \in dir[cur].dump : d = s
  BY <1>6 DEF Building, Types, Directories
<1>8. \A table \in Tables : Loaded(s, done)[table] \in {{}, s[table]}
  BY DEF LoadDump, Loaded, Restoring, Nothing, Keys
<1>1. Types'
  BY <1>6, <1>7, <1>8 DEF LoadDump, Types, Loaded, Snapshots
<1>2. LiveOK'
  BY DEF LoadDump, LiveOK, Types
<1>3. Building'
  BY DEF LoadDump, Building, Types
<1>4. \A b \in Backups : Origin(b)'
  BY OriginSame DEF LoadDump, Types
<1>5. Restoring' /\ RestoredRowsHaveFiles'
  <2>1. PartOfDump'
    BY <1>6, <1>7, <1>8 DEF LoadDump, Types
  <2>2. target'.schema /\ target'.db = Loaded(s, done)
    BY <1>6 DEF Types
  <2>. QED BY <2>1, <2>2 DEF LoadDump, Restoring, RestoredRowsHaveFiles
<1>. QED BY <1>1, <1>2, <1>3, <1>4, <1>5

LEMMA CopyBackKeepsInv == ASSUME BackupInv, CopyBack PROVE BackupInv'
<1>1. Types'
  BY DEF CopyBack, Types, Directories
<1>2. LiveOK'
  BY DEF CopyBack, LiveOK, Types
<1>3. Building'
  BY DEF CopyBack, Building, Types
<1>4. \A b \in Backups : Origin(b)'
  BY OriginSame DEF CopyBack, Types
<1>5. Restoring' /\ RestoredRowsHaveFiles'
  BY DEF CopyBack, Restoring, RestoredRowsHaveFiles, Types
<1>. QED BY <1>1, <1>2, <1>3, <1>4, <1>5

LEMMA QueryRestoredKeepsInv == ASSUME BackupInv, QueryRestored PROVE BackupInv'
<1>1. Types'
  BY CountsTyped DEF QueryRestored, Types
<1>2. LiveOK'
  BY DEF QueryRestored, LiveOK, Types
<1>3. Building'
  BY DEF QueryRestored, Building, Types
<1>4. \A b \in Backups : Origin(b)'
  BY OriginSame DEF QueryRestored, Types
<1>5. Restoring' /\ RestoredRowsHaveFiles'
  BY DEF QueryRestored, Restoring, RestoredRowsHaveFiles, Types
<1>. QED BY <1>1, <1>2, <1>3, <1>4, <1>5

LEMMA VerifyRestoreKeepsInv == ASSUME BackupInv, VerifyRestore PROVE BackupInv'
<1>1. Types'
  BY NothingTyped DEF VerifyRestore, Types, End
<1>2. LiveOK'
  BY DEF VerifyRestore, LiveOK, Types, GoOn, End
<1>3. Building'
  BY DEF VerifyRestore, Building, Types, GoOn, End
<1>4. \A b \in Backups : Origin(b)'
  BY OriginSame DEF VerifyRestore, Types, GoOn, End
<1>5. RestoredRowsHaveFiles'
  <2>. SUFFICES ASSUME verdict' = "pass"
                PROVE  RestoredRowsHaveFiles'
    BY DEF RestoredRowsHaveFiles
  <2>1. step = "verify" /\ Matches(cur) /\ UNCHANGED <<target, overwritten>>
    BY DEF VerifyRestore, End
  <2>2. PICK s \in Snapshots :
            dir[cur].dump = {s} /\ Linked(s, dir[cur].audio \cup overwritten, dir[cur].corpus)
    BY <2>1, SourceIntact DEF Matches, Types
  <2>3. \A table \in Tables : target.db[table] \subseteq s[table]
    BY <2>1, <2>2 DEF Restoring
  <2>4. /\ \A t \in dir[cur].audio : t \in target.audio
        /\ dir[cur].corpus # {} => target.corpus = dir[cur].corpus
    <3>. DEFINE restored == [dump |-> {}, audio |-> target.audio, corpus |-> target.corpus]
    <3>1. {f \in FilesOf(dir[cur]) : f[1] # "dump"} = FilesOf(restored)
      BY <2>1 DEF Matches, RuntimeRestored, SourceVerified, Indexed
    <3>2. /\ \A t : <<"clip", t>> \in FilesOf(dir[cur]) => <<"clip", t>> \in FilesOf(restored)
          /\ \A l : <<"shard", l>> \in FilesOf(dir[cur]) => <<"shard", l>> \in FilesOf(restored)
      BY <3>1
    <3>3. restored.audio = target.audio /\ restored.corpus = target.corpus
      OBVIOUS
    <3>. HIDE DEF restored
    <3>. QED BY <3>2, <3>3, FilesMembers
  <2>. QED BY <2>1, <2>2, <2>3, <2>4 DEF RestoredRowsHaveFiles, Linked
<1>6. Restoring'
  BY DEF VerifyRestore, End, Matches, Restoring, Types
<1>. QED BY <1>1, <1>2, <1>3, <1>4, <1>5, <1>6

LEMMA ScriptFailsKeepsInv == ASSUME BackupInv, ScriptFails PROVE BackupInv'
<1>1. Types'
  BY NothingTyped DEF ScriptFails, Types
<1>2. LiveOK'
  BY DEF ScriptFails, LiveOK, Types
<1>3. Building'
  BY DEF ScriptFails, Building, Types
<1>4. \A b \in Backups : Origin(b)'
  BY OriginSame DEF ScriptFails, Types
<1>5. Restoring' /\ RestoredRowsHaveFiles'
  BY DEF ScriptFails, Restoring, RestoredRowsHaveFiles, Types
<1>. QED BY <1>1, <1>2, <1>3, <1>4, <1>5

LEMMA NewTargetKeepsInv == ASSUME BackupInv, NewTarget PROVE BackupInv'
<1>1. Types'
  BY NothingTyped DEF NewTarget, Types
<1>2. LiveOK'
  BY DEF NewTarget, LiveOK, Types
<1>3. Building'
  BY DEF NewTarget, Building, Types
<1>4. \A b \in Backups : Origin(b)'
  BY OriginSame DEF NewTarget, Types
<1>5. Restoring' /\ RestoredRowsHaveFiles'
  BY DEF NewTarget, Restoring, RestoredRowsHaveFiles, Types, Nothing
<1>. QED BY <1>1, <1>2, <1>3, <1>4, <1>5

-----------------------------------------------------------------------------
LEMMA BackupInit == Init => BackupInv
<1>. SUFFICES ASSUME Init PROVE BackupInv
  OBVIOUS
<1>1. Types
  <2>1. db \in Snapshots
    <3>1. {[take |-> t, done |-> FALSE] : t \in Takes} \in SUBSET Rows
      <4>1. \A t \in Takes : [take |-> t, done |-> FALSE] \in Rows
        BY DEF Rows
      <4>. QED BY <4>1
    <3>. QED BY <3>1 DEF Init, Snapshots
  <2>2. dir \in [Backups -> Directories]
    BY DEF Init, Directories
  <2>3. target \in [schema : BOOLEAN, db : Snapshots, audio : SUBSET Takes, corpus : SUBSET Takes]
    BY NothingTyped DEF Init
  <2>. QED BY <2>1, <2>2, <2>3, NothingTyped DEF Init, Types
<1>2. LiveOK /\ Building /\ \A b \in Backups : Origin(b)
  BY DEF Init, LiveOK, Building, Origin, Linked, Snapshots, Rows
<1>3. Restoring /\ RestoredRowsHaveFiles
  BY DEF Init, Restoring, RestoredRowsHaveFiles
<1>. QED BY <1>1, <1>2, <1>3

LEMMA BackupStepKeepsInv == BackupInv /\ [Next]_vars => BackupInv'
<1>. SUFFICES ASSUME BackupInv, [Next]_vars
              PROVE  BackupInv'
  OBVIOUS
<1>1. CASE UNCHANGED vars
  <2>1. UNCHANGED <<db, audio, corpus, overwritten, step, cur, counts, dir, target, verdict>>
    BY <1>1 DEF vars
  <2>. QED BY <2>1, OriginSame, BuildingSame DEF Types, LiveOK, Restoring, RestoredRowsHaveFiles
<1>. HIDE DEF BackupInv
<1>2. CASE \E b \in Backups : StartBackup(b) \/ StartRestore(b) \/ Damage(b)
  BY <1>2, StartBackupKeepsInv, StartRestoreKeepsInv, DamageKeepsInv
<1>3. CASE BackupStep
  BY <1>3, CountRowsKeepsInv, DumpDatabaseKeepsInv, CopyClipsKeepsInv, CopyCorpusKeepsInv,
     WriteManifestKeepsInv, WriteChecksumsKeepsInv, CutChecksumsKeepsInv DEF BackupStep
<1>4. CASE RestoreStep
  BY <1>4, ValidateRestoreKeepsInv, RequireEmptyDatabaseKeepsInv, LoadDumpKeepsInv,
     CopyBackKeepsInv, QueryRestoredKeepsInv, VerifyRestoreKeepsInv DEF RestoreStep
<1>. QED BY <1>1, <1>2, <1>3, <1>4, LiveWriteKeepsInv, ScriptFailsKeepsInv, NewTargetKeepsInv DEF Next

LEMMA BackupInvariant == Spec => []BackupInv
<1>. HIDE DEF BackupInv
<1>. QED BY BackupInit, BackupStepKeepsInv, PTL DEF Spec

\* Every row of a rehearsal that passed finds its clip and its corpus line, though
\* the system went on writing during the backup (neva-ops.sh dumps, then copies).
THEOREM PassedRestoreIsUsable == Spec => []RestoredRowsHaveFiles
<1>1. BackupInv => RestoredRowsHaveFiles
  OBVIOUS
<1>. HIDE DEF BackupInv
<1>. QED BY <1>1, BackupInvariant, PTL

\* A table of which the load left nothing has no rows in the dump if the counts
\* agree, so a pass with the counts of the dump means the whole dump.
THEOREM PassedRestoreIsWhole == Spec => []PassMeansWhole
<1>1. BackupInv => PassMeansWhole
  <2>. SUFFICES ASSUME BackupInv, verdict = "pass", Quiet(cur), NEW s \in dir[cur].dump
                PROVE  target.db = s
    BY DEF PassMeansWhole
  <2>1. PICK m \in dir[cur].manifest : m.counts = CountsOf(target.db)
    BY DEF Restoring
  <2>2. CountsOf(target.db) = CountsOf(s)
    BY <2>1 DEF Quiet
  <2>3. s \in Snapshots /\ target.db \in Snapshots
    BY DEF Types, Directories
  <2>4. ASSUME NEW table \in Tables
        PROVE  target.db[table] = s[table]
    <3>1. Cardinality(target.db[table]) = Cardinality(s[table])
      BY <2>2 DEF CountsOf
    <3>2. target.db[table] \in {{}, s[table]}
      BY DEF Restoring
    <3>3. IsFiniteSet(s[table])
      BY <2>3, RowsFinite DEF Snapshots
    <3>. QED BY <3>1, <3>2, <3>3, FS_EmptySet
  <2>. HIDE DEF BackupInv
  <2>. QED BY <2>3, <2>4 DEF Snapshots
<1>. HIDE DEF BackupInv
<1>. QED BY <1>1, BackupInvariant, PTL

-----------------------------------------------------------------------------
(* No false alarm *)

\* The numbers of a manifest are those of the files beside it.
Sound(b) ==
    \A m \in dir[b].manifest :
        /\ dir[b].dump # {}
        /\ m.files = Cardinality(FilesOf(dir[b]))
        /\ m.runtime = RuntimeCounts(dir[b].audio, dir[b].corpus)

\* A rehearsal of an undamaged backup restores it: into nothing, and all of it.
Rehearsed ==
    /\ step \in {"preflight", "load", "files"} => EmptyDestination
    /\ step \in {"files", "query", "verify"} /\ ~skipped /\ cur \notin damaged =>
        \A s \in dir[cur].dump : target.db = s
    /\ step \in {"query", "verify"} /\ cur \notin damaged =>
        target.audio = dir[cur].audio /\ target.corpus = dir[cur].corpus

HonestInv ==
    /\ \A b \in Backups : b \notin damaged => Sound(b)
    /\ Rehearsed
    /\ NoFalseAlarm

USE DEF HonestInv, Rehearsed

LEMMA HonestInit == Init => HonestInv
BY DEF Init, Sound, NoFalseAlarm

\* Steps that change no backup that counts, or one that is being written.
LEMMA SoundSame ==
    ASSUME HonestInv, damaged \subseteq damaged',
           \A b \in Backups : b \notin damaged' => dir'[b] = dir[b] \/ dir'[b].manifest = {}
    PROVE  \A b \in Backups : b \notin damaged' => Sound(b)'
BY DEF Sound

\* Commands of the backup script: there is no verdict, and no rehearsal.
LEMMA WritingIsHonest ==
    ASSUME BackupInv, HonestInv, UNCHANGED <<damaged, verdict>>,
           step \in BackupSteps, step' \in BackupSteps \cup {"idle"},
           \A b \in Backups : b \notin damaged => Sound(b)'
    PROVE  HonestInv'
BY DEF Restoring, NoFalseAlarm

LEMMA BackupIsHonest == ASSUME BackupInv, HonestInv, BackupStep PROVE HonestInv'
<1>1. step \in BackupSteps /\ step' \in BackupSteps \cup {"idle"} /\ UNCHANGED <<damaged, verdict, cur>>
  BY DEF BackupStep, CountRows, DumpDatabase, CopyClips, CopyCorpus, WriteManifest,
         WriteChecksums, CutChecksums, Did, Then
<1>2. \A b \in Backups : b \notin damaged => Sound(b)'
  <2>1. CASE CountRows \/ DumpDatabase \/ CopyClips \/ CopyCorpus
    <3>1. step \in BackupSteps \ {"sums"} /\ \A b \in Backups \ {cur} : dir'[b] = dir[b]
      BY <2>1 DEF CountRows, DumpDatabase, CopyClips, CopyCorpus, Did, Types
    <3>2. dir'[cur].manifest = dir[cur].manifest
      BY <2>1 DEF CountRows, DumpDatabase, CopyClips, CopyCorpus, Did, Types, Directories
    <3>3. dir'[cur].manifest = {}
      BY <3>1, <3>2 DEF Building
    <3>. QED BY <1>1, <3>1, <3>3, SoundSame
  <2>2. CASE WriteManifest
    <3>. DEFINE m == [counts |-> counts, runtime |-> CopiedRuntime(cur),
                      files |-> Cardinality(FilesOf(dir[cur]))]
    <3>1. step = "manifest" /\ dir' = [dir EXCEPT ![cur].manifest = {m}]
      BY <2>2 DEF WriteManifest, Did
    <3>2. /\ dir'[cur].manifest = {m}
          /\ dir'[cur].dump = dir[cur].dump /\ dir'[cur].audio = dir[cur].audio
          /\ dir'[cur].corpus = dir[cur].corpus
      BY <3>1 DEF Types, Directories
    <3>3. dir[cur].dump # {}
      BY <3>1 DEF Building
    <3>4. FilesOf(dir'[cur]) = FilesOf(dir[cur])
      BY <3>2 DEF FilesOf
    <3>5. Sound(cur)'
      BY <1>1, <3>2, <3>3, <3>4 DEF Sound, CopiedRuntime
    <3>6. \A b \in Backups \ {cur} : dir'[b] = dir[b]
      BY <3>1 DEF Types
    <3>. QED BY <1>1, <3>5, <3>6 DEF Sound
  <2>3. CASE WriteChecksums \/ CutChecksums
    <3>1. PICK part : dir' = [dir EXCEPT ![cur].sums = part]
      BY <2>3 DEF WriteChecksums, CutChecksums
    <3>2. \A b \in Backups : /\ dir'[b].manifest = dir[b].manifest /\ dir'[b].dump = dir[b].dump
                             /\ dir'[b].audio = dir[b].audio /\ dir'[b].corpus = dir[b].corpus
      BY <3>1 DEF Types, Directories
    <3>3. \A b \in Backups : FilesOf(dir'[b]) = FilesOf(dir[b])
      BY <3>2 DEF FilesOf
    <3>. QED BY <1>1, <3>2, <3>3 DEF Sound
  <2>. QED BY <2>1, <2>2, <2>3 DEF BackupStep
<1>. QED BY <1>1, <1>2, WritingIsHonest

\* An undamaged backup that was finished verifies.
LEMMA FinishedVerifies ==
    ASSUME Types, Sound(cur), dir[cur].manifest # {}, dir[cur].sums = FilesOf(dir[cur])
    PROVE  SourceVerified(cur)
<1>1. PICK m \in dir[cur].manifest : TRUE
  OBVIOUS
<1>2. PICK s \in dir[cur].dump : TRUE
  BY <1>1 DEF Sound
<1>3. <<"dump", s>> \in FilesOf(dir[cur])
  BY <1>2, FilesMembers
<1>. QED BY <1>1, <1>2, <1>3 DEF Sound, SourceVerified

LEMMA ValidateIsHonest == ASSUME BackupInv, HonestInv, ValidateRestore PROVE HonestInv'
<1>1. UNCHANGED <<cur, dir, target, skipped, damaged>> /\ cur \in Backups
  BY DEF ValidateRestore, Types
<1>2. \A b \in Backups : b \notin damaged => Sound(b)'
  BY <1>1, SoundSame
<1>3. CASE ~EmptyDestination
  BY <1>1, <1>2, <1>3 DEF ValidateRestore, End, NoFalseAlarm
<1>4. CASE EmptyDestination /\ SourceVerified(cur)
  BY <1>1, <1>2, <1>4 DEF ValidateRestore, GoOn, NoFalseAlarm, Restoring
<1>5. CASE EmptyDestination /\ ~SourceVerified(cur)
  <2>1. cur \in damaged \/ dir[cur].manifest = {} \/ dir[cur].sums # FilesOf(dir[cur])
    BY <1>1, <1>5, FinishedVerifies
  <2>2. step' = "idle"
    BY <1>5 DEF ValidateRestore, End
  <2>. QED BY <1>1, <1>2, <2>1, <2>2 DEF NoFalseAlarm
<1>. QED BY <1>3, <1>4, <1>5

LEMMA LoadIsHonest == ASSUME BackupInv, HonestInv, LoadDump PROVE HonestInv'
<1>1. PICK s \in dir[cur].dump, done \in SUBSET Tables :
        /\ target' = [target EXCEPT !.schema = TRUE, !.db = Loaded(s, done)]
        /\ \/ step' = "files" /\ skipped' = (done # Tables)
           \/ step' = "idle" /\ UNCHANGED skipped
  BY DEF LoadDump
<1>2. UNCHANGED <<cur, dir, damaged, verdict>> /\ step = "load"
  BY DEF LoadDump
<1>3. target'.db = Loaded(s, done) /\ target'.audio = target.audio /\ target'.corpus = target.corpus
  BY <1>1 DEF Types
<1>4. s \in Snapshots /\ \A d \in dir[cur].dump : d = s
  BY <1>1 DEF Building, Types, Directories
<1>5. done = Tables => Loaded(s, done) = s
  <2>1. \A table \in Tables : target.db[table] = {}
    BY <1>2 DEF Restoring, Nothing
  <2>2. ASSUME done = Tables, NEW table \in Tables
        PROVE  Loaded(s, done)[table] = s[table]
    BY <2>1, <2>2 DEF Loaded, Keys
  <2>. QED BY <1>4, <2>2 DEF Loaded, Snapshots
<1>6. \A b \in Backups : b \notin damaged' => Sound(b)'
  BY <1>2, SoundSame
<1>. QED BY <1>1, <1>2, <1>3, <1>4, <1>5, <1>6 DEF NoFalseAlarm, Restoring

LEMMA CopyBackIsHonest == ASSUME BackupInv, HonestInv, CopyBack PROVE HonestInv'
<1>1. UNCHANGED <<cur, dir, damaged, verdict, skipped>> /\ step = "files"
  BY DEF CopyBack
<1>2. \A b \in Backups : b \notin damaged' => Sound(b)'
  BY <1>1, SoundSame
<1>3. CASE step' = "query"
  <2>1. target' = [target EXCEPT !.audio = @ \cup dir[cur].audio, !.corpus = dir[cur].corpus]
    BY <1>3 DEF CopyBack
  <2>2. target'.db = target.db /\ target'.audio = dir[cur].audio /\ target'.corpus = dir[cur].corpus
    BY <1>1, <2>1 DEF Types
  <2>. QED BY <1>1, <1>2, <1>3, <2>2 DEF NoFalseAlarm, Restoring
<1>4. CASE step' = "idle"
  BY <1>1, <1>2, <1>4 DEF NoFalseAlarm, Restoring
<1>. QED BY <1>3, <1>4 DEF CopyBack

\* What was restored in full from a sound source matches it.
LEMMA VerifyIsHonest == ASSUME BackupInv, HonestInv, VerifyRestore PROVE HonestInv'
<1>1. /\ UNCHANGED <<cur, dir, target, skipped, damaged>> /\ cur \in Backups
      /\ step = "verify" /\ step' = "idle" /\ verdict' = Report(cur)
  BY DEF VerifyRestore, End, Types
<1>2. \A b \in Backups : b \notin damaged' => Sound(b)'
  BY <1>1, SoundSame
<1>3. ASSUME cur \notin damaged, ~skipped, dir[cur].manifest # {},
             dir[cur].sums = FilesOf(dir[cur]), Quiet(cur)
      PROVE  Matches(cur)
  <2>1. SourceVerified(cur)
    BY <1>1, <1>3, FinishedVerifies
  <2>2. RuntimeRestored(cur)
    <3>. DEFINE restored == [dump |-> {}, audio |-> target.audio, corpus |-> target.corpus]
    <3>1. restored.dump = {} /\ restored.audio = dir[cur].audio /\ restored.corpus = dir[cur].corpus
      BY <1>1, <1>3
    <3>. HIDE DEF restored
    <3>2. FilesOf(restored) = {f \in FilesOf(dir[cur]) : f[1] # "dump"}
      BY <3>1 DEF FilesOf
    <3>. QED BY <1>3, <3>2 DEF Indexed, restored
  <2>3. RowsRestored(cur)
    <3>1. PICK m \in dir[cur].manifest : TRUE
      BY <1>3
    <3>2. PICK s \in dir[cur].dump : TRUE
      BY <1>1, <1>3, <3>1 DEF Sound
    <3>3. m.counts = CountsOf(s) /\ target.db = s /\ counts = CountsOf(target.db)
      BY <1>1, <1>3, <3>1, <3>2 DEF Quiet, Restoring
    <3>. QED BY <3>1, <3>3
  <2>. QED BY <2>1, <2>2, <2>3 DEF Matches
<1>. QED BY <1>1, <1>2, <1>3 DEF NoFalseAlarm, Quiet

LEMMA RestoreIsHonest == ASSUME BackupInv, HonestInv, RestoreStep PROVE HonestInv'
<1>1. CASE RequireEmptyDatabase
  <2>1. UNCHANGED <<cur, dir, target, skipped, damaged>> /\ step = "preflight" /\ step' \in {"idle", "load"}
        /\ verdict' \in {verdict, "not fresh"}
    BY <1>1 DEF RequireEmptyDatabase, GoOn, End
  <2>2. \A b \in Backups : b \notin damaged' => Sound(b)'
    BY <2>1, SoundSame
  <2>. QED BY <2>1, <2>2 DEF NoFalseAlarm, Restoring
<1>2. CASE QueryRestored
  <2>1. UNCHANGED <<cur, dir, target, skipped, damaged, verdict>> /\ step = "query" /\ step' = "verify"
    BY <1>2 DEF QueryRestored
  <2>2. \A b \in Backups : b \notin damaged' => Sound(b)'
    BY <2>1, SoundSame
  <2>. QED BY <2>1, <2>2 DEF NoFalseAlarm, Restoring
<1>. HIDE DEF BackupInv, HonestInv
<1>. QED BY <1>1, <1>2, ValidateIsHonest, LoadIsHonest, CopyBackIsHonest, VerifyIsHonest DEF RestoreStep

\* Damage is marked, and a refusal is not taken back by it.
LEMMA DamageIsHonest == ASSUME BackupInv, HonestInv, NEW b \in Backups, Damage(b) PROVE HonestInv'
<1>1. /\ damaged' = damaged \cup {b} /\ UNCHANGED <<script, rehearsal>>
      /\ \A a \in Backups \ {b} : dir'[a] = dir[a]
  BY DEF Damage, Types
<1>2. \A a \in Backups : a \notin damaged' => Sound(a)'
  BY <1>1, SoundSame
<1>3. cur \in damaged' \/ dir'[cur] = dir[cur]
  BY <1>1 DEF Types
<1>4. Rehearsed'
  BY <1>1, <1>3
<1>5. NoFalseAlarm'
  <2>1. UNCHANGED <<step, cur, target, skipped, verdict>>
    BY DEF Damage
  <2>2. CASE cur \in damaged'
    BY <2>1, <2>2 DEF NoFalseAlarm, Quiet
  <2>3. CASE cur \notin damaged'
    BY <1>1, <1>3, <2>1, <2>3 DEF NoFalseAlarm, Quiet
  <2>. QED BY <2>2, <2>3
<1>. QED BY <1>2, <1>4, <1>5

LEMMA StartIsHonest ==
    ASSUME BackupInv, HonestInv, NEW b \in Backups, StartBackup(b) \/ StartRestore(b)
    PROVE  HonestInv'
<1>1. /\ UNCHANGED damaged /\ verdict' = "none" /\ step' \in {"counts", "validate"}
      /\ \A a \in Backups : dir'[a] = dir[a] \/ dir'[a].manifest = {}
  BY DEF StartBackup, StartRestore, Building, Types, Directories
<1>2. \A a \in Backups : a \notin damaged' => Sound(a)'
  BY <1>1, SoundSame
<1>. QED BY <1>1, <1>2 DEF NoFalseAlarm

LEMMA HonestStep == BackupInv /\ HonestInv /\ [Next]_vars => HonestInv'
<1>. SUFFICES ASSUME BackupInv, HonestInv, [Next]_vars
              PROVE  HonestInv'
  OBVIOUS
<1>1. CASE LiveWrite \/ UNCHANGED vars
  BY <1>1 DEF LiveWrite, vars, Sound, NoFalseAlarm, Quiet
<1>2. CASE ScriptFails
  <2>1. UNCHANGED <<cur, dir, target, verdict, skipped, damaged>> /\ step # "idle" /\ step' = "idle"
    BY <1>2 DEF ScriptFails
  <2>2. \A b \in Backups : b \notin damaged' => Sound(b)'
    BY <2>1, SoundSame
  <2>. QED BY <2>1, <2>2 DEF NoFalseAlarm, Restoring
<1>3. CASE NewTarget
  <2>1. UNCHANGED <<cur, dir, damaged, step>> /\ step = "idle" /\ verdict' = "none"
    BY <1>3 DEF NewTarget
  <2>2. \A b \in Backups : b \notin damaged' => Sound(b)'
    BY <2>1, SoundSame
  <2>. QED BY <2>1, <2>2 DEF NoFalseAlarm
<1>. HIDE DEF BackupInv, HonestInv
<1>. QED BY <1>1, <1>2, <1>3, BackupIsHonest, RestoreIsHonest, DamageIsHonest, StartIsHonest DEF Next

\* A rehearsal only refuses, or reports a mismatch, for a reason: the backup was
\* damaged or never finished, a statement of its dump failed, or rows were inserted
\* between the counts and the dump (verify_backup_source, verify-restore).
THEOREM RefusalsAreEarned == Spec => []NoFalseAlarm
<1>1. HonestInv => NoFalseAlarm
  OBVIOUS
<1>. HIDE DEF BackupInv, HonestInv
<1>2. Spec => []HonestInv
  BY HonestInit, HonestStep, BackupInvariant, PTL DEF Spec
<1>. QED BY <1>1, <1>2, PTL

=============================================================================
