----------------------------- MODULE TuneArtifacts -----------------------------
(***************************************************************************)
(* The files of the fine-tuning harness and the programs that read and     *)
(* write them with no lock between them: the worker appends to the corpus, *)
(* prepare splits it, train and compare use the split, the supervisor      *)
(* publishes what it finds and the API decides whether that is ready.      *)
(*                                                                         *)
(* The corpus is its first n eligible records, so a file derived from it   *)
(* is known by the n it was derived from; equal hashes are equal contents. *)
(* One preparation, one training and one comparison run at a time, each    *)
(* started by hand.  Reading one JSON file and hashing one prepared        *)
(* directory are single steps.  The supervisor's queue is in TuneQueue,    *)
(* with which this module shares no name.                                  *)
(***************************************************************************)
EXTENDS Integers, FiniteSets, FiniteSetsExt

CONSTANTS First, Last,      \* records in the corpus at the start, and at most
          Languages,
          LangOf, Order,    \* record -> language, record -> its place by hash
          LangOrder,        \* language -> its place by hash
          HoldNum, HoldDen, \* holdout_fraction
          Approved,         \* approved_sample_ids, all of them predicted
          MaxPrepares, MaxTrainings

ASSUME TuneArtifactsConstants ==
    /\ First \in Nat \ {0} /\ Last \in Nat /\ First <= Last
    /\ LangOf \in [1..Last -> Languages] /\ Order \in [1..Last -> Nat]
    /\ LangOrder \in [Languages -> Nat]
    /\ HoldDen \in Nat \ {0} /\ HoldNum \in 0..HoldDen
    /\ Approved \subseteq 1..Last
    /\ {MaxPrepares, MaxTrainings} \subseteq Nat

VARIABLES
    corpus,         \* records in the JSONL shards
    train, holdout, \* train.jsonl, holdout.jsonl: what they were split from
    dm,             \* dataset_manifest.json
    checkpoints,    \* output/checkpoints: what each learnt, and for which manifest
    adapter,        \* output/adapter: the splits it learnt, and which run saved it
    am,             \* artifact_manifest.json
    overview        \* what the API makes of published/overview.json

VARIABLES
    prep,           \* tune.prepare: its step, and the rows it holds
    trainer,        \* tune.train: its step, rows and manifest in memory
    cmp,            \* tune.compare: its step and rows, what it validated, what it loaded
    publisher,      \* publish_overview: its step and what it has gathered
    prepares, trainings

artifacts == <<corpus, train, holdout, dm, checkpoints, adapter, am, overview>>
procs == <<prep, trainer, cmp, publisher, prepares, trainings>>
artifactVars == <<artifacts, procs>>

Absent == 0
Torn == Last + 1            \* being rewritten, or left so by an interrupted run
NoDm == [run |-> 0, source |-> Absent, train |-> Absent, holdout |-> Absent]
\* Weights are known by the splits they learnt.  History: mixed, a preparation finished
\* between the reading of the rows and the check of their hashes; carried, a training
\* went on from a checkpoint that another split's manifest was used for.
BaseModel == [learnt |-> {}, split |-> Absent, mixed |-> FALSE, carried |-> FALSE]
NoAdapter == [learnt |-> {}, run |-> 0, mixed |-> FALSE, carried |-> FALSE]
NoAm == [dmRun |-> 0, source |-> Absent, train |-> Absent, holdout |-> Absent, adapter |-> 0]
NotReady == [ready |-> FALSE]
Resting == [at |-> "idle"]

------------------------------------------------------------------------------
(* deterministic_stratified_split, of the first n records.                 *)

Group(n, l) == {r \in 1..n : LangOf[r] = l}
Present(n) == {l \in Languages : Group(n, l) # {}}
Whole(n, l) == (Cardinality(Group(n, l)) * HoldNum) \div HoldDen
Part(n, l) == (Cardinality(Group(n, l)) * HoldNum) % HoldDen
Target(n) == (2 * n * HoldNum + HoldDen) \div (2 * HoldDen)

WholeSum(n) == MapThenSumSet(LAMBDA l : Whole(n, l), Present(n))

\* Languages by largest remainder, ties by hash.
Before(n, m, l) == \/ Part(n, m) > Part(n, l)
                   \/ Part(n, m) = Part(n, l) /\ LangOrder[m] < LangOrder[l]
Place(n, l) == Cardinality({m \in Present(n) : Before(n, m, l)})

Quota(n, l) ==
    Whole(n, l) + (IF Place(n, l) < Target(n) - WholeSum(n) THEN 1 ELSE 0)

Held(n) == {r \in 1..n :
              Cardinality({q \in Group(n, LangOf[r]) : Order[q] < Order[r]}) < Quota(n, LangOf[r])}
Kept(n) == (1..n) \ Held(n)

ArtifactsInit ==
    /\ corpus = First
    /\ train = Absent /\ holdout = Absent /\ dm = NoDm
    /\ checkpoints = {} /\ adapter = NoAdapter /\ am = NoAm
    /\ overview = NotReady
    /\ prep = Resting /\ trainer = Resting /\ cmp = Resting /\ publisher = Resting
    /\ prepares = 0 /\ trainings = 0

\* The worker's exporter.
Append ==
    /\ corpus < Last
    /\ corpus' = corpus + 1
    /\ UNCHANGED <<train, holdout, dm, checkpoints, adapter, am, overview, procs>>

------------------------------------------------------------------------------
(* tune.prepare.                                                           *)

\* A preparation has finished under a reader that has its rows but has not compared
\* them with the manifest yet.
Mix(p) == IF p.at = "read" THEN [p EXCEPT !.mixed = TRUE] ELSE p

PrepareReads ==
    /\ prep.at = "idle"
    /\ prepares < MaxPrepares
    /\ prepares' = prepares + 1
    /\ prep' = [at |-> "read", rows |-> corpus]
    /\ UNCHANGED <<artifacts, trainer, cmp, publisher, trainings>>

PrepareWrites ==
    /\ \/ /\ prep.at = "read" /\ train' = Torn
          /\ prep' = [prep EXCEPT !.at = "train"]
          /\ UNCHANGED <<holdout, dm, trainer, cmp>>
       \/ /\ prep.at = "train" /\ train' = prep.rows /\ holdout' = Torn
          /\ prep' = [prep EXCEPT !.at = "holdout"]
          /\ UNCHANGED <<dm, trainer, cmp>>
       \/ /\ prep.at = "holdout" /\ holdout' = prep.rows
          /\ prep' = [prep EXCEPT !.at = "manifest"]
          /\ UNCHANGED <<train, dm, trainer, cmp>>
       \/ /\ prep.at = "manifest"       \* the shards are hashed only now
          /\ dm' = [run |-> prepares, source |-> corpus, train |-> train, holdout |-> holdout]
          /\ prep' = Resting
          /\ trainer' = Mix(trainer) /\ cmp' = Mix(cmp)
          /\ UNCHANGED <<train, holdout>>
    /\ UNCHANGED <<corpus, checkpoints, adapter, am, overview, publisher, prepares, trainings>>

\* Interrupted, or the corpus has an unreadable line.
PrepareStops ==
    /\ prep.at # "idle"
    /\ prep' = Resting
    /\ UNCHANGED <<artifacts, trainer, cmp, publisher, prepares, trainings>>

\* validate_dataset_files.
FilesMatch == dm # NoDm /\ dm.train = train /\ dm.holdout = holdout

------------------------------------------------------------------------------
(* tune.train.                                                             *)

TrainReads ==
    /\ trainer.at = "idle"
    /\ train \in 1..Last /\ Kept(train) # {}
    /\ trainings < MaxTrainings
    /\ trainings' = trainings + 1
    /\ trainer' = [at |-> "read", rows |-> train, mixed |-> FALSE]
    /\ UNCHANGED <<artifacts, prep, cmp, publisher, prepares>>

\* validate_output_path
OutputEmpty == checkpoints = {} /\ adapter = NoAdapter /\ am = NoAm

\* From the base model, or on from a checkpoint below the output directory, of which
\* nothing is compared with the manifest and which may have no step left to do.
Begin(weights) ==
    /\ \E steps \in {{}, {trainer.rows}} :
         /\ weights = BaseModel => steps # {}
         /\ trainer' = [at |-> "training", dm |-> dm, learnt |-> weights.learnt \cup steps,
                        mixed |-> trainer.mixed \/ weights.mixed,
                        carried |-> weights.carried \/ (weights # BaseModel /\ weights.split # dm.train)]
    /\ UNCHANGED <<artifacts, prep, cmp, publisher, prepares, trainings>>

\* Without --resume-from-checkpoint the output directory must be empty.
Starts == IF OutputEmpty THEN {BaseModel} ELSE checkpoints

TrainSkipsHashes ==            \* mutant: the manifest is loaded, not compared
    /\ trainer.at = "read"
    /\ dm # NoDm
    /\ \E weights \in Starts : Begin(weights)

\* The manifest is loaded and the files compared with it, after the rows were read.
TrainValidates ==
    /\ trainer.at = "read"
    /\ FilesMatch
    /\ \E weights \in Starts : Begin(weights)

\* Every save_steps or epoch.
TrainCheckpoints ==
    /\ trainer.at = "training"
    /\ checkpoints' = checkpoints \cup {[learnt |-> trainer.learnt, split |-> trainer.dm.train,
                                         mixed |-> trainer.mixed, carried |-> trainer.carried]}
    /\ UNCHANGED <<corpus, train, holdout, dm, adapter, am, overview, procs>>

\* Over the adapter of the run that is resumed, if it had saved one.
TrainSaves ==
    /\ trainer.at = "training"
    /\ adapter' = [learnt |-> trainer.learnt, run |-> trainings,
                   mixed |-> trainer.mixed, carried |-> trainer.carried]
    /\ trainer' = [trainer EXCEPT !.at = "saved"]
    /\ UNCHANGED <<corpus, train, holdout, dm, checkpoints, am, overview, prep, cmp, publisher, prepares, trainings>>

\* build_artifact_manifest: the fields come from the manifest in memory, the
\* manifest's own hash from the file as it is now.
TrainSeals ==
    /\ trainer.at = "saved"
    /\ am' = [dmRun |-> dm.run, source |-> trainer.dm.source, train |-> trainer.dm.train,
              holdout |-> trainer.dm.holdout, adapter |-> adapter.run]
    /\ trainer' = Resting
    /\ UNCHANGED <<corpus, train, holdout, dm, checkpoints, adapter, overview, prep, cmp, publisher, prepares, trainings>>

TrainStops ==
    /\ trainer.at # "idle"
    /\ trainer' = Resting
    /\ UNCHANGED <<artifacts, prep, cmp, publisher, prepares, trainings>>

\* The operator moves the output directory away to train again.
ClearOutput ==
    /\ trainer.at = "idle"
    /\ ~OutputEmpty
    /\ checkpoints' = {} /\ adapter' = NoAdapter /\ am' = NoAm
    /\ UNCHANGED <<corpus, train, holdout, dm, overview, procs>>

SourceOnly(d) ==               \* mutant: the splits are not compared
    /\ am # NoAm /\ am.adapter = adapter.run
    /\ am.source = d.source

\* validate_artifact_compatibility.
Compatible(d) ==
    /\ am # NoAm /\ am.adapter = adapter.run
    /\ am.source = d.source /\ am.train = d.train /\ am.holdout = d.holdout

------------------------------------------------------------------------------
(* tune.compare.                                                           *)

CompareReads ==
    /\ cmp.at \in {"idle", "done"}
    /\ holdout \in 1..Last /\ Held(holdout) # {}
    /\ cmp' = [at |-> "read", rows |-> holdout, mixed |-> FALSE]
    /\ UNCHANGED <<artifacts, prep, trainer, publisher, prepares, trainings>>

\* The run goes on with what it read, and the adapter may change meanwhile.
Accept == cmp' = [at |-> "validated", rows |-> cmp.rows, mixed |-> cmp.mixed, run |-> adapter.run]

CompareSkipsAdapter ==         \* mutant: any adapter will do
    /\ cmp.at = "read"
    /\ \/ FilesMatch /\ am # NoAm /\ Accept
       \/ cmp' = Resting
    /\ UNCHANGED <<artifacts, prep, trainer, publisher, prepares, trainings>>

\* Both manifests are checked, or the run fails.
CompareValidates ==
    /\ cmp.at = "read"
    /\ \/ FilesMatch /\ Compatible(dm) /\ Accept
       \/ cmp' = Resting
    /\ UNCHANGED <<artifacts, prep, trainer, publisher, prepares, trainings>>

\* The base model has answered; the adapter is loaded from its directory as it is now,
\* and answers.  History: replaced, it is not the one that was validated.
CompareLoads ==
    /\ cmp.at = "validated"
    /\ \/ /\ adapter # NoAdapter
          /\ cmp' = [at |-> "done", samples |-> Held(cmp.rows), loaded |-> adapter,
                     mixed |-> cmp.mixed, replaced |-> adapter.run # cmp.run]
       \/ cmp' = Resting
    /\ UNCHANGED <<artifacts, prep, trainer, publisher, prepares, trainings>>

------------------------------------------------------------------------------
(* publish_overview, and TuneAdminService.overview on its file.            *)

PublishCorpus ==
    /\ publisher.at = "idle"
    /\ publisher' = [at |-> "corpus", dataset |-> IF FilesMatch THEN dm ELSE NoDm]
    /\ UNCHANGED <<artifacts, prep, trainer, cmp, prepares, trainings>>

\* approved_publications reads holdout.jsonl as it is: a file that is being
\* written has no line yet, or at worst all the lines of some split.
PublishSamples ==
    /\ publisher.at = "corpus"
    /\ \E samples \in (CASE holdout = Absent -> {{}}
                         [] holdout = Torn -> {{}} \cup {Held(n) : n \in First..corpus}
                         [] OTHER -> {Held(holdout)}) :
         publisher' = [at |-> "samples", dataset |-> publisher.dataset, samples |-> samples \cap Approved]
    /\ UNCHANGED <<artifacts, prep, trainer, cmp, prepares, trainings>>

\* full_artifact_publication, the overview file, and the gate of the API:
\* ready only with a compatible artifact and an approved comparison.
PublishArtifact ==
    /\ publisher.at = "samples"
    /\ LET d == publisher.dataset
           compatible == d # NoDm /\ Compatible(d) /\ am.dmRun = dm.run
       IN overview' = IF compatible /\ am.source = d.source /\ publisher.samples # {}
                      THEN [ready |-> TRUE, samples |-> publisher.samples, adapter |-> adapter]
                      ELSE NotReady
    /\ publisher' = Resting
    /\ UNCHANGED <<corpus, train, holdout, dm, checkpoints, adapter, am, prep, trainer, cmp, prepares, trainings>>

Publish == PublishCorpus \/ PublishSamples \/ PublishArtifact

ArtifactsNext ==
    \/ Append
    \/ PrepareReads \/ PrepareWrites \/ PrepareStops
    \/ TrainReads \/ TrainValidates \/ TrainCheckpoints \/ TrainSaves \/ TrainSeals \/ TrainStops
    \/ ClearOutput
    \/ CompareReads \/ CompareValidates \/ CompareLoads
    \/ Publish

ArtifactsSpec == ArtifactsInit /\ [][ArtifactsNext]_artifactVars

\* The supervisor publishes at every turn of its loop.
ArtifactsFairSpec == ArtifactsSpec /\ WF_artifactVars(Publish)

------------------------------------------------------------------------------

\* The weights learnt only what they are sealed for.
Clean(weights) == ~weights.mixed /\ ~weights.carried

\* An adapter that matches its manifest learnt exactly the rows whose hash the manifest
\* names, whatever was prepared, interrupted, resumed or cleared since ("Bind a completed
\* adapter to its exact frozen corpus", manifest.py:224).  Two things break this and are
\* excepted, but even then it learnt no later split than it says: a preparation that
\* finished between the reading of the rows and the check of their hashes
\* (train.py:366-377), and a training, of this adapter or one it went on from, that was
\* resumed from a checkpoint of another split (train.py:149-153).
AdapterIsWhatItSays ==
    (am # NoAm /\ am.adapter = adapter.run) =>
        /\ \A n \in adapter.learnt : n <= am.train
        /\ Clean(adapter) => adapter.learnt = {am.train}

\* Rows of a split that weights have learnt.
LearntRows(weights) == UNION {Kept(n) : n \in weights.learnt}

\* No comparison uses a sample that the adapter it loads has learnt, for a clean adapter
\* that is still the one whose manifest was validated minutes before (compare.py:174,
\* 293), and unless a preparation finished between the reading of the samples and the
\* check of their hashes (compare.py:257-273).
ComparedUnseen ==
    (cmp.at = "done" /\ ~cmp.mixed /\ ~cmp.replaced /\ Clean(cmp.loaded)) =>
        cmp.samples \cap LearntRows(cmp.loaded) = {}

\* The API does not go on showing, as held-out, a sample that the clean adapter it
\* calls ready has learnt: a publication that straddled a preparation or a training is
\* corrected (tune_demo_supervisor.py:1207).
Leak == /\ overview.ready /\ Clean(overview.adapter)
        /\ overview.samples \cap LearntRows(overview.adapter) # {}
LeakSettles == []<>~Leak
=======
