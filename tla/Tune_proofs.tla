------------------------------ MODULE Tune_proofs ------------------------------
(***************************************************************************)
(* The two state machines of the fine-tuning harness, proved in one        *)
(* module: they share the supervisor process but no variable and no name.  *)
(*                                                                         *)
(* Files (TuneArtifacts): what an adapter learnt and what it is compared   *)
(* on, for any corpus, languages, holdout fraction and number of           *)
(* preparations and trainings, resumed or not.  The two files a manifest   *)
(* names were split from the same corpus (Prepared).  Files only grow, so  *)
(* rows read before the hashes were checked lie between those of the       *)
(* manifest and those in the file, and are the rows that were hashed       *)
(* unless a preparation finished in between (Ordered).  What weights       *)
(* learnt is what they are saved and sealed for (Trained), an adapter is   *)
(* known by the run that saved it (Numbered), and one that is still there  *)
(* when it is loaded is the one that was validated (Compared).             *)
(*                                                                         *)
(* Queue (TuneQueue): one active job, no job run twice and no final status *)
(* left, for any number of API processes, jobs and crashes and any time    *)
(* limits.  A job becomes active only by the first write of enqueue, under *)
(* the lock and after a look that found none, because the supervisor       *)
(* rewrites only the status of a job that is active already (Backed); a    *)
(* command is started only after a mkdir that a second claim of the job    *)
(* cannot repeat (Runs); and while the supervisor lives the claim in its   *)
(* hand is the only one of its job (Tidy).                                 *)
(***************************************************************************)
EXTENDS TuneQueue, TuneArtifacts, FiniteSetTheorems, TLAPS

(* The files. *)

Splits == 0..(Last + 1)
Dms == [run : Nat, source : Splits, train : Splits, holdout : Splits]
Checkpoints == [learnt : SUBSET Splits, split : Splits, mixed : BOOLEAN, carried : BOOLEAN]
Adapters == [learnt : SUBSET Splits, run : Nat, mixed : BOOLEAN, carried : BOOLEAN]
Ams == [dmRun : Nat, source : Splits, train : Splits, holdout : Splits, adapter : Nat]

Readers == [at : {"read"}, rows : Splits, mixed : BOOLEAN]
Learners == [at : {"training", "saved"}, dm : Dms, learnt : SUBSET Splits, mixed : BOOLEAN, carried : BOOLEAN]
Preparers == {Resting} \cup [at : {"read", "train", "holdout", "manifest"}, rows : Splits]
Trainers == {Resting} \cup Readers \cup Learners
Validated == [at : {"validated"}, rows : Splits, mixed : BOOLEAN, run : Nat]
Comparisons == [at : {"done"}, samples : SUBSET Nat, loaded : Adapters, mixed : BOOLEAN, replaced : BOOLEAN]
Comparers == {Resting} \cup Readers \cup Validated \cup Comparisons

ArtifactTypes ==
    /\ corpus \in 1..Last /\ train \in Splits /\ holdout \in Splits
    /\ dm \in Dms /\ checkpoints \subseteq Checkpoints /\ adapter \in Adapters /\ am \in Ams
    /\ prep \in Preparers /\ trainer \in Trainers /\ cmp \in Comparers
    /\ prepares \in Nat /\ trainings \in Nat

Prepared ==
    /\ dm.train = dm.holdout
    /\ prep.at \in {"holdout", "manifest"} => train = prep.rows
    /\ prep.at = "manifest" => holdout = prep.rows

\* What was split later was split from a longer corpus; Torn is above all of them.
Ordered ==
    /\ dm.train <= train /\ dm.train <= holdout /\ dm.train <= corpus
    /\ train = Torn \/ train <= corpus
    /\ holdout = Torn \/ holdout <= corpus
    /\ prep.at # "idle" =>
           /\ prep.rows <= corpus /\ dm.train <= prep.rows
           /\ train = Torn \/ train <= prep.rows
           /\ holdout = Torn \/ holdout <= prep.rows

\* The same of the rows of a reader of file that has not checked the hashes.
Reading(p, file) ==
    p.at = "read" => /\ p.rows <= file /\ p.rows <= corpus
                     /\ prep.at # "idle" => p.rows <= prep.rows
                     /\ ~p.mixed => dm.train <= p.rows

\* Weights for split n: nothing later, and if they are clean, n and nothing else.
For(weights, n) ==
    /\ \A k \in weights.learnt : k <= n
    /\ Clean(weights) => weights.learnt = {n}

Trained ==
    /\ trainer.at \in {"training", "saved"} =>
           For(trainer, trainer.dm.train) /\ trainer.dm.train <= dm.train
    /\ \A c \in checkpoints : For(c, c.split) /\ c.split <= dm.train
    /\ trainer.at = "saved" => /\ adapter.learnt = trainer.learnt
                               /\ adapter.mixed = trainer.mixed /\ adapter.carried = trainer.carried
    /\ am # NoAm /\ am.adapter = adapter.run => For(adapter, am.train)

\* No run before this one has its number, and this one has not until it saves.
Numbered ==
    /\ adapter.run <= trainings /\ am.adapter <= trainings
    /\ cmp.at = "validated" => cmp.run <= trainings
    /\ trainer.at \in {"read", "training"} =>
           /\ adapter.run < trainings /\ am.adapter < trainings
           /\ cmp.at = "validated" => cmp.run < trainings
    /\ trainer.at = "saved" => am.adapter < trainings

Compared ==
    cmp.at = "validated" /\ ~cmp.mixed /\ adapter # NoAdapter /\ adapter.run = cmp.run /\ Clean(adapter) =>
        adapter.learnt = {cmp.rows}

ArtifactInv ==
    /\ ArtifactTypes /\ Prepared /\ Ordered /\ Reading(trainer, train) /\ Reading(cmp, holdout)
    /\ Trained /\ Numbered /\ Compared /\ ComparedUnseen

-----------------------------------------------------------------------------
LEMMA HeldOut == \A n : Held(n) \cap Kept(n) = {} /\ Held(n) \in SUBSET Nat
BY DEF Kept, Held

LEMMA SplitsOK ==
    /\ Last \in Nat /\ First \in 1..Last /\ 1..Last \subseteq Splits
    /\ Absent \in Splits /\ Torn \in Splits /\ Torn = Last + 1
BY TuneArtifactsConstants DEF Splits, Absent, Torn

LEMMA NonesOK == NoDm \in Dms /\ BaseModel \in Checkpoints /\ NoAdapter \in Adapters /\ NoAm \in Ams
BY SplitsOK DEF NoDm, BaseModel, NoAdapter, NoAm, Dms, Checkpoints, Adapters, Ams

\* What the place of a process says of its record.
LEMMA Places ==
    ASSUME ArtifactTypes
    PROVE  /\ prep.at # "idle" => prep.rows \in Splits
           /\ trainer.at = "read" => trainer \in Readers
           /\ trainer.at \in {"training", "saved"} => trainer \in Learners
           /\ cmp.at = "read" => cmp \in Readers
           /\ cmp.at = "validated" => cmp \in Validated
           /\ cmp.at = "done" => cmp \in Comparisons
BY DEF ArtifactTypes, Preparers, Trainers, Comparers, Resting, Readers, Learners, Validated, Comparisons

\* Nothing that was split, trained or compared changes.
LEMMA Untouched ==
    ASSUME ArtifactInv, corpus' \in 1..Last, corpus <= corpus',
           UNCHANGED <<train, holdout, dm, checkpoints, adapter, am, trainer, cmp, trainings>>,
           prep' \in Preparers, prepares' \in Nat, Prepared',
           prep' = prep \/ prep' = Resting \/ (prep'.at = "read" /\ prep'.rows = corpus)
    PROVE  ArtifactInv'
<1>1. ArtifactTypes'
  BY DEF ArtifactInv, ArtifactTypes
<1>2. corpus \in Int /\ corpus' \in Int /\ dm.train \in Int /\ train \in Int /\ holdout \in Int
  BY SplitsOK DEF ArtifactInv, ArtifactTypes, Dms, Splits
<1>3. prep'.at # "idle" => /\ prep'.rows \in Int /\ prep'.rows <= corpus'
                           /\ (prep'.rows = corpus \/ (prep.at # "idle" /\ prep'.rows = prep.rows))
  BY <1>2, Places, SplitsOK DEF ArtifactInv, Ordered, Resting, Splits
<1>4. Ordered'
  BY <1>2, <1>3 DEF ArtifactInv, Ordered
<1>5. Reading(trainer, train)' /\ Reading(cmp, holdout)'
  <2>1. /\ trainer.at = "read" => trainer.rows \in Int
        /\ cmp.at = "read" => cmp.rows \in Int
    BY Places, SplitsOK DEF ArtifactInv, Readers, Splits
  <2>. QED BY <1>2, <1>3, <2>1 DEF ArtifactInv, Reading
<1>6. Trained' /\ Numbered' /\ Compared' /\ ComparedUnseen'
  BY DEF ArtifactInv, Trained, Numbered, Compared, ComparedUnseen, For, Clean
<1>. QED BY <1>1, <1>4, <1>5, <1>6 DEF ArtifactInv

LEMMA AppendKeepsInv == ASSUME ArtifactInv, Append PROVE ArtifactInv'
<1>1. corpus' \in 1..Last /\ corpus <= corpus'
  BY SplitsOK DEF Append, ArtifactInv, ArtifactTypes
<1>2. prep' = prep /\ prep' \in Preparers /\ prepares' \in Nat /\ Prepared'
  BY DEF Append, procs, ArtifactInv, ArtifactTypes, Prepared
<1>. QED BY <1>1, <1>2, Untouched DEF Append, procs

LEMMA PrepareReadsKeepsInv == ASSUME ArtifactInv, PrepareReads PROVE ArtifactInv'
<1>1. /\ prep' = [at |-> "read", rows |-> corpus] /\ prep' \in Preparers /\ prepares' \in Nat
      /\ corpus \in 1..Last /\ corpus <= corpus
  BY SplitsOK DEF PrepareReads, ArtifactInv, ArtifactTypes, Preparers
<1>2. Prepared'
  BY <1>1 DEF PrepareReads, artifacts, ArtifactInv, Prepared
<1>. QED BY <1>1, <1>2, Untouched DEF PrepareReads, artifacts

LEMMA PrepareStopsKeepsInv == ASSUME ArtifactInv, PrepareStops PROVE ArtifactInv'
<1>1. prep' = Resting /\ prep' \in Preparers /\ corpus <= corpus
  BY SplitsOK DEF PrepareStops, Preparers, ArtifactInv, ArtifactTypes
<1>2. Prepared'
  BY <1>1 DEF PrepareStops, artifacts, ArtifactInv, Prepared, Resting
<1>. QED BY <1>1, <1>2, Untouched DEF PrepareStops, artifacts, ArtifactInv, ArtifactTypes

\* A process that is read has its rows and is mixed, one that is not stays.
LEMMA MixKeeps ==
    ASSUME NEW p, p.at = "read" => p \in Readers
    PROVE  /\ p.at # "read" => Mix(p) = p
           /\ p.at = "read" => Mix(p) = [at |-> "read", rows |-> p.rows, mixed |-> TRUE]
BY DEF Mix, Readers

LEMMA PrepareMoves ==
    ASSUME ArtifactInv, PrepareWrites
    PROVE  /\ train' \in Splits /\ holdout' \in Splits /\ dm' \in Dms /\ prep' \in Preparers
           /\ Prepared' /\ Ordered' /\ dm.train <= dm'.train
           /\ train <= train' \/ (prep.at = "train" /\ train' = prep.rows)
           /\ holdout <= holdout' \/ (prep.at = "holdout" /\ holdout' = prep.rows)
           /\ prep'.at # "idle" => prep'.rows = prep.rows
           /\ \/ UNCHANGED <<dm, trainer, cmp>>
              \/ trainer' = Mix(trainer) /\ cmp' = Mix(cmp)
<1>1. /\ prep \in [at : {"read", "train", "holdout", "manifest"}, rows : Splits]
      /\ UNCHANGED <<corpus, prepares>>
      /\ corpus \in Int /\ dm.train \in Int /\ train \in Int /\ holdout \in Int /\ prep.rows \in Int
      /\ Torn \in Int /\ corpus < Torn /\ train <= Torn /\ holdout <= Torn
  BY SplitsOK DEF PrepareWrites, ArtifactInv, ArtifactTypes, Preparers, Resting, Dms, Splits
<1>2. CASE prep.at = "read" /\ train' = Torn /\ prep' = [prep EXCEPT !.at = "train"]
           /\ UNCHANGED <<holdout, dm, trainer, cmp>>
  BY <1>1, <1>2, SplitsOK DEF ArtifactInv, ArtifactTypes, Prepared, Ordered, Preparers
<1>3. CASE prep.at = "train" /\ train' = prep.rows /\ holdout' = Torn
           /\ prep' = [prep EXCEPT !.at = "holdout"] /\ UNCHANGED <<dm, trainer, cmp>>
  BY <1>1, <1>3, SplitsOK DEF ArtifactInv, ArtifactTypes, Prepared, Ordered, Preparers
<1>4. CASE prep.at = "holdout" /\ holdout' = prep.rows
           /\ prep' = [prep EXCEPT !.at = "manifest"] /\ UNCHANGED <<train, dm, trainer, cmp>>
  BY <1>1, <1>4, SplitsOK DEF ArtifactInv, ArtifactTypes, Prepared, Ordered, Preparers
<1>5. CASE /\ prep.at = "manifest" /\ prep' = Resting /\ UNCHANGED <<train, holdout>>
           /\ dm' = [run |-> prepares, source |-> corpus, train |-> train, holdout |-> holdout]
           /\ trainer' = Mix(trainer) /\ cmp' = Mix(cmp)
  BY <1>1, <1>5, SplitsOK DEF ArtifactInv, ArtifactTypes, Prepared, Ordered, Preparers, Resting, Dms
<1>. QED BY <1>2, <1>3, <1>4, <1>5 DEF PrepareWrites

LEMMA PrepareWritesKeepsInv == ASSUME ArtifactInv, PrepareWrites PROVE ArtifactInv'
<1>1. /\ UNCHANGED <<corpus, checkpoints, adapter, am, prepares, trainings>>
      /\ prep.at # "idle"
  BY DEF PrepareWrites
<1>2. /\ trainer.at = "read" => trainer \in Readers
      /\ cmp.at = "read" => cmp \in Readers
  BY Places DEF ArtifactInv
<1>3. /\ trainer' = trainer \/ (trainer.at = "read" /\ trainer' = [at |-> "read", rows |-> trainer.rows, mixed |-> TRUE])
      /\ cmp' = cmp \/ (cmp.at = "read" /\ cmp' = [at |-> "read", rows |-> cmp.rows, mixed |-> TRUE])
  BY <1>2, PrepareMoves, MixKeeps
<1>4. ArtifactTypes'
  <2>1. /\ trainer.at = "read" => [at |-> "read", rows |-> trainer.rows, mixed |-> TRUE] \in Readers
        /\ cmp.at = "read" => [at |-> "read", rows |-> cmp.rows, mixed |-> TRUE] \in Readers
    BY <1>2 DEF Readers
  <2>2. trainer' \in Trainers
    BY <1>3, <2>1 DEF ArtifactInv, ArtifactTypes, Trainers
  <2>3. cmp' \in Comparers
    BY <1>3, <2>1 DEF ArtifactInv, ArtifactTypes, Comparers
  <2>. QED BY <1>1, <2>2, <2>3, PrepareMoves DEF ArtifactInv, ArtifactTypes
<1>5. /\ trainer.at = "read" => trainer.rows \in Int
      /\ cmp.at = "read" => cmp.rows \in Int
      /\ prep.rows \in Int /\ train \in Int /\ train' \in Int /\ holdout \in Int /\ holdout' \in Int
  BY <1>1, <1>2, Places, PrepareMoves, SplitsOK DEF ArtifactInv, ArtifactTypes, Readers, Splits
<1>6. /\ trainer'.at = "read" => trainer.at = "read" /\ trainer'.rows = trainer.rows
      /\ cmp'.at = "read" => cmp.at = "read" /\ cmp'.rows = cmp.rows
  BY <1>3
<1>7. /\ trainer'.at = "read" /\ ~trainer'.mixed => dm' = dm /\ ~trainer.mixed
      /\ cmp'.at = "read" /\ ~cmp'.mixed => dm' = dm /\ ~cmp.mixed
  BY <1>2, <1>3, PrepareMoves, MixKeeps
<1>8. Reading(trainer, train)' /\ Reading(cmp, holdout)'
  BY <1>1, <1>5, <1>6, <1>7, PrepareMoves DEF ArtifactInv, Reading
<1>9. Trained'
  <2>1. /\ dm.train \in Int /\ dm'.train \in Int /\ \A c \in checkpoints : c.split \in Int
        /\ trainer.at \in {"training", "saved"} => trainer.dm.train \in Int
    BY Places, PrepareMoves, SplitsOK DEF ArtifactInv, ArtifactTypes, Dms, Checkpoints, Learners, Splits
  <2>. QED BY <1>1, <1>3, <2>1, PrepareMoves DEF ArtifactInv, Trained, For, Clean
<1>10. Numbered' /\ Compared' /\ ComparedUnseen'
  BY <1>1, <1>3 DEF ArtifactInv, Numbered, Compared, ComparedUnseen
<1>. QED BY <1>4, <1>8, <1>9, <1>10, PrepareMoves DEF ArtifactInv

\* The steps of a training and of a comparison leave the corpus and the splits alone.
LEMMA SplitsStay ==
    ASSUME ArtifactInv, UNCHANGED <<corpus, train, holdout, dm, prep>>
    PROVE  Prepared' /\ Ordered'
BY DEF ArtifactInv, Prepared, Ordered

LEMMA TrainReadsKeepsInv == ASSUME ArtifactInv, TrainReads PROVE ArtifactInv'
<1>1. /\ trainer' = [at |-> "read", rows |-> train, mixed |-> FALSE] /\ trainings' = trainings + 1
      /\ UNCHANGED <<corpus, train, holdout, dm, checkpoints, adapter, am, prep, cmp, prepares>>
      /\ train \in 1..Last
  BY DEF TrainReads, artifacts
<1>2. ArtifactTypes'
  BY <1>1, SplitsOK DEF ArtifactInv, ArtifactTypes, Trainers, Readers
<1>3. Prepared' /\ Ordered' /\ Reading(cmp, holdout)'
  BY <1>1, SplitsStay DEF ArtifactInv, Reading
<1>4. Reading(trainer, train)'
  <2>1. train # Torn /\ train \in Int
    BY <1>1, SplitsOK
  <2>. QED BY <1>1, <2>1 DEF ArtifactInv, Reading, Ordered
<1>5. Trained' /\ Compared' /\ ComparedUnseen'
  BY <1>1 DEF ArtifactInv, Trained, Compared, ComparedUnseen, For, Clean
<1>6. Numbered'
  BY <1>1, Places DEF ArtifactInv, ArtifactTypes, Numbered, Adapters, Ams, Validated
<1>. QED BY <1>2, <1>3, <1>4, <1>5, <1>6 DEF ArtifactInv

\* The hashes match and no preparation has finished since: the rows are those hashed.
LEMMA HashedRows ==
    ASSUME ArtifactInv, FilesMatch
    PROVE  /\ trainer.at = "read" /\ ~trainer.mixed => trainer.rows = dm.train
           /\ cmp.at = "read" /\ ~cmp.mixed => cmp.rows = dm.train
<1>1. dm.train = train /\ dm.train = holdout
  BY DEF FilesMatch, ArtifactInv, Prepared
<1>2. train \in Int /\ holdout \in Int
  BY SplitsOK DEF ArtifactInv, ArtifactTypes, Splits
<1>3. /\ trainer.at = "read" => trainer.rows \in Int
      /\ cmp.at = "read" => cmp.rows \in Int
  BY Places, SplitsOK DEF ArtifactInv, Readers, Splits
<1>. QED BY <1>1, <1>2, <1>3 DEF ArtifactInv, Reading

LEMMA TrainValidatesKeepsInv == ASSUME ArtifactInv, TrainValidates PROVE ArtifactInv'
<1>1. PICK weights \in Starts : Begin(weights)
  BY DEF TrainValidates
<1>2. PICK steps \in {{}, {trainer.rows}} :
      /\ weights = BaseModel => steps # {}
      /\ trainer' = [at |-> "training", dm |-> dm, learnt |-> weights.learnt \cup steps,
                     mixed |-> trainer.mixed \/ weights.mixed,
                     carried |-> weights.carried \/ (weights # BaseModel /\ weights.split # dm.train)]
      /\ UNCHANGED <<corpus, train, holdout, dm, checkpoints, adapter, am, prep, cmp, prepares, trainings>>
      /\ trainer.at = "read" /\ FilesMatch
  BY <1>1 DEF Begin, TrainValidates, artifacts
<1>3. trainer \in Readers /\ weights \in Checkpoints /\ (weights = BaseModel \/ weights \in checkpoints)
  BY <1>1, <1>2, Places, NonesOK DEF ArtifactInv, ArtifactTypes, Starts
<1>4. trainer' \in Learners /\ trainer'.at = "training"
  BY <1>2, <1>3 DEF Learners, Readers, Checkpoints, ArtifactInv, ArtifactTypes
<1>5. ArtifactTypes'
  BY <1>2, <1>4 DEF ArtifactInv, ArtifactTypes, Trainers
<1>6. For(trainer, trainer.dm.train)'
  <2>1. /\ trainer.rows \in Int /\ dm.train \in Int /\ trainer.rows <= dm.train
        /\ ~trainer.mixed => trainer.rows = dm.train
    <3>1. trainer.rows \in Int /\ dm.train \in Int
      BY <1>3, SplitsOK DEF ArtifactInv, ArtifactTypes, Readers, Dms, Splits
    <3>2. trainer.rows <= dm.train
      BY <1>2 DEF ArtifactInv, Reading, FilesMatch
    <3>. QED BY <1>2, <3>1, <3>2, HashedRows
  <2>2. CASE weights = BaseModel
    BY <1>2, <2>1, <2>2 DEF For, Clean, BaseModel
  <2>3. CASE weights \in checkpoints /\ weights # BaseModel
    <3>1. For(weights, weights.split) /\ weights.split <= dm.train
      BY <2>3 DEF ArtifactInv, Trained
    <3>2. weights.split \in Int /\ \A k \in weights.learnt : k \in Int
      BY <1>3, SplitsOK DEF Checkpoints, Splits
    <3>3. \A k \in trainer'.learnt : k <= dm.train
      BY <1>2, <2>1, <3>1, <3>2 DEF For
    <3>4. Clean(trainer') => trainer'.learnt = {dm.train}
      BY <1>2, <2>1, <2>3, <3>1 DEF For, Clean
    <3>. QED BY <1>2, <3>3, <3>4 DEF For
  <2>. QED BY <1>3, <2>2, <2>3
<1>7. Trained'
  <2>1. dm.train \in Int
    BY SplitsOK DEF ArtifactInv, ArtifactTypes, Dms, Splits
  <2>. QED BY <1>2, <1>4, <1>6, <2>1 DEF ArtifactInv, Trained, For, Clean
<1>8. Prepared' /\ Ordered' /\ Reading(cmp, holdout)' /\ Reading(trainer, train)'
  BY <1>2, <1>4, SplitsStay DEF ArtifactInv, Reading
<1>9. Numbered' /\ Compared' /\ ComparedUnseen'
  BY <1>2, <1>4 DEF ArtifactInv, Numbered, Compared, ComparedUnseen
<1>. QED BY <1>5, <1>7, <1>8, <1>9 DEF ArtifactInv

LEMMA TrainCheckpointsKeepsInv == ASSUME ArtifactInv, TrainCheckpoints PROVE ArtifactInv'
<1>1. /\ checkpoints' = checkpoints \cup {[learnt |-> trainer.learnt, split |-> trainer.dm.train,
                                           mixed |-> trainer.mixed, carried |-> trainer.carried]}
      /\ UNCHANGED <<corpus, train, holdout, dm, adapter, am, prep, trainer, cmp, prepares, trainings>>
      /\ trainer.at = "training" /\ trainer \in Learners
  BY Places DEF TrainCheckpoints, procs, ArtifactInv
<1>2. ArtifactTypes'
  BY <1>1 DEF ArtifactInv, ArtifactTypes, Checkpoints, Learners, Dms
<1>3. Trained'
  BY <1>1 DEF ArtifactInv, Trained, For, Clean
<1>4. Prepared' /\ Ordered' /\ Reading(cmp, holdout)' /\ Reading(trainer, train)'
  BY <1>1, SplitsStay DEF ArtifactInv, Reading
<1>5. Numbered' /\ Compared' /\ ComparedUnseen'
  BY <1>1 DEF ArtifactInv, Numbered, Compared, ComparedUnseen
<1>. QED BY <1>2, <1>3, <1>4, <1>5 DEF ArtifactInv

LEMMA TrainSavesKeepsInv == ASSUME ArtifactInv, TrainSaves PROVE ArtifactInv'
<1>1. /\ adapter' = [learnt |-> trainer.learnt, run |-> trainings,
                     mixed |-> trainer.mixed, carried |-> trainer.carried]
      /\ trainer' = [trainer EXCEPT !.at = "saved"]
      /\ UNCHANGED <<corpus, train, holdout, dm, checkpoints, am, prep, cmp, prepares, trainings>>
      /\ trainer.at = "training" /\ trainer \in Learners
  BY Places DEF TrainSaves, ArtifactInv
<1>2. /\ trainer' \in Learners /\ trainer'.at = "saved" /\ trainer'.dm = trainer.dm
      /\ trainer'.learnt = trainer.learnt /\ trainer'.mixed = trainer.mixed /\ trainer'.carried = trainer.carried
  BY <1>1 DEF Learners
<1>3. ArtifactTypes'
  BY <1>1, <1>2 DEF ArtifactInv, ArtifactTypes, Adapters, Learners, Trainers
<1>4. am.adapter # trainings /\ (cmp.at = "validated" => cmp.run # trainings)
  BY <1>1, Places DEF ArtifactInv, ArtifactTypes, Numbered, Ams, Validated
<1>5. Trained' /\ Compared'
  BY <1>1, <1>2, <1>4 DEF ArtifactInv, Trained, Compared, For, Clean
<1>6. Prepared' /\ Ordered' /\ Reading(cmp, holdout)' /\ Reading(trainer, train)'
  BY <1>1, <1>2, SplitsStay DEF ArtifactInv, Reading
<1>7. Numbered' /\ ComparedUnseen'
  BY <1>1, <1>2 DEF ArtifactInv, ArtifactTypes, Numbered, ComparedUnseen
<1>. QED BY <1>3, <1>5, <1>6, <1>7 DEF ArtifactInv

LEMMA TrainSealsKeepsInv == ASSUME ArtifactInv, TrainSeals PROVE ArtifactInv'
<1>1. /\ am' = [dmRun |-> dm.run, source |-> trainer.dm.source, train |-> trainer.dm.train,
                holdout |-> trainer.dm.holdout, adapter |-> adapter.run]
      /\ trainer' = Resting
      /\ UNCHANGED <<corpus, train, holdout, dm, checkpoints, adapter, prep, cmp, prepares, trainings>>
      /\ trainer.at = "saved" /\ trainer \in Learners
  BY Places DEF TrainSeals, ArtifactInv
<1>2. ArtifactTypes'
  BY <1>1 DEF ArtifactInv, ArtifactTypes, Ams, Adapters, Learners, Dms, Trainers
<1>3. Trained'
  BY <1>1 DEF ArtifactInv, Trained, For, Clean, Resting
<1>4. Prepared' /\ Ordered' /\ Reading(cmp, holdout)' /\ Reading(trainer, train)'
  BY <1>1, SplitsStay DEF ArtifactInv, Reading, Resting
<1>5. Numbered' /\ Compared' /\ ComparedUnseen'
  BY <1>1 DEF ArtifactInv, Numbered, Compared, ComparedUnseen, Resting
<1>. QED BY <1>2, <1>3, <1>4, <1>5 DEF ArtifactInv

LEMMA TrainStopsKeepsInv == ASSUME ArtifactInv, TrainStops PROVE ArtifactInv'
<1>1. /\ trainer' = Resting
      /\ UNCHANGED <<corpus, train, holdout, dm, checkpoints, adapter, am, prep, cmp, prepares, trainings>>
  BY DEF TrainStops, artifacts
<1>2. ArtifactTypes'
  BY <1>1 DEF ArtifactInv, ArtifactTypes, Trainers
<1>3. Prepared' /\ Ordered' /\ Reading(cmp, holdout)' /\ Reading(trainer, train)'
  BY <1>1, SplitsStay DEF ArtifactInv, Reading, Resting
<1>4. Trained' /\ Numbered' /\ Compared' /\ ComparedUnseen'
  BY <1>1 DEF ArtifactInv, Trained, Numbered, Compared, ComparedUnseen, Resting, For, Clean
<1>. QED BY <1>2, <1>3, <1>4 DEF ArtifactInv

LEMMA ClearOutputKeepsInv == ASSUME ArtifactInv, ClearOutput PROVE ArtifactInv'
<1>1. /\ checkpoints' = {} /\ adapter' = NoAdapter /\ am' = NoAm /\ trainer.at = "idle"
      /\ UNCHANGED <<corpus, train, holdout, dm, prep, trainer, cmp, prepares, trainings>>
  BY DEF ClearOutput, procs
<1>2. ArtifactTypes'
  BY <1>1, NonesOK DEF ArtifactInv, ArtifactTypes
<1>3. Prepared' /\ Ordered' /\ Reading(cmp, holdout)' /\ Reading(trainer, train)'
  BY <1>1, SplitsStay DEF ArtifactInv, Reading
<1>4. Trained' /\ Compared' /\ ComparedUnseen'
  BY <1>1 DEF ArtifactInv, Trained, Compared, ComparedUnseen
<1>5. Numbered'
  BY <1>1 DEF ArtifactInv, ArtifactTypes, Numbered, NoAdapter, NoAm
<1>. QED BY <1>2, <1>3, <1>4, <1>5 DEF ArtifactInv

\* A comparison step touches nothing but the comparison.
LEMMA ComparisonAlone ==
    ASSUME ArtifactInv, UNCHANGED <<artifacts, prep, trainer, publisher, prepares, trainings>>,
           cmp' \in Comparers, Reading(cmp, holdout)', Compared', ComparedUnseen',
           cmp'.at = "validated" => cmp'.run = adapter.run
    PROVE  ArtifactInv'
<1>1. ArtifactTypes' /\ Prepared' /\ Ordered' /\ Reading(trainer, train)'
  BY SplitsStay DEF ArtifactInv, ArtifactTypes, Reading, artifacts
<1>2. Trained' /\ Numbered'
  BY DEF ArtifactInv, Trained, Numbered, For, Clean, artifacts
<1>. QED BY <1>1, <1>2 DEF ArtifactInv

LEMMA CompareReadsKeepsInv == ASSUME ArtifactInv, CompareReads PROVE ArtifactInv'
<1>1. cmp' = [at |-> "read", rows |-> holdout, mixed |-> FALSE] /\ holdout \in 1..Last
      /\ UNCHANGED <<artifacts, prep, trainer, publisher, prepares, trainings>>
  BY DEF CompareReads
<1>2. cmp' \in Comparers
  BY <1>1, SplitsOK DEF Comparers, Readers
<1>3. Reading(cmp, holdout)'
  <2>1. holdout # Torn /\ holdout \in Int
    BY <1>1, SplitsOK
  <2>. QED BY <1>1, <2>1 DEF ArtifactInv, Reading, Ordered, artifacts
<1>4. Compared' /\ ComparedUnseen'
  BY <1>1 DEF Compared, ComparedUnseen
<1>. QED BY <1>1, <1>2, <1>3, <1>4, ComparisonAlone

LEMMA CompareValidatesKeepsInv == ASSUME ArtifactInv, CompareValidates PROVE ArtifactInv'
<1>1. UNCHANGED <<artifacts, prep, trainer, publisher, prepares, trainings>> /\ cmp.at = "read" /\ cmp \in Readers
  BY Places DEF CompareValidates, ArtifactInv
<1>2. CASE FilesMatch /\ Compatible(dm) /\ Accept
  <2>1. cmp' = [at |-> "validated", rows |-> cmp.rows, mixed |-> cmp.mixed, run |-> adapter.run]
    BY <1>2 DEF Accept
  <2>2. cmp' \in Comparers
    BY <1>1, <2>1 DEF Comparers, Validated, Readers, ArtifactInv, ArtifactTypes, Adapters
  <2>3. Compared'
    <3>1. ~cmp.mixed /\ Clean(adapter) => adapter.learnt = {cmp.rows}
      BY <1>1, <1>2, HashedRows DEF Compatible, ArtifactInv, Trained, For, Clean
    <3>. QED BY <1>1, <2>1, <3>1 DEF Compared, artifacts, Clean
  <2>4. Reading(cmp, holdout)' /\ ComparedUnseen'
    BY <2>1 DEF Reading, ComparedUnseen
  <2>. QED BY <1>1, <2>1, <2>2, <2>3, <2>4, ComparisonAlone
<1>3. CASE cmp' = Resting
  BY <1>1, <1>3, ComparisonAlone DEF Reading, Compared, ComparedUnseen, Resting, Comparers
<1>. QED BY <1>2, <1>3 DEF CompareValidates

LEMMA CompareLoadsKeepsInv == ASSUME ArtifactInv, CompareLoads PROVE ArtifactInv'
<1>1. /\ UNCHANGED <<artifacts, prep, trainer, publisher, prepares, trainings>>
      /\ cmp.at = "validated" /\ cmp \in Validated
  BY Places DEF CompareLoads, ArtifactInv
<1>2. CASE /\ adapter # NoAdapter
           /\ cmp' = [at |-> "done", samples |-> Held(cmp.rows), loaded |-> adapter,
                      mixed |-> cmp.mixed, replaced |-> adapter.run # cmp.run]
  <2>1. cmp' \in Comparers
    BY <1>1, <1>2, HeldOut DEF Comparers, Comparisons, Validated, ArtifactInv, ArtifactTypes
  <2>2. ComparedUnseen'
    <3>. SUFFICES ASSUME ~cmp.mixed, adapter.run = cmp.run, Clean(adapter)
                  PROVE  Held(cmp.rows) \cap LearntRows(adapter) = {}
      BY <1>2 DEF ComparedUnseen, Clean, LearntRows
    <3>1. LearntRows(adapter) = Kept(cmp.rows)
      BY <1>1, <1>2 DEF ArtifactInv, Compared, LearntRows
    <3>. QED BY <3>1, HeldOut
  <2>3. Reading(cmp, holdout)' /\ Compared'
    BY <1>2 DEF Reading, Compared
  <2>. QED BY <1>1, <1>2, <2>1, <2>2, <2>3, ComparisonAlone
<1>3. CASE cmp' = Resting
  BY <1>1, <1>3, ComparisonAlone DEF Reading, Compared, ComparedUnseen, Resting, Comparers
<1>. QED BY <1>2, <1>3 DEF CompareLoads

LEMMA ArtifactStays ==
    ASSUME ArtifactInv, Publish \/ UNCHANGED artifactVars
    PROVE  ArtifactInv'
<1>1. UNCHANGED <<corpus, train, holdout, dm, checkpoints, adapter, am, prep, trainer, cmp, prepares, trainings>>
  BY DEF Publish, PublishCorpus, PublishSamples, PublishArtifact, artifactVars, artifacts, procs
<1>. QED BY <1>1 DEF ArtifactInv, ArtifactTypes, Prepared, Ordered, Reading, Trained, Numbered, Compared,
                     ComparedUnseen, For, Clean

-----------------------------------------------------------------------------
LEMMA ArtifactInit == ArtifactsInit => ArtifactInv
<1>. SUFFICES ASSUME ArtifactsInit PROVE ArtifactInv
  OBVIOUS
<1>1. ArtifactTypes
  BY SplitsOK, NonesOK DEF ArtifactsInit, ArtifactTypes, Preparers, Trainers, Comparers
<1>2. Prepared /\ Ordered /\ Numbered
  BY SplitsOK DEF ArtifactsInit, Prepared, Ordered, Numbered, Resting, NoDm, NoAdapter, NoAm, Absent
<1>3. Reading(trainer, train) /\ Reading(cmp, holdout) /\ Trained /\ Compared /\ ComparedUnseen
  BY DEF ArtifactsInit, Reading, Trained, Compared, ComparedUnseen, Resting
<1>. QED BY <1>1, <1>2, <1>3 DEF ArtifactInv

LEMMA ArtifactStep == ArtifactInv /\ [ArtifactsNext]_artifactVars => ArtifactInv'
BY AppendKeepsInv, PrepareReadsKeepsInv, PrepareWritesKeepsInv, PrepareStopsKeepsInv,
   TrainReadsKeepsInv, TrainValidatesKeepsInv, TrainCheckpointsKeepsInv, TrainSavesKeepsInv,
   TrainSealsKeepsInv, TrainStopsKeepsInv, ClearOutputKeepsInv, CompareReadsKeepsInv,
   CompareValidatesKeepsInv, CompareLoadsKeepsInv, ArtifactStays
DEF ArtifactsNext

LEMMA ArtifactAlways == ArtifactsSpec => []ArtifactInv
BY ArtifactInit, ArtifactStep, PTL DEF ArtifactsSpec

\* An adapter directory that matches its manifest learnt the rows whose hash the
\* manifest names and no others, if it and what it was resumed from are clean, and in
\* any case no later split, with any number of preparations, interruptions, resumptions
\* and trainings in any order (train.py:366-377, 147-153).
THEOREM AdapterLearntItsSplit == ArtifactsSpec => []AdapterIsWhatItSays
<1>1. ArtifactInv => AdapterIsWhatItSays
  BY DEF ArtifactInv, Trained, For, Clean, AdapterIsWhatItSays
<1>. QED BY <1>1, ArtifactAlways, PTL

\* A comparison never shows a sample that the clean adapter it has loaded was trained
\* on, though it loads it long after it has validated it (compare.py:257-293, 174),
\* if it is the same one by then and no preparation finished before the validation.
THEOREM ComparedSamplesUnseen == ArtifactsSpec => []ComparedUnseen
<1>1. ArtifactInv => ComparedUnseen
  BY DEF ArtifactInv
<1>. QED BY <1>1, ArtifactAlways, PTL

-----------------------------------------------------------------------------
(* The queue. *)

Pcs == {"idle", "stage", "lock", "relock", "steal", "check", "job", "request",
        "undo", "unlock", "answer"}
Holding == {"check", "job", "request", "undo", "unlock"}
Unwritten == {"stage", "lock", "relock", "steal", "check", "job", "request", "undo"}

Types ==
    /\ lock \in Nat \cup {Gone}
    /\ pc \in [Handlers -> Pcs]
    /\ mine \in [Handlers -> Jobs \cup {NoJob}]
    /\ kind \in [Jobs -> {"none", "train_smoke", "infer_live"}]
    /\ status \in [Jobs -> {"none"} \cup Active \cup Terminal]
    /\ requests \subseteq Claimed
    /\ cur \in Claimed \cup {NoClaim}
    /\ outcome \in {"none"} \cup Terminal
    /\ sup = "finish" => outcome \in Terminal
    /\ rundirs \subseteq Jobs
    /\ supCrashes \in Nat
    /\ spawned \in [Jobs -> Nat]

\* Every id in use was drawn by one POST; before its request is written the id
\* is known to no one else.
Ids ==
    /\ \A h \in Handlers : pc[h] # "idle" => mine[h] \in Jobs /\ kind[mine[h]] # "none"
    /\ \A g, h \in Handlers : pc[g] # "idle" /\ pc[h] # "idle" /\ mine[g] = mine[h] => g = h
    /\ \A r \in requests : kind[r.job] # "none"
    /\ cur # NoClaim => kind[cur.job] # "none"
    /\ \A h \in Handlers : pc[h] \in Unwritten =>
         mine[h] # cur.job /\ \A r \in requests : r.job # mine[h]

\* Where the supervisor has a claim in hand.
InHand == {"validate", "mkdir", "start", "preflight", "spawn", "wait", "finish", "cleanup", "discard"}

Runs ==
    /\ \A j \in Jobs : spawned[j] <= 1 /\ (spawned[j] > 0 => j \in rundirs)
    /\ sup \in InHand => cur \in Claimed
    /\ sup \in InHand \ {"validate", "mkdir", "discard"} => cur.job \in rundirs
    /\ sup \in {"start", "preflight", "spawn"} => spawned[cur.job] = 0

\* A request that was never started, and a job in the supervisor's hand, is active.
Backed ==
    /\ \A r \in requests : r.job \notin rundirs => status[r.job] \in Active
    /\ sup \in {"validate", "mkdir"} /\ cur.job \notin rundirs => status[cur.job] \in Active
    /\ sup \in {"start", "preflight", "spawn", "wait"} => status[cur.job] \in Active
    /\ \A h \in Handlers : pc[h] = "request" => status[mine[h]] \in Active

Mutex ==
    ~stolen =>
        /\ \A h \in Handlers : pc[h] # "relock"
        /\ \A h \in Handlers : pc[h] \in Holding => lock # Gone
        /\ \A g, h \in Handlers : pc[g] \in Holding /\ pc[h] \in Holding => g = h
        /\ \A h \in Handlers : pc[h] = "job" => ActiveJobs = {}
        /\ \A i, j \in ActiveJobs : i = j

\* An id whose request is not written has no run and no outcome yet.
Fresh ==
    /\ \A j \in Jobs : j \in rundirs \/ status[j] \in Terminal => kind[j] # "none"
    /\ \A h \in Handlers : pc[h] \in Unwritten =>
         mine[h] \notin rundirs /\ status[mine[h]] \notin Terminal

\* As long as the supervisor does not die, the claim in its hand is the only one
\* and no job is claimed twice; its status is not final before its outcome.
Tidy ==
    supCrashes = 0 =>
        /\ \A q, r \in requests : q.job = r.job => q = r
        /\ \A r \in requests :
             r.job \in rundirs \/ r.depth # 0 => sup \in InHand /\ r.job = cur.job
        /\ sup \in InHand =>
             cur.depth = 1 /\ \A r \in requests : r.job = cur.job => r.depth = 1
        /\ sup \notin {"discard", "down"}
        /\ sup \in {"validate", "mkdir"} => cur.job \notin rundirs
        /\ sup = "finish" => status[cur.job] \in Active

QueueInv == Types /\ Ids /\ Runs /\ Backed /\ Mutex /\ Fresh /\ Tidy

USE NoJobIsNotAJob
    DEF QueueInv, Types, Ids, Runs, Backed, Mutex, Fresh, Tidy, Pcs, Holding, Unwritten, InHand,
        ActiveJobs, Active, Terminal, Claimed, NoClaim, Gone, Goto, supVars, apiVars, files, faults,
        SupUnchanged

-----------------------------------------------------------------------------
LEMMA QueueInit == Init => QueueInv
BY DEF Init

\* Requests only grow older.
LEMMA TickKeepsInv == ASSUME QueueInv, Tick PROVE QueueInv'
<1>. DEFINE aged(r) == [r EXCEPT !.age = Older(@, ProcessingStale)]
<1>1. requests' = {aged(r) : r \in requests}
  BY DEF Tick
<1>2. \A r \in Claimed : aged(r) \in Claimed /\ aged(r).job = r.job /\ aged(r).depth = r.depth
  BY DEF Older
<1>3. UNCHANGED <<pc, mine, kind, status, sup, cur, outcome, rundirs, spawned, stolen, supCrashes>>
  BY DEF Tick
<1>4. lock' \in Nat \cup {Gone} /\ (lock # Gone => lock' # Gone)
  BY TuneConstants DEF Tick, Older
<1>. HIDE DEF aged, Claimed
<1>5. Tidy'
  BY <1>1, <1>2, <1>3
<1>6. Types' /\ Ids'
  BY <1>1, <1>2, <1>3, <1>4
<1>7. Runs' /\ Backed' /\ Mutex' /\ Fresh'
  BY <1>1, <1>2, <1>3, <1>4
<1>. QED BY <1>5, <1>6, <1>7

LEMMA PostKeepsInv == ASSUME QueueInv, NEW h \in Handlers, NEW j \in Jobs, Post(h, j) PROVE QueueInv'
<1>1. Types'
  BY TuneConstants DEF Post
<1>2. Ids'
  <2>1. KindOf[j] # "none" /\ kind[j] = "none"
    BY TuneConstants DEF Post
  <2>2. \A i \in Jobs : kind'[i] = IF i = j THEN KindOf[j] ELSE kind[i]
    BY DEF Post
  <2>3. \A g \in Handlers : mine'[g] = IF g = h THEN j ELSE mine[g]
    BY DEF Post
  <2>4. \A g \in Handlers : g # h => pc'[g] = pc[g] /\ (pc[g] # "idle" => mine[g] # j)
    BY <2>1 DEF Post
  <2>5. cur.job # j /\ \A r \in requests : r.job # j
    BY <2>1
  <2>6. UNCHANGED <<requests, cur>>
    BY DEF Post
  <2>. QED BY <2>1, <2>2, <2>3, <2>4, <2>5, <2>6
<1>3. Runs' /\ Backed' /\ Mutex' /\ Tidy'
  BY DEF Post
<1>4. Fresh'
  <2>1. KindOf[j] # "none" /\ kind[j] = "none"
    BY TuneConstants DEF Post
  <2>2. \A i \in Jobs : kind'[i] = IF i = j THEN KindOf[j] ELSE kind[i]
    BY DEF Post
  <2>3. \A g \in Handlers : pc'[g] \in Unwritten =>
          (IF g = h THEN mine'[g] = j ELSE pc[g] \in Unwritten /\ mine'[g] = mine[g])
    BY DEF Post
  <2>4. UNCHANGED <<rundirs, status>>
    BY DEF Post
  <2>. HIDE DEF Unwritten, Terminal
  <2>. QED BY <2>1, <2>2, <2>3, <2>4
<1>. QED BY <1>1, <1>2, <1>3, <1>4

LEMMA StageUploadKeepsInv == ASSUME QueueInv, NEW h \in Handlers, StageUpload(h) PROVE QueueInv'
BY DEF StageUpload

LEMMA CreateLockKeepsInv == ASSUME QueueInv, NEW h \in Handlers, CreateLock(h) PROVE QueueInv'
BY DEF CreateLock

LEMMA LockBusyKeepsInv == ASSUME QueueInv, NEW h \in Handlers, LockBusy(h) PROVE QueueInv'
BY DEF LockBusy

LEMMA SeeStaleLockKeepsInv == ASSUME QueueInv, NEW h \in Handlers, SeeStaleLock(h) PROVE QueueInv'
BY DEF SeeStaleLock

LEMMA StealLockKeepsInv == ASSUME QueueInv, NEW h \in Handlers, StealLock(h) PROVE QueueInv'
BY DEF StealLock

LEMMA CheckActiveKeepsInv == ASSUME QueueInv, NEW h \in Handlers, CheckActive(h) PROVE QueueInv'
BY DEF CheckActive

LEMMA WriteJobKeepsInv == ASSUME QueueInv, NEW h \in Handlers, WriteJob(h) PROVE QueueInv'
BY DEF WriteJob

LEMMA WriteRequestKeepsInv == ASSUME QueueInv, NEW h \in Handlers, WriteRequest(h) PROVE QueueInv'
BY DEF WriteRequest

LEMMA UndoKeepsInv == ASSUME QueueInv, NEW h \in Handlers, Undo(h) PROVE QueueInv'
BY DEF Undo

LEMMA UnlockKeepsInv == ASSUME QueueInv, NEW h \in Handlers, Unlock(h) PROVE QueueInv'
BY DEF Unlock

LEMMA AnswerKeepsInv == ASSUME QueueInv, NEW h \in Handlers, Answer(h) PROVE QueueInv'
BY DEF Answer

LEMMA ApiCrashKeepsInv == ASSUME QueueInv, NEW h \in Handlers, ApiCrash(h) PROVE QueueInv'
BY DEF ApiCrash

LEMMA RecoverStaleKeepsInv == ASSUME QueueInv, RecoverStale PROVE QueueInv'
BY DEF RecoverStale

LEMMA DeleteExpiredUploadsKeepsInv == ASSUME QueueInv, DeleteExpiredUploads PROVE QueueInv'
BY DEF DeleteExpiredUploads

LEMMA ClaimNextKeepsInv == ASSUME QueueInv, ClaimNext PROVE QueueInv'
BY DEF ClaimNext

LEMMA NothingToClaimKeepsInv == ASSUME QueueInv, NothingToClaim PROVE QueueInv'
BY DEF NothingToClaim

LEMMA ValidateKeepsInv == ASSUME QueueInv, Validate PROVE QueueInv'
BY DEF Validate

LEMMA MakeRunDirKeepsInv == ASSUME QueueInv, MakeRunDir PROVE QueueInv'
<1>1. Types' /\ Ids' /\ Runs'
  BY DEF MakeRunDir
<1>2. Backed'
  BY DEF MakeRunDir
<1>3. Mutex'
  BY DEF MakeRunDir
<1>4. Fresh'
  BY DEF MakeRunDir
<1>5. Tidy'
  BY DEF MakeRunDir
<1>. QED BY <1>1, <1>2, <1>3, <1>4, <1>5

LEMMA StartRunningKeepsInv == ASSUME QueueInv, StartRunning PROVE QueueInv'
BY DEF StartRunning

LEMMA PreflightKeepsInv == ASSUME QueueInv, Preflight PROVE QueueInv'
BY DEF Preflight

LEMMA SpawnKeepsInv == ASSUME QueueInv, Spawn PROVE QueueInv'
BY DEF Spawn

LEMMA HeartbeatKeepsInv == ASSUME QueueInv, Heartbeat PROVE QueueInv'
BY DEF Heartbeat

LEMMA ReapKeepsInv == ASSUME QueueInv, Reap PROVE QueueInv'
BY DEF Reap

LEMMA KillOnTimeoutKeepsInv == ASSUME QueueInv, KillOnTimeout PROVE QueueInv'
BY DEF KillOnTimeout

LEMMA WriteOutcomeKeepsInv == ASSUME QueueInv, WriteOutcome PROVE QueueInv'
BY DEF WriteOutcome

LEMMA CleanupKeepsInv == ASSUME QueueInv, Cleanup PROVE QueueInv'
BY DEF Cleanup

LEMMA SupervisorCrashKeepsInv == ASSUME QueueInv, SupervisorCrash PROVE QueueInv'
BY DEF SupervisorCrash

LEMMA SupervisorStartKeepsInv == ASSUME QueueInv, SupervisorStart PROVE QueueInv'
BY DEF SupervisorStart

LEMMA ChildExitKeepsInv == ASSUME QueueInv, NEW j \in Jobs, ChildExit(j) PROVE QueueInv'
BY DEF ChildExit

-----------------------------------------------------------------------------
LEMMA QueueStep == QueueInv /\ [Next]_vars => QueueInv'
<1>. SUFFICES ASSUME QueueInv, [Next]_vars
              PROVE  QueueInv'
  OBVIOUS
<1>1. ASSUME NEW h \in Handlers,
             (\E j \in Jobs : Post(h, j)) \/ HandlerStep(h) \/ ApiCrash(h)
      PROVE  QueueInv'
  BY <1>1, PostKeepsInv, StageUploadKeepsInv, CreateLockKeepsInv, LockBusyKeepsInv,
     SeeStaleLockKeepsInv, StealLockKeepsInv, CheckActiveKeepsInv, WriteJobKeepsInv,
     WriteRequestKeepsInv, UndoKeepsInv, UnlockKeepsInv, AnswerKeepsInv, ApiCrashKeepsInv
     DEF HandlerStep
<1>2. CASE SupervisorStep
  BY <1>2, RecoverStaleKeepsInv, DeleteExpiredUploadsKeepsInv, ClaimNextKeepsInv,
     NothingToClaimKeepsInv, ValidateKeepsInv, MakeRunDirKeepsInv, StartRunningKeepsInv,
     PreflightKeepsInv, SpawnKeepsInv, ReapKeepsInv, KillOnTimeoutKeepsInv,
     WriteOutcomeKeepsInv, CleanupKeepsInv, SupervisorStartKeepsInv
     DEF SupervisorStep
<1>3. CASE Tick \/ Heartbeat \/ SupervisorCrash \/ \E j \in Jobs : ChildExit(j)
  BY <1>3, TickKeepsInv, HeartbeatKeepsInv, SupervisorCrashKeepsInv, ChildExitKeepsInv
<1>4. CASE UNCHANGED vars
  BY <1>4 DEF vars
<1>. HIDE DEF QueueInv
<1>. QED BY <1>1, <1>2, <1>3, <1>4 DEF Next

LEMMA QueueInvariant == Spec => []QueueInv
<1>. HIDE DEF QueueInv
<1>. QED BY QueueInit, QueueStep, PTL DEF Spec

\* The check and the two writes of enqueue are serialized by the lock file, and
\* nothing the supervisor writes makes a settled job active again
\* (tune_admin/repository.py enqueue, tune_demo_supervisor.py execute).
THEOREM OneJobIsActive == Spec => []OneActiveJob
<1>1. QueueInv => OneActiveJob
  <2>. SUFFICES ASSUME QueueInv, ~stolen
                PROVE  Cardinality(ActiveJobs) <= 1
    BY DEF OneActiveJob
  <2>1. \A i, j \in ActiveJobs : i = j
    OBVIOUS
  <2>. HIDE DEF ActiveJobs, QueueInv
  <2>2. CASE ActiveJobs = {}
    BY <2>2, FS_EmptySet
  <2>3. CASE \E j \in ActiveJobs : ActiveJobs = {j}
    BY <2>3, FS_Singleton
  <2>. QED BY <2>1, <2>2, <2>3
<1>. QED BY <1>1, QueueInvariant, PTL

\* A job's command is started once at most, because a requeued claim cannot
\* make the run directory again (execute's mkdir(exist_ok=False)).
THEOREM CommandStartsOnce == Spec => []NoJobRunsTwice
<1>1. QueueInv => NoJobRunsTwice
  BY DEF NoJobRunsTwice
<1>. QED BY <1>1, QueueInvariant, PTL

\* The status of a settled job is written by nobody: a POST writes the id it
\* drew, and the supervisor the job in its hand, which is not settled.
LEMMA StatusStays ==
    ASSUME QueueInv, [Next]_vars, supCrashes = 0, NEW j \in Jobs, status[j] \in Terminal
    PROVE  status'[j] = status[j]
<1>1. CASE \E h \in Handlers : WriteJob(h) \/ Undo(h)
  BY <1>1 DEF WriteJob, Undo
<1>2. CASE MakeRunDir \/ StartRunning \/ Spawn \/ Heartbeat \/ WriteOutcome
  BY <1>2 DEF MakeRunDir, StartRunning, Spawn, Heartbeat, WriteOutcome
<1>3. CASE UNCHANGED status
  BY <1>3
<1>4. ASSUME NEW h \in Handlers,
             (\E i \in Jobs : Post(h, i)) \/ HandlerStep(h) \/ ApiCrash(h),
             ~ (WriteJob(h) \/ Undo(h))
      PROVE  UNCHANGED status
  BY <1>4 DEF HandlerStep, Post, StageUpload, CreateLock, LockBusy, SeeStaleLock, StealLock,
              CheckActive, WriteRequest, Unlock, Answer, ApiCrash
<1>5. ASSUME SupervisorStep \/ Tick \/ SupervisorCrash \/ (\E i \in Jobs : ChildExit(i)),
             ~ (MakeRunDir \/ StartRunning \/ Spawn \/ WriteOutcome)
      PROVE  UNCHANGED status
  BY <1>5 DEF SupervisorStep, RecoverStale, DeleteExpiredUploads, ClaimNext, NothingToClaim,
              Validate, Preflight, Reap, KillOnTimeout, Cleanup, SupervisorStart,
              Tick, SupervisorCrash, ChildExit
<1>6. CASE UNCHANGED vars
  BY <1>3, <1>6 DEF vars
<1>. HIDE DEF QueueInv
<1>. QED BY <1>1, <1>2, <1>3, <1>4, <1>5, <1>6 DEF Next

\* What a poll of a job showed as final stays final while the supervisor lives
\* (execute and process_claim, tune_demo_supervisor.py; repository.py enqueue).
THEOREM FinalStays == Spec => FinalStatusStays
<1>1. QueueInv /\ [Next]_vars =>
        [supCrashes = 0 =>
           \A j \in Jobs : status[j] \in Terminal => status'[j] = status[j]]_vars
  <2>. HIDE DEF QueueInv, Terminal
  <2>. QED BY StatusStays
<1>. HIDE DEF QueueInv, Terminal
<1>. QED BY <1>1, QueueInvariant, PTL DEF Spec, FinalStatusStays

================================================================================
