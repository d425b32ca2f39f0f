---------------------------- MODULE Gauntlet_proofs ----------------------------
(***************************************************************************)
(* What the corpus and the records table promise, proved for any number of *)
(* workers and turns, any likeness of recordings, claims, deaths and late  *)
(* workers.  Torn writes are included wherever a theorem does not exclude  *)
(* them.                                                                   *)
(*                                                                         *)
(* The argument: an exporting worker serves a recorded, eligible turn      *)
(* (WorkersOK), its line goes to one shard only (FilesOK), and a turn that *)
(* was once fit for export makes every matching recording a duplicate for  *)
(* good (FitOK), so that a context read long ago does no harm.  A torn     *)
(* write can only take a line away; without one, links hold too (WholeInv).*)
(***************************************************************************)
EXTENDS Gauntlet, FiniteSetTheorems, SequenceTheorems, TLAPS

Exporting == {"lock", "locked", "append", "torn", "link", "unlock"}
Packaging == {"state", "create"} \cup Exporting

Types ==
    /\ {scored, validated, triaged, duplicate, eligible, clean} \subseteq SUBSET Turns
    /\ pc \in [Workers -> Pcs]
    /\ job \in [Workers -> Jobs \cup {NoJob}]
    /\ fit \in [Workers -> BOOLEAN]
    /\ target \in [Workers -> Nat]
    /\ shardOf \in [Turns -> Nat]
    /\ recorded \subseteq Turns

WorkersOK ==
    \A w \in Workers :
        /\ pc[w] # "idle" => job[w] \in Jobs
        /\ pc[w] \in Packaging => TurnOf(w) \in scored
        /\ fit[w] => pc[w] # "idle" /\ TurnOf(w) \in scored \cap validated
        /\ pc[w] \in Exporting => TurnOf(w) \in eligible

\* A turn that is, was or will be exported.
FitNow(t) == t \in eligible \/ InCorpus(t) \/ \E w \in Workers : fit[w] /\ TurnOf(w) = t

FitOK ==
    \A t \in Turns : FitNow(t) =>
        /\ t \in triaged
        /\ \A u \in Turns : {t, u} \in Alike => ~FitNow(u) /\ (u \in triaged => u \in duplicate)

OneShardEach ==
    /\ \A t \in Turns : \A m, n \in ShardsWith(shards, t) : m = n
    /\ \A n \in DOMAIN shards : \A i, k \in DOMAIN shards[n].lines :
        shards[n].lines[i] = shards[n].lines[k] /\ shards[n].lines[i] # Garbage => i = k

FilesOK == shards \in Seq(Shard) /\ OneShardEach

GauntletInv == Types /\ WorkersOK /\ OneOriginal /\ FitOK /\ FilesOK

\* What holds as long as every write is whole: lines end with a newline, and
\* what is linked, or about to be, is there.
WholeInv ==
    /\ \A n \in DOMAIN shards : ~shards[n].open
    /\ LinkedLineExists
    /\ \A w \in Workers : pc[w] = "link" => target[w] \in ShardsWith(shards, TurnOf(w))

-----------------------------------------------------------------------------
(* Corpus.AppendRecord *)

\* A whole line appended to shards that all end with a newline.
LEMMA AppendRecordEffect ==
    ASSUME NEW s \in Seq(Shard), \A n \in DOMAIN s : ~s[n].open, NEW t \in Turns
    PROVE  LET r == AppendRecord(s, t, "whole")
               n == CurrentShard(s)
               old == IF n \in DOMAIN s THEN s[n].lines ELSE <<>>
           IN  /\ r \in Seq(Shard)
               /\ n \in Nat \ {0}
               /\ DOMAIN r = DOMAIN s \cup {n}
               /\ \A m \in DOMAIN s \ {n} : r[m] = s[m]
               /\ old \in Seq(Turns \cup {Garbage})
               /\ r[n] = [lines |-> Append(old, t), open |-> FALSE]
<1>. DEFINE n == CurrentShard(s)
            old == IF n \in DOMAIN s THEN s[n].lines ELSE <<>>
            line == [lines |-> Append(old, t), open |-> FALSE]
<1>1. Len(s) \in Nat /\ DOMAIN s = 1..Len(s) /\ n \in 1..(Len(s) + 1)
  BY EmptySeq, LenProperties DEF CurrentShard
<1>2. \A m \in DOMAIN s : s[m] \in Shard
  BY <1>1, ElementOfSeq
<1>3. old \in Seq(Turns \cup {Garbage})
  BY <1>2, EmptySeq DEF Shard
<1>4. line \in Shard
  BY <1>3, AppendProperties DEF Shard
<1>5. CASE n \in DOMAIN s
  <2>1. WriteLine(s[n], t, "whole") = line
    BY <1>5 DEF WriteLine
  <2>2. AppendRecord(s, t, "whole") = [s EXCEPT ![n] = line]
    BY <1>5, <2>1 DEF AppendRecord
  <2>. HIDE DEF n, line, old
  <2>3. [s EXCEPT ![n] = line] \in Seq(Shard) /\ DOMAIN [s EXCEPT ![n] = line] = DOMAIN s
    BY <1>1, <1>4, <1>5, ExceptSeq
  <2>4. [s EXCEPT ![n] = line][n] = line /\ \A m \in DOMAIN s \ {n} : [s EXCEPT ![n] = line][m] = s[m]
    BY <1>5
  <2>5. AppendRecord(s, t, "whole")[n] = line
    BY <2>2, <2>4
  <2>6. DOMAIN AppendRecord(s, t, "whole") = DOMAIN s \cup {n}
    BY <1>5, <2>2, <2>3
  <2>7. n \in Nat \ {0}
    BY <1>1, <1>5
  <2>. QED BY <1>3, <2>2, <2>3, <2>4, <2>5, <2>6, <2>7 DEF n, line, old
<1>6. CASE n \notin DOMAIN s
  <2>1. WriteLine(EmptyShard, t, "whole") = line
    BY <1>6 DEF WriteLine, EmptyShard
  <2>2. AppendRecord(s, t, "whole") = Append(s, line)
    BY <1>6, <2>1 DEF AppendRecord
  <2>4. n = Len(s) + 1
    <3>. HIDE DEF n
    <3>. QED BY <1>1, <1>6
  <2>. HIDE DEF n, line, old
  <2>3. /\ Append(s, line) \in Seq(Shard)
        /\ DOMAIN Append(s, line) = 1..(Len(s) + 1)
        /\ Append(s, line)[Len(s) + 1] = line
        /\ \A m \in 1..Len(s) : Append(s, line)[m] = s[m]
    BY <1>4, AppendProperties, LenProperties
  <2>5. DOMAIN Append(s, line) = DOMAIN s \cup {n} /\ n \in Nat \ {0}
    BY <1>1, <2>3, <2>4
  <2>6. Append(s, line)[n] = line /\ \A m \in DOMAIN s \ {n} : Append(s, line)[m] = s[m]
    BY <1>1, <2>3, <2>4
  <2>. QED BY <1>3, <2>2, <2>3, <2>5, <2>6 DEF n, line, old
<1>. QED BY <1>5, <1>6

\* Which shards hold which lines afterwards.
LEMMA AppendRecordLines ==
    ASSUME NEW s \in Seq(Shard), \A n \in DOMAIN s : ~s[n].open, NEW t \in Turns
    PROVE  LET r == AppendRecord(s, t, "whole") IN
           /\ r \in Seq(Shard)
           /\ \A n \in DOMAIN r : ~r[n].open
           /\ CurrentShard(s) \in Nat \ {0}
           /\ ShardsWith(r, t) = ShardsWith(s, t) \cup {CurrentShard(s)}
           /\ \A u \in Turns \ {t} : ShardsWith(r, u) = ShardsWith(s, u)
<1>. DEFINE r == AppendRecord(s, t, "whole")
            n == CurrentShard(s)
            old == IF n \in DOMAIN s THEN s[n].lines ELSE <<>>
<1>1. /\ r \in Seq(Shard) /\ n \in Nat \ {0}
      /\ DOMAIN r = DOMAIN s \cup {n}
      /\ \A m \in DOMAIN s \ {n} : r[m] = s[m]
      /\ old \in Seq(Turns \cup {Garbage})
      /\ r[n] = [lines |-> Append(old, t), open |-> FALSE]
  BY AppendRecordEffect
<1>2. \A u : u \in LinesOf(r, n) <=> u = t \/ \E i \in DOMAIN old : old[i] = u
  <2>. HIDE DEF r, n, old
  <2>1. /\ DOMAIN Append(old, t) = DOMAIN old \cup {Len(old) + 1}
        /\ Append(old, t)[Len(old) + 1] = t
        /\ \A i \in DOMAIN old : Append(old, t)[i] = old[i]
    BY <1>1, AppendProperties, LenProperties
  <2>. QED BY <1>1, <2>1 DEF LinesOf
<1>3. \A u : n \in ShardsWith(s, u) <=> \E i \in DOMAIN old : old[i] = u
  BY <1>1 DEF ShardsWith, LinesOf
<1>4. \A u : \A m \in DOMAIN s \ {n} : m \in ShardsWith(r, u) <=> m \in ShardsWith(s, u)
  BY <1>1 DEF ShardsWith, LinesOf
<1>5. \A u : n \in ShardsWith(r, u) <=> u = t \/ n \in ShardsWith(s, u)
  BY <1>1, <1>2, <1>3 DEF ShardsWith
<1>6. \A u : ShardsWith(r, u) \subseteq DOMAIN s \cup {n} /\ ShardsWith(s, u) \subseteq DOMAIN s
  BY <1>1 DEF ShardsWith
<1>7. \A m \in DOMAIN r : ~r[m].open
  BY <1>1
<1>. HIDE DEF r, n, old
<1>8. ShardsWith(r, t) = ShardsWith(s, t) \cup {n}
  BY <1>4, <1>5, <1>6
<1>9. ASSUME NEW u \in Turns \ {t}
      PROVE  ShardsWith(r, u) = ShardsWith(s, u)
  <2>1. \A m : m \in ShardsWith(r, u) <=> m \in ShardsWith(s, u)
    BY <1>4, <1>5, <1>6
  <2>. QED BY <2>1
<1>. QED BY <1>1, <1>7, <1>8, <1>9 DEF r, n

-----------------------------------------------------------------------------
(* Facts about the constants *)

LEMMA JobParts == \A j \in Jobs : j[1] \in Kinds /\ j[2] \in Turns
BY DEF Jobs

LEMMA AlikeSymmetric == \A t, u : {t, u} = {u, t}
OBVIOUS

LEMMA NotAlikeItself == \A t : {t, t} \notin Alike
<1>. SUFFICES ASSUME NEW t, {t, t} \in Alike
              PROVE  FALSE
  OBVIOUS
<1>1. Cardinality({t, t}) = 2
  BY GauntletAssumption
<1>2. {t, t} = {t}
  OBVIOUS
<1>. QED BY <1>1, <1>2, FS_Singleton

LEMMA AtMostOne == ASSUME NEW S, \A a, b \in S : a = b PROVE Cardinality(S) <= 1
<1>1. CASE S = {}
  BY <1>1, FS_EmptySet
<1>2. CASE S # {}
  <2>1. PICK a \in S : S = {a}
    BY <1>2
  <2>. QED BY <2>1, FS_Singleton
<1>. QED BY <1>1, <1>2

USE DEF turnVars, qualityVars, jobVars, recordVars, workerVars, Goto, Leave,
        Types, Pcs, Kinds, Exporting, Packaging

-----------------------------------------------------------------------------
(* The files *)

LEMMA FilesSame == ASSUME FilesOK, UNCHANGED shards PROVE FilesOK'
BY DEF FilesOK, OneShardEach

\* The lines of a shard after a write, whole or torn: nothing but the turn is new.
Grown(lines, old, t) ==
    \A i \in DOMAIN lines : lines[i] # Garbage =>
        (i \in DOMAIN old /\ lines[i] = old[i]) \/ (i = Len(old) + 1 /\ lines[i] = t)

LEMMA WriteLineGrows ==
    ASSUME NEW shard \in Shard, NEW t \in Turns, NEW result \in WriteResults
    PROVE  /\ WriteLine(shard, t, result) \in Shard
           /\ Grown(WriteLine(shard, t, result).lines, shard.lines, t)
<1>. DEFINE old == shard.lines
<1>1. old \in Seq(Turns \cup {Garbage}) /\ shard.open \in BOOLEAN
  BY DEF Shard
<1>2. (result # "whole") \in BOOLEAN
  OBVIOUS
<1>3. CASE shard.open
  <2>. DEFINE lines == [old EXCEPT ![Len(old)] = Garbage]
  <2>1. WriteLine(shard, t, result) = [lines |-> lines, open |-> result # "whole"]
    BY <1>3 DEF WriteLine
  <2>2. lines \in Seq(Turns \cup {Garbage}) /\ DOMAIN lines = DOMAIN old
        /\ \A i \in DOMAIN old : lines[i] = Garbage \/ lines[i] = old[i]
    <3>. HIDE DEF old
    <3>1. old \in [1..Len(old) -> Turns \cup {Garbage}] /\ Len(old) \in Nat
      BY <1>1, LenProperties
    <3>2. lines \in [1..Len(old) -> Turns \cup {Garbage}]
      BY <3>1
    <3>. QED BY <3>1, <3>2, SeqDef
  <2>. HIDE DEF lines, old
  <2>3. [lines |-> lines, open |-> result # "whole"] \in Shard
    BY <1>2, <2>2 DEF Shard
  <2>. QED BY <2>1, <2>2, <2>3 DEF Grown, old
<1>4. CASE ~shard.open
  <2>. DEFINE line == IF result = "prefix" THEN Garbage ELSE t
  <2>1. WriteLine(shard, t, result) = [lines |-> Append(old, line), open |-> result # "whole"]
    BY <1>4 DEF WriteLine
  <2>2. line \in Turns \cup {Garbage} /\ line \in {t, Garbage}
    OBVIOUS
  <2>. HIDE DEF line, old
  <2>3. /\ Append(old, line) \in Seq(Turns \cup {Garbage})
        /\ DOMAIN Append(old, line) = DOMAIN old \cup {Len(old) + 1}
        /\ Append(old, line)[Len(old) + 1] = line
        /\ \A i \in DOMAIN old : Append(old, line)[i] = old[i]
    BY <1>1, <2>2, AppendProperties, LenProperties
  <2>4. [lines |-> Append(old, line), open |-> result # "whole"] \in Shard
    BY <1>2, <2>3 DEF Shard
  <2>. QED BY <2>1, <2>2, <2>3, <2>4 DEF Grown, old
<1>. QED BY <1>1, <1>3, <1>4

LEMMA AppendRecordGrows ==
    ASSUME NEW s \in Seq(Shard), NEW t \in Turns, NEW result \in WriteResults
    PROVE  LET r == AppendRecord(s, t, result)
               n == CurrentShard(s)
           IN  /\ r \in Seq(Shard)
               /\ n \in Nat
               /\ DOMAIN r = DOMAIN s \cup {n}
               /\ \A m \in DOMAIN s \ {n} : r[m] = s[m]
               /\ Grown(r[n].lines, IF n \in DOMAIN s THEN s[n].lines ELSE <<>>, t)
<1>. DEFINE n == CurrentShard(s)
<1>1. Len(s) \in Nat /\ DOMAIN s = 1..Len(s) /\ n \in 1..(Len(s) + 1)
  BY EmptySeq, LenProperties DEF CurrentShard
<1>2. \A m \in DOMAIN s : s[m] \in Shard
  BY <1>1, ElementOfSeq
<1>3. CASE n \in DOMAIN s
  <2>. DEFINE line == WriteLine(s[n], t, result)
  <2>1. AppendRecord(s, t, result) = [s EXCEPT ![n] = line]
    BY <1>3 DEF AppendRecord
  <2>2. line \in Shard /\ Grown(line.lines, s[n].lines, t)
    BY <1>2, <1>3, WriteLineGrows
  <2>. HIDE DEF n, line
  <2>3. [s EXCEPT ![n] = line] \in Seq(Shard) /\ DOMAIN [s EXCEPT ![n] = line] = DOMAIN s
    BY <1>1, <1>3, <2>2, ExceptSeq
  <2>4. [s EXCEPT ![n] = line][n] = line /\ \A m \in DOMAIN s \ {n} : [s EXCEPT ![n] = line][m] = s[m]
    BY <1>3
  <2>5. DOMAIN s = DOMAIN s \cup {n} /\ n \in Nat
    BY <1>1, <1>3
  <2>. QED BY <1>3, <2>1, <2>2, <2>3, <2>4, <2>5 DEF n
<1>4. CASE n \notin DOMAIN s
  <2>. DEFINE line == WriteLine(EmptyShard, t, result)
  <2>0. n = Len(s) + 1
    <3>. HIDE DEF n
    <3>. QED BY <1>1, <1>4
  <2>1. AppendRecord(s, t, result) = Append(s, line)
    BY <1>4 DEF AppendRecord
  <2>2. EmptyShard \in Shard /\ EmptyShard.lines = <<>>
    BY EmptySeq DEF EmptyShard, Shard
  <2>3. line \in Shard /\ Grown(line.lines, <<>>, t)
    BY <2>2, WriteLineGrows
  <2>. HIDE DEF n, line
  <2>4. /\ Append(s, line) \in Seq(Shard)
        /\ DOMAIN Append(s, line) = 1..(Len(s) + 1)
        /\ Append(s, line)[Len(s) + 1] = line
        /\ \A m \in 1..Len(s) : Append(s, line)[m] = s[m]
    BY <2>3, AppendProperties, LenProperties
  <2>5. DOMAIN Append(s, line) = DOMAIN s \cup {n} /\ n \in Nat
    BY <1>1, <2>0, <2>4
  <2>6. Append(s, line)[n] = line /\ \A m \in DOMAIN s \ {n} : Append(s, line)[m] = s[m]
    BY <1>1, <2>0, <2>4
  <2>. QED BY <1>4, <2>1, <2>3, <2>4, <2>5, <2>6 DEF n
<1>. QED BY <1>3, <1>4

\* Writing the line of a turn that is in no shard leaves every other turn in at
\* most the shard it was in.
LEMMA WriteKeepsFiles ==
    ASSUME Types, FilesOK, NEW t \in Turns, ShardsWith(shards, t) = {},
           NEW result \in WriteResults, shards' = AppendRecord(shards, t, result)
    PROVE  /\ FilesOK'
           /\ CurrentShard(shards) \in Nat
           /\ \A u \in Turns \ {t} : ShardsWith(shards, u)' \subseteq ShardsWith(shards, u)
<1>. DEFINE n == CurrentShard(shards)
            old == IF n \in DOMAIN shards THEN shards[n].lines ELSE <<>>
<1>1. /\ shards' \in Seq(Shard)
      /\ n \in Nat
      /\ DOMAIN shards' = DOMAIN shards \cup {n}
      /\ \A m \in DOMAIN shards \ {n} : shards'[m] = shards[m]
      /\ Grown(shards'[n].lines, old, t)
  <2>1. shards \in Seq(Shard)
    BY DEF FilesOK
  <2>. DEFINE r == AppendRecord(shards, t, result)
  <2>2. /\ r \in Seq(Shard) /\ n \in Nat
        /\ DOMAIN r = DOMAIN shards \cup {n}
        /\ \A m \in DOMAIN shards \ {n} : r[m] = shards[m]
        /\ Grown(r[n].lines, old, t)
    BY <2>1, AppendRecordGrows
  <2>. HIDE DEF n, old
  <2>. QED BY <2>2
<1>2. \A i \in DOMAIN old : old[i] # t
  BY DEF ShardsWith, LinesOf
<1>3. \A i, k \in DOMAIN old : old[i] = old[k] /\ old[i] # Garbage => i = k
  BY DEF FilesOK, OneShardEach
<1>4. \A u : (\E i \in DOMAIN old : old[i] = u) => n \in ShardsWith(shards, u)
  BY DEF ShardsWith, LinesOf
<1>5. t # Garbage /\ \A u \in Turns : u # Garbage
  BY CorpusAssumption
<1>. HIDE DEF n, old
<1>6. ASSUME NEW u \in Turns, NEW m \in ShardsWith(shards', u)
      PROVE  m \in ShardsWith(shards, u) \/ (u = t /\ m = n)
  <2>0. m \in DOMAIN shards' /\ u \in LinesOf(shards', m)
    BY DEF ShardsWith
  <2>1. PICK i \in DOMAIN shards'[m].lines : shards'[m].lines[i] = u
    BY <2>0 DEF LinesOf
  <2>2. CASE m # n
    BY <1>1, <2>0, <2>1, <2>2 DEF ShardsWith, LinesOf
  <2>3. CASE m = n
    BY <1>1, <1>4, <1>5, <2>1, <2>3 DEF Grown
  <2>. QED BY <2>2, <2>3
<1>7. ASSUME NEW m \in DOMAIN shards', NEW i \in DOMAIN shards'[m].lines,
             NEW k \in DOMAIN shards'[m].lines,
             shards'[m].lines[i] = shards'[m].lines[k], shards'[m].lines[i] # Garbage
      PROVE  i = k
  <2>1. CASE m # n
    BY <1>1, <1>7, <2>1 DEF FilesOK, OneShardEach
  <2>2. CASE m = n
    BY <1>1, <1>2, <1>3, <1>7, <2>2 DEF Grown
  <2>. QED BY <2>1, <2>2
<1>8. \A u \in Turns : \A m, k \in ShardsWith(shards', u) : m = k
  BY <1>6 DEF FilesOK, OneShardEach
<1>. QED BY <1>1, <1>6, <1>7, <1>8 DEF FilesOK, OneShardEach, n

\* A whole line adds the shard it went to and nothing else.
LEMMA AppendAddsLine ==
    ASSUME FilesOK, \A m \in DOMAIN shards : ~shards[m].open, NEW t \in Turns,
           ShardsWith(shards, t) = {}, shards' = AppendRecord(shards, t, "whole")
    PROVE  /\ \A m \in DOMAIN shards' : ~shards'[m].open
           /\ ShardsWith(shards, t)' = {CurrentShard(shards)}
           /\ \A u \in Turns \ {t} : ShardsWith(shards, u)' = ShardsWith(shards, u)
BY AppendRecordLines DEF FilesOK

-----------------------------------------------------------------------------
(* The steps.  Most leave the files alone and make no turn fit. *)

LEMMA NothingFitter ==
    ASSUME FitOK, UNCHANGED <<triaged, duplicate>>, \A t \in Turns : FitNow(t)' => FitNow(t)
    PROVE  FitOK'
BY DEF FitOK

USE JobParts DEF WorkersOK, GauntletInv, TurnOf, FitNow, InCorpus

LEMMA ClaimKeepsInv == ASSUME GauntletInv, NEW w \in Workers, NEW j \in Jobs, Claim(w, j) PROVE GauntletInv'
<1>1. Types' /\ WorkersOK' /\ OneOriginal'
  BY DEF Claim, OneOriginal
<1>2. \A t \in Turns : FitNow(t)' => FitNow(t)
  BY DEF Claim
<1>. QED BY <1>1, <1>2, NothingFitter, FilesSame DEF Claim

LEMMA CompleteJobKeepsInv == ASSUME GauntletInv, NEW w \in Workers, CompleteJob(w) PROVE GauntletInv'
<1>1. Types' /\ WorkersOK' /\ OneOriginal'
  BY DEF CompleteJob, OneOriginal
<1>2. \A t \in Turns : FitNow(t)' => FitNow(t)
  BY DEF CompleteJob
<1>. QED BY <1>1, <1>2, NothingFitter, FilesSame DEF CompleteJob

LEMMA FailJobKeepsInv == ASSUME GauntletInv, NEW w \in Workers, FailJob(w) PROVE GauntletInv'
<1>1. Types' /\ WorkersOK' /\ OneOriginal'
  BY DEF FailJob, OneOriginal
<1>2. \A t \in Turns : FitNow(t)' => FitNow(t)
  BY DEF FailJob
<1>. QED BY <1>1, <1>2, NothingFitter, FilesSame DEF FailJob

LEMMA WorkerDiesKeepsInv == ASSUME GauntletInv, NEW w \in Workers, WorkerDies(w) PROVE GauntletInv'
<1>1. Types' /\ WorkersOK' /\ OneOriginal'
  BY DEF WorkerDies, OneOriginal
<1>2. \A t \in Turns : FitNow(t)' => FitNow(t)
  BY DEF WorkerDies
<1>. QED BY <1>1, <1>2, NothingFitter, FilesSame DEF WorkerDies

LEMMA ReadRecordKeepsInv == ASSUME GauntletInv, NEW w \in Workers, ReadRecord(w) PROVE GauntletInv'
<1>1. Types' /\ WorkersOK' /\ OneOriginal'
  BY DEF ReadRecord, OneOriginal, Exports
<1>2. \A t \in Turns : FitNow(t)' => FitNow(t)
  BY DEF ReadRecord, Exports
<1>. QED BY <1>1, <1>2, NothingFitter, FilesSame DEF ReadRecord

LEMMA CreateRecordKeepsInv == ASSUME GauntletInv, NEW w \in Workers, CreateRecord(w) PROVE GauntletInv'
<1>1. Types' /\ WorkersOK' /\ OneOriginal'
  BY DEF CreateRecord, OneOriginal
<1>2. \A t \in Turns : FitNow(t)' => FitNow(t)
  BY DEF CreateRecord
<1>. QED BY <1>1, <1>2, NothingFitter, FilesSame DEF CreateRecord

LEMMA AcquireFlusherLockKeepsInv == ASSUME GauntletInv, NEW w \in Workers, AcquireFlusherLock(w) PROVE GauntletInv'
<1>1. Types' /\ WorkersOK' /\ OneOriginal'
  BY DEF AcquireFlusherLock, OneOriginal
<1>2. \A t \in Turns : FitNow(t)' => FitNow(t)
  BY DEF AcquireFlusherLock
<1>. QED BY <1>1, <1>2, NothingFitter, FilesSame DEF AcquireFlusherLock

LEMMA ReadRecordLockedKeepsInv == ASSUME GauntletInv, NEW w \in Workers, ReadRecordLocked(w) PROVE GauntletInv'
<1>1. Types' /\ WorkersOK' /\ OneOriginal'
  BY DEF ReadRecordLocked, OneOriginal
<1>2. \A t \in Turns : FitNow(t)' => FitNow(t)
  BY DEF ReadRecordLocked
<1>. QED BY <1>1, <1>2, NothingFitter, FilesSame DEF ReadRecordLocked

LEMMA RelinkUtteranceKeepsInv == ASSUME GauntletInv, NEW w \in Workers, RelinkUtterance(w) PROVE GauntletInv'
<1>1. Types' /\ WorkersOK' /\ OneOriginal'
  BY DEF RelinkUtterance, OneOriginal, IsFirstShardWith, FilesOK
<1>2. \A t \in Turns : FitNow(t)' => FitNow(t)
  BY DEF RelinkUtterance, IsFirstShardWith, FilesOK
<1>. QED BY <1>1, <1>2, NothingFitter, FilesSame DEF RelinkUtterance

LEMMA ReleaseFlusherLockKeepsInv == ASSUME GauntletInv, NEW w \in Workers, ReleaseFlusherLock(w) PROVE GauntletInv'
<1>1. Types' /\ WorkersOK' /\ OneOriginal'
  BY DEF ReleaseFlusherLock, OneOriginal
<1>2. \A t \in Turns : FitNow(t)' => FitNow(t)
  BY DEF ReleaseFlusherLock
<1>. QED BY <1>1, <1>2, NothingFitter, FilesSame DEF ReleaseFlusherLock

LEMMA RecoverStaleClaimKeepsInv == ASSUME GauntletInv, NEW j \in Jobs, RecoverStaleClaim(j) PROVE GauntletInv'
<1>1. Types' /\ WorkersOK' /\ OneOriginal'
  BY DEF RecoverStaleClaim, OneOriginal
<1>2. \A t \in Turns : FitNow(t)' => FitNow(t)
  BY DEF RecoverStaleClaim
<1>. QED BY <1>1, <1>2, NothingFitter, FilesSame DEF RecoverStaleClaim

LEMMA AudioAcceptedKeepsInv == ASSUME GauntletInv, NEW t \in Turns, AudioAccepted(t) PROVE GauntletInv'
<1>1. Types' /\ WorkersOK' /\ OneOriginal'
  BY DEF AudioAccepted, OneOriginal
<1>2. \A u \in Turns : FitNow(u)' => FitNow(u)
  BY DEF AudioAccepted
<1>. QED BY <1>1, <1>2, NothingFitter, FilesSame DEF AudioAccepted

LEMMA GuessScoresKeepsInv == ASSUME GauntletInv, NEW t \in Turns, GuessScores(t) PROVE GauntletInv'
<1>1. Types' /\ WorkersOK' /\ OneOriginal'
  BY DEF GuessScores, OneOriginal
<1>2. \A u \in Turns : FitNow(u)' => FitNow(u)
  BY DEF GuessScores
<1>. QED BY <1>1, <1>2, NothingFitter, FilesSame DEF GuessScores

LEMMA AfterScoredKeepsInv == ASSUME GauntletInv, NEW t \in Turns, AfterScored(t) PROVE GauntletInv'
<1>1. Types' /\ WorkersOK' /\ OneOriginal'
  BY DEF AfterScored, OneOriginal
<1>2. \A u \in Turns : FitNow(u)' => FitNow(u)
  BY DEF AfterScored
<1>. QED BY <1>1, <1>2, NothingFitter, FilesSame DEF AfterScored

LEMMA PersistTriageKeepsInv == ASSUME GauntletInv, NEW w \in Workers, PersistTriage(w) PROVE GauntletInv'
<1>. DEFINE t == TurnOf(w)
<1>1. t \in Turns /\ triaged' = triaged \cup {t}
  BY DEF PersistTriage
<1>2. \/ duplicate' = duplicate \cup {t}
      \/ duplicate' = duplicate \ {t} /\ \A u \in triaged \ {t} : {t, u} \notin Alike
  BY DEF PersistTriage, Owned, NearClear
<1>3. Types' /\ WorkersOK'
  BY DEF PersistTriage
<1>4. UNCHANGED <<eligible, shards, shardOf, fit, job>>
  BY DEF PersistTriage
<1>. HIDE DEF t
<1>5. OneOriginal'
  <2>. SUFFICES ASSUME NEW a \in triaged', NEW b \in triaged', {a, b} \in Alike,
                       a \notin duplicate'
                PROVE  b \in duplicate'
    BY DEF OneOriginal
  <2>1. a # b
    BY NotAlikeItself
  <2>2. CASE a = t
    BY <1>1, <1>2, <2>1, <2>2 DEF OneOriginal
  <2>3. CASE b = t
    BY <1>1, <1>2, <2>1, <2>3, AlikeSymmetric DEF OneOriginal
  <2>4. CASE a # t /\ b # t
    BY <1>1, <1>2, <2>4 DEF OneOriginal
  <2>. QED BY <2>2, <2>3, <2>4
<1>6. \A u \in Turns : FitNow(u)' <=> FitNow(u)
  BY <1>4
<1>7. FitOK'
  BY <1>1, <1>2, <1>6, AlikeSymmetric, NotAlikeItself DEF FitOK
<1>. QED BY <1>3, <1>4, <1>5, <1>7, FilesSame

LEMMA ReadContextKeepsInv == ASSUME GauntletInv, NEW w \in Workers, ReadContext(w) PROVE GauntletInv'
<1>. DEFINE t == TurnOf(w)
<1>1. Types' /\ WorkersOK'
  BY DEF ReadContext, Ready, TrainingEligible
<1>2. UNCHANGED <<triaged, duplicate, eligible, shards, shardOf>>
  BY DEF ReadContext
<1>3. OneOriginal'
  BY <1>2 DEF OneOriginal
<1>4. \A u \in Turns : FitNow(u)' => FitNow(u) \/ (u = t /\ t \in triaged \ duplicate)
  BY DEF ReadContext, Ready, TrainingEligible
<1>5. FitOK'
  <2>. HIDE DEF t, FitNow
  <2>. QED BY <1>2, <1>4, AlikeSymmetric, NotAlikeItself DEF FitOK, OneOriginal
<1>. QED BY <1>1, <1>2, <1>3, <1>5, FilesSame

\* A write to the corpus, whole or torn.
LEMMA WriteKeepsInv ==
    ASSUME GauntletInv, NEW w \in Workers, AppendUtterance(w) \/ TearWrite(w)
    PROVE  GauntletInv'
<1>. DEFINE t == TurnOf(w)
<1>1. t \in Turns /\ t \in eligible /\ UNCHANGED <<shardOf, eligible, triaged, duplicate, fit, job>>
  BY DEF AppendUtterance, TearWrite
<1>2. PICK result \in WriteResults : shards' = AppendRecord(shards, t, result)
  BY DEF AppendUtterance, TearWrite, WriteResults
<1>3. ShardsWith(shards, t) = {}
  BY DEF AppendUtterance, TearWrite
<1>4. /\ FilesOK'
      /\ CurrentShard(shards) \in Nat
      /\ \A u \in Turns \ {t} : ShardsWith(shards, u)' \subseteq ShardsWith(shards, u)
  BY <1>1, <1>2, <1>3, WriteKeepsFiles
<1>5. Types' /\ OneOriginal'
  BY <1>4 DEF AppendUtterance, TearWrite, OneOriginal
<1>6. WorkersOK'
  BY DEF AppendUtterance, TearWrite
<1>7. \A u \in Turns : FitNow(u)' => FitNow(u)
  BY <1>1, <1>4
<1>. QED BY <1>1, <1>4, <1>5, <1>6, <1>7, NothingFitter

LEMMA LinkShardKeepsInv == ASSUME GauntletInv, NEW w \in Workers, LinkShard(w) PROVE GauntletInv'
<1>1. Types' /\ WorkersOK' /\ OneOriginal'
  BY DEF LinkShard, OneOriginal
<1>2. \A t \in Turns : FitNow(t)' => FitNow(t)
  BY DEF LinkShard
<1>. QED BY <1>1, <1>2, NothingFitter, FilesSame DEF LinkShard

-----------------------------------------------------------------------------
LEMMA GauntletInit == Init => GauntletInv
<1>. SUFFICES ASSUME Init PROVE GauntletInv
  OBVIOUS
<1>1. \A t \in Turns : ShardsWith(shards, t) = {}
  <2>1. DOMAIN shards = {}
    BY EmptySeq, LenProperties DEF Init
  <2>. QED BY <2>1 DEF ShardsWith
<1>2. FilesOK
  BY <1>1, EmptySeq DEF Init, FilesOK, OneShardEach
<1>. QED BY <1>1, <1>2 DEF Init, OneOriginal, FitOK

LEMMA GauntletStep == GauntletInv /\ [Next]_vars => GauntletInv'
<1>. SUFFICES ASSUME GauntletInv, [Next]_vars
              PROVE  GauntletInv'
  OBVIOUS
<1>1. ASSUME NEW w \in Workers,
             WorkerStep(w) \/ TearWrite(w) \/ FailJob(w) \/ WorkerDies(w)
               \/ \E j \in Jobs : Claim(w, j)
      PROVE  GauntletInv'
  BY <1>1, CompleteJobKeepsInv, PersistTriageKeepsInv, ReadContextKeepsInv, ReadRecordKeepsInv,
     CreateRecordKeepsInv, AcquireFlusherLockKeepsInv, ReadRecordLockedKeepsInv,
     RelinkUtteranceKeepsInv, WriteKeepsInv, LinkShardKeepsInv,
     ReleaseFlusherLockKeepsInv, FailJobKeepsInv, WorkerDiesKeepsInv, ClaimKeepsInv
     DEF WorkerStep
<1>2. ASSUME NEW t \in Turns, AudioAccepted(t) \/ GuessScores(t) \/ AfterScored(t)
      PROVE  GauntletInv'
  BY <1>2, AudioAcceptedKeepsInv, GuessScoresKeepsInv, AfterScoredKeepsInv
<1>3. CASE UNCHANGED vars
  <2>1. Types' /\ WorkersOK' /\ OneOriginal' /\ FitOK'
    BY <1>3 DEF vars, OneOriginal, FitOK
  <2>. QED BY <1>3, <2>1, FilesSame DEF vars
<1>. HIDE DEF GauntletInv
<1>. QED BY <1>1, <1>2, <1>3, RecoverStaleClaimKeepsInv DEF Next

LEMMA GauntletInvariant == Spec => []GauntletInv
<1>. HIDE DEF GauntletInv
<1>1. GauntletInv /\ [Next]_vars => GauntletInv'
  BY GauntletStep
<1>. QED BY <1>1, GauntletInit, PTL DEF Spec

\* Links, as long as no write is torn.
LEMMA WholeStep ==
    ASSUME ~TornWrites, GauntletInv, WholeInv, [Next]_vars
    PROVE  WholeInv'
<1>1. ASSUME NEW w \in Workers, AppendUtterance(w)
      PROVE  WholeInv'
  <2>. DEFINE t == TurnOf(w)
  <2>1. t \in Turns /\ ShardsWith(shards, t) = {} /\ UNCHANGED <<shardOf, job>>
    BY <1>1 DEF AppendUtterance
  <2>2. shards' = AppendRecord(shards, t, "whole")
    BY <1>1 DEF AppendUtterance
  <2>3. /\ \A m \in DOMAIN shards' : ~shards'[m].open
        /\ ShardsWith(shards', t) = {CurrentShard(shards)}
        /\ \A u \in Turns \ {t} : ShardsWith(shards', u) = ShardsWith(shards, u)
    BY <2>1, <2>2, AppendAddsLine DEF WholeInv
  <2>4. LinkedLineExists'
    BY <2>1, <2>3 DEF WholeInv, LinkedLineExists
  <2>5. ASSUME NEW x \in Workers, pc'[x] = "link"
        PROVE  target'[x] \in ShardsWith(shards', TurnOf(x)')
    <3>1. CASE x = w
      <4>1. target'[w] = CurrentShard(shards) /\ TurnOf(w)' = t
        BY <1>1 DEF AppendUtterance
      <4>. QED BY <2>3, <3>1, <4>1
    <3>2. CASE x # w
      <4>1. target'[x] = target[x] /\ pc[x] = "link" /\ TurnOf(x)' = TurnOf(x)
        BY <1>1, <2>5, <3>2 DEF AppendUtterance
      <4>2. TurnOf(x) \in Turns /\ target[x] \in ShardsWith(shards, TurnOf(x))
        BY <4>1 DEF WholeInv
      <4>3. TurnOf(x) # t
        BY <2>1, <4>2
      <4>. QED BY <2>3, <4>1, <4>2, <4>3
    <3>. QED BY <3>1, <3>2
  <2>. QED BY <2>3, <2>4, <2>5 DEF WholeInv
<1>2. ASSUME NEW w \in Workers, RelinkUtterance(w)
      PROVE  WholeInv'
  BY <1>2 DEF RelinkUtterance, WholeInv, LinkedLineExists, IsFirstShardWith
<1>3. ASSUME NEW w \in Workers, LinkShard(w)
      PROVE  WholeInv'
  BY <1>3 DEF LinkShard, WholeInv, LinkedLineExists
<1>4. ASSUME NEW w \in Workers,
             \/ CompleteJob(w) \/ PersistTriage(w) \/ ReadContext(w) \/ ReadRecord(w)
             \/ CreateRecord(w) \/ AcquireFlusherLock(w) \/ ReadRecordLocked(w)
             \/ ReleaseFlusherLock(w) \/ FailJob(w) \/ WorkerDies(w)
             \/ \E j \in Jobs : Claim(w, j)
      PROVE  WholeInv'
  <2>1. UNCHANGED <<shards, shardOf>>
    BY <1>4 DEF CompleteJob, PersistTriage, ReadContext, ReadRecord, CreateRecord, AcquireFlusherLock,
           ReadRecordLocked, ReleaseFlusherLock, FailJob, WorkerDies, Claim
  <2>2. \A x \in Workers : pc'[x] = "link" =>
          pc[x] = "link" /\ target'[x] = target[x] /\ job'[x] = job[x]
    BY <1>4 DEF CompleteJob, PersistTriage, ReadContext, ReadRecord, CreateRecord, AcquireFlusherLock,
           ReadRecordLocked, ReleaseFlusherLock, FailJob, WorkerDies, Claim
  <2>. QED BY <2>1, <2>2 DEF WholeInv, LinkedLineExists
<1>5. ASSUME \/ \E j \in Jobs : RecoverStaleClaim(j)
             \/ \E t \in Turns : AudioAccepted(t) \/ GuessScores(t) \/ AfterScored(t)
             \/ UNCHANGED vars
      PROVE  WholeInv'
  BY <1>5 DEF RecoverStaleClaim, AudioAccepted, GuessScores, AfterScored, vars, WholeInv, LinkedLineExists
<1>6. \A w \in Workers : ~TearWrite(w)
  BY DEF TearWrite
<1>. HIDE DEF GauntletInv, WholeInv
<1>. QED BY <1>1, <1>2, <1>3, <1>4, <1>5, <1>6 DEF Next, WorkerStep

LEMMA WholeInvariant == ASSUME ~TornWrites PROVE Spec => [](GauntletInv /\ WholeInv)
<1>1. Init => WholeInv
  <2>1. Init => DOMAIN shards = {}
    BY EmptySeq, LenProperties DEF Init
  <2>. QED BY <2>1 DEF Init, WholeInv, LinkedLineExists
<1>. HIDE DEF GauntletInv, WholeInv
<1>2. WholeInv /\ GauntletInv /\ [Next]_vars => WholeInv'
  BY WholeStep
<1>. QED BY <1>1, <1>2, GauntletInvariant, PTL DEF Spec

\* Two recordings of one speaker that match are never both originals, whichever
\* is triaged first or again (_register_speaker_fingerprint_on_connection).
THEOREM OneOriginalKept == Spec => []OneOriginal
<1>1. GauntletInv => OneOriginal
  OBVIOUS
<1>. HIDE DEF GauntletInv
<1>. QED BY <1>1, GauntletInvariant, PTL

\* Torn writes and all, no turn has two lines in the corpus and no two matching
\* recordings are both there (find_utterance, _export_locked).
THEOREM NoLineTwice == Spec => [](NoRepeatedLine /\ NoMatchingLines)
<1>1. GauntletInv => NoRepeatedLine /\ NoMatchingLines
  <2>. SUFFICES ASSUME GauntletInv PROVE NoRepeatedLine /\ NoMatchingLines
    OBVIOUS
  <2>1. ASSUME NEW t \in Turns
        PROVE  Cardinality(ShardsWith(shards, t)) <= 1
    <3>1. \A m, n \in ShardsWith(shards, t) : m = n
      BY DEF FilesOK, OneShardEach
    <3>. QED BY <3>1, AtMostOne
  <2>2. NoRepeatedLine
    BY <2>1 DEF NoRepeatedLine, FilesOK, OneShardEach
  <2>3. NoMatchingLines
    BY DEF NoMatchingLines, FitOK
  <2>. QED BY <2>2, <2>3
<1>. HIDE DEF GauntletInv
<1>. QED BY <1>1, GauntletInvariant, PTL

\* The corpus and the records table agree, with overlapping, late and dying
\* workers and contexts read long before (_export_locked, CorpusWriter.append).
THEOREM CorpusMatchesRecords == ASSUME ~TornWrites PROVE Spec => []LinesMatchRecords
<1>1. WholeInv /\ NoRepeatedLine /\ NoMatchingLines => LinesMatchRecords
  BY DEF WholeInv, LinesMatchRecords
<1>. HIDE DEF GauntletInv, WholeInv
<1>. QED BY <1>1, WholeInvariant, NoLineTwice, PTL

-----------------------------------------------------------------------------
(* The refinement *)

\* Only two steps of a worker, and the guess, are visible to the promise.
LEMMA StepKeepsPromise ==
    ASSUME ~TornWrites, GauntletInv, WholeInv, [Next]_vars
    PROVE  [Promise!PromiseNext]_(Promise!promise)
<1>1. CASE UNCHANGED <<scored, validated, recorded, eligible, shards>>
  BY <1>1 DEF Promise!promise
<1>2. ASSUME NEW t \in Turns, GuessScores(t)
      PROVE  Promise!TurnScored(t)
  BY <1>2 DEF GuessScores, Promise!TurnScored
<1>3. ASSUME NEW w \in Workers, CreateRecord(w)
      PROVE  Promise!TurnRecorded(TurnOf(w)) \/ UNCHANGED Promise!promise
  BY <1>3 DEF CreateRecord, Promise!TurnRecorded, Promise!promise
<1>4. ASSUME NEW w \in Workers, AppendUtterance(w)
      PROVE  Promise!RecordExported(TurnOf(w))
  <2>1. /\ ShardsWith(shards, TurnOf(w)) = {}
        /\ ShardsWith(shards', TurnOf(w)) # {}
        /\ \A u \in Turns \ {TurnOf(w)} : ShardsWith(shards', u) = ShardsWith(shards, u)
    BY <1>4, AppendAddsLine DEF AppendUtterance, WholeInv
  <2>2. TurnOf(w) \in Turns \cap eligible /\ UNCHANGED <<scored, validated, recorded, eligible>>
    BY <1>4 DEF AppendUtterance
  <2>3. TurnOf(w) \notin {t \in Turns : InCorpus(t)}
    BY <2>1
  <2>4. {t \in Turns : InCorpus(t)}' = {t \in Turns : InCorpus(t)} \cup {TurnOf(w)}
    <3>. HIDE DEF GauntletInv, TurnOf
    <3>1. \A t \in Turns : InCorpus(t)' <=> InCorpus(t) \/ t = TurnOf(w)
      BY <2>1
    <3>. HIDE DEF InCorpus
    <3>. QED BY <2>2, <3>1
  <2>. HIDE DEF InCorpus, TurnOf
  <2>. QED BY <2>2, <2>3, <2>4 DEF Promise!RecordExported
<1>5. \A w \in Workers : pc[w] # "idle" => TurnOf(w) \in Turns
  OBVIOUS
<1>6. ASSUME NEW w \in Workers, CreateRecord(w) \/ AppendUtterance(w)
      PROVE  pc[w] # "idle"
  BY <1>6 DEF CreateRecord, AppendUtterance
<1>7. ASSUME NEW w \in Workers,
             WorkerStep(w) \/ TearWrite(w) \/ FailJob(w) \/ WorkerDies(w)
               \/ \E j \in Jobs : Claim(w, j)
      PROVE  \/ UNCHANGED <<scored, validated, recorded, eligible, shards>>
             \/ CreateRecord(w) \/ AppendUtterance(w)
  BY <1>7 DEF WorkerStep, TearWrite, CompleteJob, PersistTriage, ReadContext, ReadRecord,
         AcquireFlusherLock, ReadRecordLocked, RelinkUtterance, LinkShard, ReleaseFlusherLock,
         FailJob, WorkerDies, Claim
<1>8. ASSUME \/ \E j \in Jobs : RecoverStaleClaim(j)
             \/ \E t \in Turns : AudioAccepted(t) \/ AfterScored(t)
             \/ UNCHANGED vars
      PROVE  UNCHANGED <<scored, validated, recorded, eligible, shards>>
  BY <1>8 DEF RecoverStaleClaim, AudioAccepted, AfterScored, vars
<1>. HIDE DEF GauntletInv, TurnOf
<1>. QED BY <1>1, <1>2, <1>3, <1>4, <1>5, <1>6, <1>7, <1>8 DEF Next, Promise!PromiseNext

LEMMA InitKeepsPromise == Init => Promise!PromiseInit
<1>. SUFFICES ASSUME Init PROVE Promise!PromiseInit
  OBVIOUS
<1>1. DOMAIN shards = {}
  BY EmptySeq, LenProperties DEF Init
<1>. QED BY <1>1 DEF Init, Promise!PromiseInit, ShardsWith

\* The workers implement the promise of GoldenCorpus: one record per scored turn,
\* one line per eligible record, nothing taken back (contracts/golden_record.md).
THEOREM WorkersKeepPromise == ASSUME ~TornWrites PROVE Spec => KeepsPromise
<1>1. Spec => [](GauntletInv /\ WholeInv)
  BY WholeInvariant
<1>. HIDE DEF GauntletInv, WholeInv
<1>2. GauntletInv /\ WholeInv /\ [Next]_vars => [Promise!PromiseNext]_(Promise!promise)
  BY StepKeepsPromise
<1>. QED BY <1>1, <1>2, InitKeepsPromise, PTL DEF Spec, KeepsPromise, Promise!PromiseSpec

=============================================================================
