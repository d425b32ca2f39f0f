------------------------------- MODULE Corpus -------------------------------
(***************************************************************************)
(* The JSONL shards of worker/corpus.py (CorpusWriter), as operators on a  *)
(* sequence of shards: shard_0001 is shards[1].  A line is the turn whose  *)
(* record it parses to, or Garbage when it does not parse.  open says that *)
(* the last line has no newline yet, so that the next write continues it.  *)
(***************************************************************************)
EXTENDS Naturals, Sequences

CONSTANTS
    Turns,          \* turn ids, the utterance_id of a line
    Garbage,        \* a line json.loads refuses
    ShardLimit      \* GauntletLimits.shard_record_limit

ASSUME CorpusAssumption ==
    /\ Garbage \notin Turns
    /\ ShardLimit \in Nat \ {0}

Shard == [lines : Seq(Turns \cup {Garbage}), open : BOOLEAN]
EmptyShard == [lines |-> <<>>, open |-> FALSE]

\* What a write leaves: all of the line, all but its newline, or a prefix.
WriteResults == {"whole", "unterminated", "prefix"}

LinesOf(shards, n) == {shards[n].lines[i] : i \in DOMAIN shards[n].lines}

\* _shard_contains, over every shard.
ShardsWith(shards, t) == {n \in DOMAIN shards : t \in LinesOf(shards, n)}

\* find_utterance returns the first of them.
IsFirstShardWith(shards, t, n) ==
    n \in ShardsWith(shards, t) /\ \A m \in ShardsWith(shards, t) : n <= m

\* _current_shard: the last shard, or the next number when that one is full.
CurrentShard(shards) ==
    IF shards = <<>> THEN 1
    ELSE IF Len(shards[Len(shards)].lines) >= ShardLimit THEN Len(shards) + 1
    ELSE Len(shards)

\* A line written to a shard; one that continues an unterminated line spoils it.
WriteLine(shard, t, result) ==
    [lines |-> IF shard.open THEN [shard.lines EXCEPT ![Len(shard.lines)] = Garbage]
               ELSE Append(shard.lines, IF result = "prefix" THEN Garbage ELSE t),
     open |-> result # "whole"]

\* append: write to the current shard, which open("a") creates.
AppendRecord(shards, t, result) ==
    LET n == CurrentShard(shards) IN
    IF n \in DOMAIN shards
    THEN [shards EXCEPT ![n] = WriteLine(@, t, result)]
    ELSE Append(shards, WriteLine(EmptyShard, t, result))

=============================================================================
