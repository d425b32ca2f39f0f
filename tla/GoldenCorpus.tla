---------------------------- MODULE GoldenCorpus ----------------------------
(***************************************************************************)
(* What the gauntlet promises about golden records, with no jobs, workers  *)
(* or files (contracts/golden_record.md): a scored turn gets at most one   *)
(* record, whose eligibility is then fixed; an eligible record reaches the *)
(* corpus at most once; nothing else does, and nothing is taken back.      *)
(***************************************************************************)
CONSTANT Turns

VARIABLES scored, validated, recorded, eligible, exported

promise == <<scored, validated, recorded, eligible, exported>>

PromiseInit ==
    /\ scored = {} /\ validated = {}
    /\ recorded = {} /\ eligible = {} /\ exported = {}

TurnScored(t) ==
    /\ t \notin scored
    /\ scored' = scored \cup {t}
    /\ validated' \in {validated, validated \cup {t}}
    /\ UNCHANGED <<recorded, eligible, exported>>

TurnRecorded(t) ==
    /\ t \in scored \ recorded
    /\ recorded' = recorded \cup {t}
    /\ eligible' = eligible \/ (t \in validated /\ eligible' = eligible \cup {t})
    /\ UNCHANGED <<scored, validated, exported>>

RecordExported(t) ==
    /\ t \in eligible \ exported
    /\ exported' = exported \cup {t}
    /\ UNCHANGED <<scored, validated, recorded, eligible>>

PromiseNext == \E t \in Turns : TurnScored(t) \/ TurnRecorded(t) \/ RecordExported(t)

PromiseSpec == PromiseInit /\ [][PromiseNext]_promise

=============================================================================
