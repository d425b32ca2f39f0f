---------------------------- MODULE MCTuneArtifacts ----------------------------
(* A corpus that grows from two records to three, in two languages, half of *)
(* it held out.                                                            *)
EXTENDS TuneArtifacts, TLC

CONSTANTS as, bn

MCLanguages == {as, bn}
MCLangOf == <<as, bn, as>>
MCOrder == <<3, 1, 2>>
MCLangOrder == (as :> 1) @@ (bn :> 2)
==============================================================================
