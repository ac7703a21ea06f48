---------------------------- MODULE MCCdcStream ----------------------------
(* Small instances of CdcStream: one key is seeded, the other is not.      *)
EXTENDS CdcStream

SeedOne ==
    LET seeded == CHOOSE k \in Keys : TRUE
    IN  [k \in Keys |-> IF k = seeded THEN CHOOSE v \in Vals : TRUE ELSE Gone]
=============================================================================
