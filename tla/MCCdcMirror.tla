---------------------------- MODULE MCCdcMirror ----------------------------
(* Small instances of CdcMirror: every key is seeded with one fixed row.   *)
EXTENDS CdcMirror

SeedAll == [k \in Keys |-> CHOOSE v \in Vals : TRUE]
=============================================================================
