---------------------------- MODULE MCUsageLedger ----------------------------
(* An instance of UsageLedger for TLC. *)
EXTENDS UsageLedger

WholeAndTail == {<<0, 41>>, <<14, 41>>}
EitherWay == {-1, 1}
==============================================================================
