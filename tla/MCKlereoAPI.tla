---------------------------- MODULE MCKlereoAPI ----------------------------
(* Instances of KlereoAPI for TLC.                                         *)
EXTENDS KlereoAPI

CONSTANTS t1, t2

TwoThreads == {t1, t2}
============================================================================
