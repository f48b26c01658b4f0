----------------------------- MODULE MCJobQueue -----------------------------
(* Instances of JobQueue for TLC.                                          *)
EXTENDS JobQueue

CONSTANTS w1, w2, backfill, other

MCWorkers == {w1, w2}
MCTypes == {backfill, other}
MCHandled == {backfill}
=============================================================================
