------------------------------ MODULE MCIntake ------------------------------
(* Instances of Intake for TLC.                                            *)
EXTENDS Intake

CONSTANTS s1, s2, w1, w2, e1, e2

MCServers == {s1, s2}
MCWorkers == {w1, w2}
MCOneWorker == {w1}
MCEvents == {e1, e2}
=============================================================================
