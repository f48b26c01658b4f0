------------------------------- MODULE MCCanon -------------------------------
(* Instances of Canon for TLC.                                             *)
EXTENDS Canon

CONSTANTS a, b, i1, i2, c1, c2, x, y

MCSources == {a, b}
MCInscribers == {i1, i2}
MCConsolidators == {c1, c2}
MCOneConsolidator == {c1}
MCLinks == {x, y}
\* The edit changes what the text points at, so that two indexings of one
\* revision collide and those of two revisions mix.
MCLinksOf == <<{x}, {y}>>
MCUnsummarized == {b}
=============================================================================
