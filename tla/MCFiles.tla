------------------------------ MODULE MCFiles -------------------------------
EXTENDS Files

CONSTANTS f1, f2, good, bad, large, w1, w2

MCFileSet == {f1, f2}
MCEvidence == {f2}
MCContents == {good, bad, large}
MCInfected == {bad}
MCMisfits == {large}
MCWorkers == {w1, w2}
=============================================================================
