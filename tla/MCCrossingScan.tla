--------------------------- MODULE MCCrossingScan ---------------------------
\* CrossingScan for TLC: three units, the second of two chunks, so that a batch
\* spans two pulls and threads outrun each other between them.
EXTENDS CrossingScan

CONSTANTS t1, t2

MCThreads == {t1, t2}
MCChunks == [u \in 0 .. 2 |-> IF u = 1 THEN <<1, 2>> ELSE <<1>>]

=============================================================================
