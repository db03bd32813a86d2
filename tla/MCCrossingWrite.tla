--------------------------- MODULE MCCrossingWrite ---------------------------
\* CrossingWrite for TLC: three rows over two keys, so that two rows must share one
\* and a third can come to a key after the feed read the others.
EXTENDS CrossingWrite

CONSTANTS r1, r2, r3, k1, k2

MCRows == {r1, r2, r3}
MCKeys == {k1, k2}
=============================================================================
