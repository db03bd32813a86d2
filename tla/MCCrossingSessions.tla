-------------------------- MODULE MCCrossingSessions --------------------------
\* CrossingSessions for TLC: as many addresses as clients, so that every address is
\* used again, and two threads per statement, so that two ask for a session at once.
EXTENDS CrossingSessions, TLC

CONSTANTS c1, c2, t1, t2, x1, x2, s1, s2

MCClients == {c1, c2}
MCThreads == {t1, t2}
MCTransactions == {x1, x2}
MCSessions == {s1, s2}
MCSymmetry ==
    Permutations(MCClients) \cup Permutations(MCThreads)
    \cup Permutations(MCTransactions) \cup Permutations(MCSessions)
=============================================================================
