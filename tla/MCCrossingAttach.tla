--------------------------- MODULE MCCrossingAttach ---------------------------
\* CrossingAttach for TLC: two clients, so that a lookup, a refresh, a DDL and its
\* commit overlap.  Eight entries are more than two clients can keep in use at once.
EXTENDS CrossingAttach, TLC

CONSTANTS c1, c2, o1

MCClients == {c1, c2}
MCEntries == 1 .. 8
MCSymmetry == Permutations(MCClients)

\* Nothing is of any owner but o1.
OfOneOwner ==
    /\ \A c \in Clients : owner[c] = o1
    /\ \A s \in Schemas :
          \A cached \in {cache[s]} \cup {IF overlay[c][s] = None THEN None ELSE overlay[c][s].cache : c \in Clients} :
             cached # None => cached.owner = o1

\* The last change is made only where one owner is about: a bound.
MCNext == Next /\ (changes' = MaxChanges => OfOneOwner')

MCSpec == Init /\ [][MCNext]_vars
=============================================================================
