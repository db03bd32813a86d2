-------------------------- MODULE CrossingAttachLog --------------------------
(***************************************************************************)
(* The attach with a log of what was committed to each schema, which it    *)
(* only writes: what CrossingCatalog promises is told of the log.          *)
(***************************************************************************)
EXTENDS CrossingAttach, Sequences

VARIABLE log  \* history: log[s][n + 1], whether the table existed after change n

LogInit == Init /\ log = [s \in Schemas |-> <<TRUE>>]

\* A commit, or another change of the source, appends what it made of the table.
Logged ==
    log' = [s \in Schemas |-> IF committed'[s].n = committed[s].n
                              THEN log[s] ELSE Append(log[s], committed'[s].exists)]

LogNext == Next /\ Logged

LogSpec == LogInit /\ [][LogNext]_<<vars, log>>

FairLogSpec == LogSpec /\ \A c \in Clients : WF_vars(Goes(c))

-----------------------------------------------------------------------------
\* The steps of a lookup, from its beginning to its answer.
Looking == {"tables", "listing", "listed", "state", "cache", "describe", "described"}

\* None is no lookup either.
ASSUME LookupAssumption == None \notin [schema : Schemas, floor : Nat, pin : BOOLEAN]

\* The lookup c is inside, and what its last one returned.
Asking ==
    [c \in Clients |-> IF pc[c] \in Looking
                       THEN [schema |-> at[c], floor |-> floor[c], pin |-> pinning[c]]
                       ELSE None]
Answered == [c \in Clients |-> IF result[c] = None THEN None ELSE result[c].snapshot]

Catalog ==
    INSTANCE CrossingCatalog
        WITH own <- private, due <- owed, asking <- Asking, answer <- Answered

\* Whatever an attach caches, forgets and fetches late, and however its clients, the
\* refreshes and the source overlap, whoever looks a table up sees no more than the
\* catalog of CrossingCatalog: the transaction's own last change, or a state the
\* table had after all that was promised to the lookup (crossing_attach.hpp:55-60).
ImplementsCatalog == Catalog!Spec

-----------------------------------------------------------------------------
\* What the refinement needs beside Inv.

\* x is a state the table of s was in.
InLog(s, x) == x.n + 1 \in DOMAIN log[s] /\ x.exists = log[s][x.n + 1]

\* A client with a reply the source gave and it has not stored.
Replied == {"listed", "described", "schema_replied"}

\* The log ends with what is committed, and what is remembered of a schema, or is
\* about to be, is in it.
Recorded ==
    /\ log \in [Schemas -> Seq(BOOLEAN)]
    /\ \A s \in Schemas :
          /\ Len(log[s]) = committed[s].n + 1
          /\ InLog(s, committed[s])
          /\ served[s].tables # None => InLog(s, served[s].tables)
          /\ cache[s] # None => InLog(s, cache[s].snapshot)
    /\ \A c \in Clients : pc[c] \in Replied => InLog(at[c], fetched[c])

\* A DDL that has looked nothing up yet has no answer.
NoAnswerYet ==
    \A c \in Clients : pc[c] \in {"authorize", "schema", "schema_replied"} => result[c] = None

LogInv == Inv /\ Recorded /\ NoAnswerYet

=============================================================================
