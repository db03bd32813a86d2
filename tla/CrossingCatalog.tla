--------------------------- MODULE CrossingCatalog ---------------------------
(***************************************************************************)
(* What an attach promises whoever looks a table up, with no caches,       *)
(* listings, locks, overlays or queued refreshes.  Each schema's table has *)
(* a log of what was committed.  A lookup of a transaction that altered    *)
(* the schema answers with the transaction's last change; any other with a *)
(* state the table really had, no older than what the last Refresh, or     *)
(* commit, that returned before the lookup began had made visible          *)
(* (crossing_attach.hpp:55-60).                                            *)
(***************************************************************************)
EXTENDS Naturals, Sequences

CONSTANTS Clients, Schemas, None

VARIABLES
    log,       \* log[s][n + 1]: whether the table of s existed after its change n
    own,       \* own[c][s]: the last change of c's transaction, or None
    promised,  \* promised[s]: the change that new lookups may count on
    due,       \* due[c][s]: the change c's commit published and has not promised yet
    asking,    \* asking[c]: the lookup c is inside, or None
    answer     \* answer[c]: what c's last lookup returned, or None

vars == <<log, own, promised, due, asking, answer>>

Init ==
    /\ log = [s \in Schemas |-> <<TRUE>>]
    /\ own = [c \in Clients |-> [s \in Schemas |-> None]]
    /\ promised = [s \in Schemas |-> 0]
    /\ due = [c \in Clients |-> [s \in Schemas |-> 0]]
    /\ asking = [c \in Clients |-> None]
    /\ answer = [c \in Clients |-> None]

\* The number of the last change committed to s.
Last(s) == Len(log[s]) - 1

\* A lookup in s that begins now; `pin` is for one without a transaction.
Lookup(s, pin) == [schema |-> s, floor |-> promised[s], pin |-> pin]

Ask(c) ==
    /\ asking[c] = None
    /\ \E s \in Schemas, pin \in BOOLEAN : asking' = [asking EXCEPT ![c] = Lookup(s, pin)]
    /\ answer' = [answer EXCEPT ![c] = None]
    /\ UNCHANGED <<log, own, promised, due>>

SeesOwn(c) == ~asking[c].pin /\ own[c][asking[c].schema] # None

\* What c's lookup may answer.
Answers(c) ==
    LET s == asking[c].schema IN
    IF SeesOwn(c)
    THEN {own[c][s]}
    ELSE {[by |-> None, n |-> n, exists |-> log[s][n + 1]] : n \in asking[c].floor .. Last(s)}

\* The lookup answers; that of a DDL may be followed by another at once.
Answer(c) ==
    /\ asking[c] # None
    /\ \E x \in Answers(c) : answer' = [answer EXCEPT ![c] = x]
    /\ \E next \in {None, Lookup(asking[c].schema, TRUE)} : asking' = [asking EXCEPT ![c] = next]
    /\ UNCHANGED <<log, own, promised, due>>

\* The lookup throws: the table is gone by now.
GiveUp(c) ==
    /\ asking[c] # None
    /\ ~SeesOwn(c)
    /\ LET s == asking[c].schema IN ~log[s][Len(log[s])]
    /\ asking' = [asking EXCEPT ![c] = None]
    /\ UNCHANGED <<log, own, promised, due, answer>>

\* A statement that is no lookup begins, or ends without any effect.
Forget(c) ==
    /\ asking[c] = None
    /\ answer' = [answer EXCEPT ![c] = None]
    /\ UNCHANGED <<log, own, promised, due, asking>>

\* c's transaction changes the table of s, for itself alone.
Alter(c, s) ==
    /\ asking[c] = None
    /\ \E exists \in BOOLEAN :
          own' = [own EXCEPT ![c][s] =
                     [by |-> c, n |-> IF @ = None THEN 1 ELSE @.n + 1, exists |-> exists]]
    /\ answer' = [answer EXCEPT ![c] = None]
    /\ UNCHANGED <<log, promised, due, asking>>

\* The transaction's changes are committed ...
Commit(c) ==
    /\ asking[c] = None
    /\ log' = [s \in Schemas |-> IF own[c][s] = None THEN log[s] ELSE Append(log[s], own[c][s].exists)]
    /\ due' = [due EXCEPT ![c] = [s \in Schemas |-> IF own[c][s] = None THEN 0 ELSE Last(s) + 1]]
    /\ own' = [own EXCEPT ![c] = [s \in Schemas |-> None]]
    /\ UNCHANGED <<promised, asking, answer>>

\* ... or gone ...
Rollback(c) ==
    /\ asking[c] = None
    /\ own' = [own EXCEPT ![c] = [s \in Schemas |-> None]]
    /\ UNCHANGED <<log, promised, due, asking, answer>>

Larger(m, n) == IF m > n THEN m ELSE n

\* ... and whoever saw the commit return may count on them.
CommitReturns(c) ==
    /\ asking[c] = None
    /\ promised' = [s \in Schemas |-> Larger(promised[s], due[c][s])]
    /\ due' = [due EXCEPT ![c] = [s \in Schemas |-> 0]]
    /\ UNCHANGED <<log, own, asking, answer>>

\* Refresh of one schema, or of all.
Refresh(S) ==
    /\ promised' = [s \in Schemas |-> IF s \in S THEN Last(s) ELSE promised[s]]
    /\ UNCHANGED <<log, own, due, asking, answer>>

\* Somebody else changes the table at the source.
Change(s) ==
    /\ \E exists \in BOOLEAN : log' = [log EXCEPT ![s] = Append(@, exists)]
    /\ UNCHANGED <<own, promised, due, asking, answer>>

Next ==
    \/ \E c \in Clients :
          \/ Ask(c) \/ Answer(c) \/ GiveUp(c) \/ Forget(c)
          \/ Commit(c) \/ Rollback(c) \/ CommitReturns(c)
          \/ \E s \in Schemas : Alter(c, s)
    \/ \E S \in SUBSET Schemas : Refresh(S)
    \/ \E s \in Schemas : Change(s)

Spec == Init /\ [][Next]_vars

=============================================================================
