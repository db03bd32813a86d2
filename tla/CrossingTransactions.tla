------------------------- MODULE CrossingTransactions -------------------------
(***************************************************************************)
(* What a source is promised of transactions (IMPLEMENTING.md, "Transactions": *)
(* Begin on a transaction's first use, every use through the session that   *)
(* returned, Commit or Rollback once the transaction resolves, and then the  *)
(* session destroyed; crossing_attach.hpp: Settled refreshes what it altered). *)
(* No addresses, slots or locks: each client has its transaction's sessions,  *)
(* and each of its workers uses the session of some client.                  *)
(***************************************************************************)
CONSTANTS Clients, Threads, Sessions, None

VARIABLES
    phase,     \* phase[c]: where c's transaction is
    sessions,  \* sessions[c]: the sessions begun for it and not destroyed
    uses,      \* uses[w]: the client whose session worker w works through, or None
    ddl,       \* ddl[c]: a Ddl of c's transaction returned
    refreshed  \* refreshed[c]: its schemas were refreshed as it ended

vars == <<phase, sessions, uses, ddl, refreshed>>

Init ==
    /\ phase = [c \in Clients |-> "none"]
    /\ sessions = [c \in Clients |-> {}]
    /\ uses = [w \in Clients \X Threads |-> None]
    /\ ddl = [c \in Clients |-> FALSE]
    /\ refreshed = [c \in Clients |-> FALSE]

\* A client's transaction starts, with no session.
Start(c) ==
    /\ phase[c] = "none"
    /\ phase' = [phase EXCEPT ![c] = "active"]
    /\ ddl' = [ddl EXCEPT ![c] = FALSE]
    /\ refreshed' = [refreshed EXCEPT ![c] = FALSE]
    /\ UNCHANGED <<sessions, uses>>

\* Its first use begins its session, which is no other's.
Begin(c, t, s) ==
    /\ phase[c] = "active"
    /\ uses[<<c, t>>] = None
    /\ sessions[c] = {}
    /\ \A d \in Clients : s \notin sessions[d]
    /\ sessions' = [sessions EXCEPT ![c] = {s}]
    /\ uses' = [uses EXCEPT ![<<c, t>>] = c]
    /\ UNCHANGED <<phase, ddl, refreshed>>

\* Every later use goes through that session.
Enter(c, t) ==
    /\ phase[c] = "active"
    /\ uses[<<c, t>>] = None
    /\ sessions[c] # {}
    /\ uses' = [uses EXCEPT ![<<c, t>>] = c]
    /\ UNCHANGED <<phase, sessions, ddl, refreshed>>

\* The use is over; it may have been a Ddl.
Leave(c, t) ==
    /\ uses[<<c, t>>] = c
    /\ uses' = [uses EXCEPT ![<<c, t>>] = None]
    /\ ddl' \in {ddl, [ddl EXCEPT ![c] = TRUE]}
    /\ UNCHANGED <<phase, sessions, refreshed>>

\* The transaction ends when none of its workers uses the session.
End(c) ==
    /\ phase[c] = "active"
    /\ \A t \in Threads : uses[<<c, t>>] = None
    /\ phase' = [phase EXCEPT ![c] = "ending"]
    /\ UNCHANGED <<sessions, uses, ddl, refreshed>>

\* The session, if it has one, is committed or rolled back, once.
Resolve(c) ==
    /\ phase[c] = "ending"
    /\ sessions[c] # {}
    /\ phase' = [phase EXCEPT ![c] = "resolved"]
    /\ UNCHANGED <<sessions, uses, ddl, refreshed>>

\* Then schemas are refreshed, exactly if the transaction ran DDL.
Settle(c) ==
    /\ phase[c] = "resolved"
    /\ phase' = [phase EXCEPT ![c] = "settled"]
    /\ refreshed' = [refreshed EXCEPT ![c] = ddl[c]]
    /\ UNCHANGED <<sessions, uses, ddl>>

\* And the session is destroyed; without one there was nothing to resolve.
Close(c) ==
    /\ \/ phase[c] = "settled"
       \/ phase[c] = "ending" /\ sessions[c] = {}
    /\ phase' = [phase EXCEPT ![c] = "none"]
    /\ sessions' = [sessions EXCEPT ![c] = {}]
    /\ UNCHANGED <<uses, ddl, refreshed>>

Next ==
    \E c \in Clients :
        \/ Start(c) \/ End(c) \/ Resolve(c) \/ Settle(c) \/ Close(c)
        \/ \E t \in Threads :
              \/ Enter(c, t) \/ Leave(c, t)
              \/ \E s \in Sessions : Begin(c, t, s)

Spec == Init /\ [][Next]_vars
=============================================================================
