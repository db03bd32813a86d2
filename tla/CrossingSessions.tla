--------------------------- MODULE CrossingSessions ---------------------------
(***************************************************************************)
(* Whose session is it (Session, Release, Commit, Rollback and Settled of   *)
(* src/crossing_attach.cpp; src/crossing_transactions.cpp).  The attach     *)
(* keys its slots by the address of DuckDB's transaction and its settling   *)
(* schemas by the address of the source's session.  Both addresses are      *)
(* used again once their objects are freed.  The scans and writes of one    *)
(* statement ask for the session from several threads, and Begin is a call  *)
(* to the source under the slot's lock.                                     *)
(*                                                                          *)
(* transactions_lock is held for a lookup only, so each use of it is one    *)
(* step.  DuckDB's clients, and the source, are external.                   *)
(***************************************************************************)
EXTENDS Naturals, FiniteSets

CONSTANTS
    Clients,       \* connections, each running one transaction after another
    Threads,       \* the threads of a client's statement
    Transactions,  \* addresses of Transaction objects
    Sessions,      \* addresses of CrossingSession objects
    None

Workers == Clients \X Threads

\* What begun keeps for a transaction: its session, once it was begun, and whether
\* a Ddl through it left schemas to refresh (Slot::altered_schemas).
Slots == [session : Sessions \cup {None}, altered : BOOLEAN]

ASSUME SessionsAssumption ==
    None \notin UNION {Clients, Threads, Workers, Transactions, Sessions, Slots}

VARIABLES
    live,        \* the transaction manager's live transactions, by address
    begun,       \* begun[x]: the slot of the transaction at x, or None
    slot_lock,   \* slot_lock[x]: the worker that holds its lock, or None
    settling,    \* the addresses of sessions with schemas to settle
    stage,       \* stage[c]: where c's transaction is
    transaction, \* transaction[c]: its address, or None
    released,    \* released[c]: the session Release handed back, or None
    pc,          \* pc[w]: where worker w's call of Session is
    using,       \* using[w]: the session it got, or None
    alive,       \* source: sessions begun and not destroyed
    opener,      \* history: opener[s], the client whose transaction began s
    ran_ddl,     \* history: ran_ddl[c], a Ddl of c's transaction returned
    settled      \* history: settled[c], Settled found schemas to refresh

clientVars == <<stage, transaction, released>>
workerVars == <<pc, using>>
ddlVars == <<ran_ddl, settled>>
vars == <<live, begun, slot_lock, settling, clientVars, workerVars, alive, opener, ddlVars>>

Stages == {"none", "active", "commit", "resolve", "settle", "destroy", "forget"}

TypeOK ==
    /\ live \subseteq Transactions
    /\ begun \in [Transactions -> Slots \cup {None}]
    /\ slot_lock \in [Transactions -> Workers \cup {None}]
    /\ settling \subseteq Sessions
    /\ stage \in [Clients -> Stages]
    /\ transaction \in [Clients -> Transactions \cup {None}]
    /\ released \in [Clients -> Sessions \cup {None}]
    /\ pc \in [Workers -> {"idle", "slot", "begin", "using"}]
    /\ using \in [Workers -> Sessions \cup {None}]
    /\ alive \subseteq Sessions
    /\ opener \in [Sessions -> Clients \cup {None}]
    /\ ran_ddl \in [Clients -> BOOLEAN] /\ settled \in [Clients -> BOOLEAN]

Init ==
    /\ live = {}
    /\ begun = [x \in Transactions |-> None]
    /\ slot_lock = [x \in Transactions |-> None]
    /\ settling = {}
    /\ stage = [c \in Clients |-> "none"]
    /\ transaction = [c \in Clients |-> None]
    /\ released = [c \in Clients |-> None]
    /\ pc = [w \in Workers |-> "idle"]
    /\ using = [w \in Workers |-> None]
    /\ alive = {}
    /\ opener = [s \in Sessions |-> None]
    /\ ran_ddl = [c \in Clients |-> FALSE] /\ settled = [c \in Clients |-> FALSE]

-----------------------------------------------------------------------------
\* StartTransaction: the transaction gets an address no live one has.
StartTransaction(c) ==
    /\ stage[c] = "none"
    /\ \E x \in Transactions \ live :
          /\ live' = live \cup {x}
          /\ transaction' = [transaction EXCEPT ![c] = x]
    /\ stage' = [stage EXCEPT ![c] = "active"]
    /\ ran_ddl' = [ran_ddl EXCEPT ![c] = FALSE]
    /\ settled' = [settled EXCEPT ![c] = FALSE]
    /\ UNCHANGED <<begun, slot_lock, settling, released, workerVars, alive, opener>>

\* A slot as SlotOf makes it.
NewSlot == [session |-> None, altered |-> FALSE]

\* A worker of c's statement asks for the session: SlotOf makes the slot unless
\* the address has one.
AskSession(c, t) ==
    LET x == transaction[c] IN
    /\ stage[c] = "active"
    /\ pc[<<c, t>>] = "idle"
    /\ pc' = [pc EXCEPT ![<<c, t>>] = "slot"]
    /\ begun' = [begun EXCEPT ![x] = IF @ = None THEN NewSlot ELSE @]
    /\ UNCHANGED <<live, slot_lock, settling, clientVars, using, alive, opener, ddlVars>>

\* Mutant: the lock is taken only once the slot was seen to have no session.
TakesNoLock(x) == begun[x].session = None

\* A call under the slot's lock waits for another's Begin.
LockFree(x) == slot_lock[x] = None

\* Under the slot's lock: a session there is used, and one that is not is begun,
\* with the lock held across the call.
EnterSlot(c, t) ==
    LET x == transaction[c] IN
    /\ pc[<<c, t>>] = "slot"
    /\ LockFree(x)
    /\ IF begun[x].session # None
       THEN /\ pc' = [pc EXCEPT ![<<c, t>>] = "using"]
            /\ using' = [using EXCEPT ![<<c, t>>] = begun[x].session]
            /\ UNCHANGED slot_lock
       ELSE /\ pc' = [pc EXCEPT ![<<c, t>>] = "begin"]
            /\ slot_lock' = [slot_lock EXCEPT ![x] = <<c, t>>]
            /\ UNCHANGED using
    /\ UNCHANGED <<live, begun, settling, clientVars, alive, opener, ddlVars>>

\* The source's Begin returns a session, which the slot keeps.
Begin(c, t, s) ==
    LET x == transaction[c] IN
    /\ pc[<<c, t>>] = "begin"
    /\ s \notin alive
    /\ alive' = alive \cup {s}
    /\ opener' = [opener EXCEPT ![s] = c]
    /\ begun' = [begun EXCEPT ![x].session = s]
    /\ using' = [using EXCEPT ![<<c, t>>] = s]
    /\ pc' = [pc EXCEPT ![<<c, t>>] = "using"]
    /\ slot_lock' = [slot_lock EXCEPT ![x] = None]
    /\ UNCHANGED <<live, settling, clientVars, ddlVars>>

\* It throws, which fails the statement and leaves a slot without a session.
BeginThrows(c, t) ==
    /\ pc[<<c, t>>] = "begin"
    /\ pc' = [pc EXCEPT ![<<c, t>>] = "idle"]
    /\ slot_lock' = [slot_lock EXCEPT ![transaction[c]] = None]
    /\ UNCHANGED <<live, begun, settling, clientVars, using, alive, opener, ddlVars>>

\* The worker reads, writes or runs DDL through the session; a Ddl that returns
\* marks the slot.
UseSession(c, t) ==
    /\ pc[<<c, t>>] = "using"
    /\ pc' = [pc EXCEPT ![<<c, t>>] = "idle"]
    /\ using' = [using EXCEPT ![<<c, t>>] = None]
    /\ \/ UNCHANGED <<begun, ran_ddl>>
       \/ /\ begun' = [begun EXCEPT ![transaction[c]].altered = TRUE]
          /\ ran_ddl' = [ran_ddl EXCEPT ![c] = TRUE]
    /\ UNCHANGED <<live, slot_lock, settling, clientVars, alive, opener, settled>>

-----------------------------------------------------------------------------
\* CommitTransaction or RollbackTransaction, once the statement's workers are done.
EndTransaction(c) ==
    /\ stage[c] = "active"
    /\ \A t \in Threads : pc[<<c, t>>] = "idle"
    /\ stage' = [stage EXCEPT ![c] = "commit"]
    /\ UNCHANGED <<live, begun, slot_lock, settling, transaction, released, workerVars, alive, opener, ddlVars>>

\* Mutant: the slot is left in begun.
ReleaseKeepsSlot(c) ==
    LET slot == begun[transaction[c]] IN
    /\ stage[c] = "commit"
    /\ released' = [released EXCEPT ![c] = IF slot = None THEN None ELSE slot.session]
    /\ settling' = IF slot # None /\ slot.altered THEN settling \cup {slot.session} ELSE settling
    /\ stage' = [stage EXCEPT ![c] =
          IF slot = None \/ slot.session = None THEN "forget" ELSE "resolve"]
    /\ UNCHANGED <<live, begun, slot_lock, transaction, workerVars, alive, opener, ddlVars>>

\* Mutant: a transaction that altered nothing is not committed on the source.
ReleaseSkipsReaders(c) ==
    LET slot == begun[transaction[c]] IN
    /\ stage[c] = "commit"
    /\ begun' = [begun EXCEPT ![transaction[c]] = None]
    /\ released' = [released EXCEPT ![c] = IF slot = None THEN None ELSE slot.session]
    /\ settling' = IF slot # None /\ slot.altered THEN settling \cup {slot.session} ELSE settling
    /\ stage' = [stage EXCEPT ![c] =
          IF slot = None \/ slot.session = None THEN "forget" ELSE IF slot.altered THEN "resolve" ELSE "destroy"]
    /\ UNCHANGED <<live, slot_lock, transaction, workerVars, alive, opener, ddlVars>>

\* Release: the slot is taken out of begun, its altered schemas are kept under the
\* session's address, and the session is handed back.
Release(c) ==
    LET slot == begun[transaction[c]] IN
    /\ stage[c] = "commit"
    /\ begun' = [begun EXCEPT ![transaction[c]] = None]
    /\ released' = [released EXCEPT ![c] = IF slot = None THEN None ELSE slot.session]
    /\ settling' = IF slot # None /\ slot.altered THEN settling \cup {slot.session} ELSE settling
    /\ stage' = [stage EXCEPT ![c] =
          IF slot = None \/ slot.session = None THEN "forget" ELSE "resolve"]
    /\ UNCHANGED <<live, slot_lock, transaction, workerVars, alive, opener, ddlVars>>

\* The source commits or rolls back; either may throw, and nothing else happens.
Resolve(c) ==
    /\ stage[c] = "resolve"
    /\ stage' = [stage EXCEPT ![c] = "settle"]
    /\ UNCHANGED <<live, begun, slot_lock, settling, transaction, released, workerVars, alive, opener, ddlVars>>

\* Mutant: what was settling is read but not erased.
SettledKeeps(c) ==
    /\ stage[c] = "settle"
    /\ settled' = [settled EXCEPT ![c] = released[c] \in settling]
    /\ stage' = [stage EXCEPT ![c] = "destroy"]
    /\ UNCHANGED <<live, begun, slot_lock, settling, transaction, released, workerVars, alive, opener, ran_ddl>>

\* Settled: the schemas kept under the session's address are taken and refreshed.
Settled(c) ==
    /\ stage[c] = "settle"
    /\ settling' = settling \ {released[c]}
    /\ settled' = [settled EXCEPT ![c] = released[c] \in settling]
    /\ stage' = [stage EXCEPT ![c] = "destroy"]
    /\ UNCHANGED <<live, begun, slot_lock, transaction, released, workerVars, alive, opener, ran_ddl>>

\* Commit returns and with it the session is destroyed.
Destroy(c) ==
    /\ stage[c] = "destroy"
    /\ alive' = alive \ {released[c]}
    /\ opener' = [opener EXCEPT ![released[c]] = None]
    /\ released' = [released EXCEPT ![c] = None]
    /\ stage' = [stage EXCEPT ![c] = "forget"]
    /\ UNCHANGED <<live, begun, slot_lock, settling, transaction, workerVars, ddlVars>>

\* Forget frees the transaction: its address can be another's.
Forget(c) ==
    /\ stage[c] = "forget"
    /\ live' = live \ {transaction[c]}
    /\ transaction' = [transaction EXCEPT ![c] = None]
    /\ stage' = [stage EXCEPT ![c] = "none"]
    /\ UNCHANGED <<begun, slot_lock, settling, released, workerVars, alive, opener, ddlVars>>

Works(c, t) ==
    \/ EnterSlot(c, t)
    \/ BeginThrows(c, t)
    \/ \E s \in Sessions : Begin(c, t, s)
    \/ UseSession(c, t)

Ends(c) == Release(c) \/ Resolve(c) \/ Settled(c) \/ Destroy(c) \/ Forget(c)

Next ==
    \E c \in Clients :
        \/ StartTransaction(c) \/ EndTransaction(c) \/ Ends(c)
        \/ \E t \in Threads : AskSession(c, t) \/ Works(c, t)

Spec == Init /\ [][Next]_vars

-----------------------------------------------------------------------------
\* What a statement does goes through the session of its own transaction, never
\* through one begun for an earlier transaction at the same address or for another
\* client's (IMPLEMENTING.md:307-309; crossing_attach.hpp: Release is called
\* before the transaction is freed).
OwnSession ==
    \A c \in Clients, t \in Threads :
        using[<<c, t>>] # None => using[<<c, t>>] \in alive /\ opener[using[<<c, t>>]] = c

\* Every session begun will be resolved: a slot or the Release that took it out
\* still has it, so no second Begin of two threads has put another in its place
\* and no freed address has taken it along.
NoSessionLost ==
    \A s \in alive :
        \/ \E c \in Clients : released[c] = s
        \/ \E x \in live : begun[x] # None /\ begun[x].session = s

\* Commit refreshes exactly for the transactions that ran DDL: what waits under a
\* session's address is taken before another session can be given the address.
SettlesItsOwn ==
    \A c \in Clients : stage[c] = "destroy" => settled[c] = ran_ddl[c]

-----------------------------------------------------------------------------
\* What these rest on.  A client inside a transaction has a live address of its own.
Resolving == {"resolve", "settle", "destroy"}

AddressesApart ==
    /\ \A c \in Clients :
          /\ stage[c] = "none" <=> transaction[c] = None
          /\ transaction[c] # None => transaction[c] \in live
    /\ \A c, d \in Clients : transaction[c] = transaction[d] => c = d \/ transaction[c] = None

\* A slot is at the address of a transaction that has not released it.
SlotsInUse ==
    \A x \in Transactions :
        begun[x] # None =>
            \E c \in Clients : transaction[c] = x /\ stage[c] \in {"active", "commit"}

\* c has the session s, in its slot or released.
Has(c, s) ==
    \/ released[c] = s
    \/ /\ stage[c] \in {"active", "commit"}
       /\ begun[transaction[c]] # None
       /\ begun[transaction[c]].session = s

\* A client's session is alive and its own, and an alive one is its opener's.
SessionsHad ==
    /\ \A c \in Clients : released[c] # None <=> stage[c] \in Resolving
    /\ \A c \in Clients, s \in Sessions : Has(c, s) <=> s \in alive /\ opener[s] = c
    /\ \A s \in alive : opener[s] # None

\* A worker is busy only inside its client's statement; one that begins a session
\* holds the lock of a slot without one; one that uses a session uses the slot's.
WorkersInside ==
    /\ \A c \in Clients, t \in Threads :
          /\ pc[<<c, t>>] # "idle" => stage[c] = "active" /\ begun[transaction[c]] # None
          /\ pc[<<c, t>>] = "begin" =>
                slot_lock[transaction[c]] = <<c, t>> /\ begun[transaction[c]].session = None
          /\ pc[<<c, t>>] = "using" =>
                using[<<c, t>>] # None /\ begun[transaction[c]].session = using[<<c, t>>]
          /\ pc[<<c, t>>] # "using" => using[<<c, t>>] = None
    /\ \A x \in Transactions, c \in Clients, t \in Threads :
          slot_lock[x] = <<c, t>> => pc[<<c, t>>] = "begin" /\ transaction[c] = x

\* A slot is marked when its transaction ran DDL, which it does through a session;
\* what is settling belongs to a client that is about to settle it.
DdlMarked ==
    /\ \A c \in Clients :
          /\ stage[c] \in {"active", "commit"} =>
                ran_ddl[c] = (begun[transaction[c]] # None /\ begun[transaction[c]].altered)
          /\ stage[c] \in {"resolve", "settle"} => ran_ddl[c] = (released[c] \in settling)
    /\ \A x \in Transactions : begun[x] # None /\ begun[x].altered => begun[x].session # None
    /\ \A s \in settling :
          \E c \in Clients : released[c] = s /\ stage[c] \in {"resolve", "settle"}

\* The inductive invariant.
Inv ==
    TypeOK /\ AddressesApart /\ SlotsInUse /\ SessionsHad /\ WorkersInside /\ DdlMarked /\ SettlesItsOwn

-----------------------------------------------------------------------------
\* The phase of a transaction as its source knows it: taking the slot out is not
\* yet resolving its session, and nothing is left to it once that is destroyed.
PhaseOf(st) ==
    CASE st = "active" -> "active"
      [] st \in {"commit", "resolve"} -> "ending"
      [] st = "settle" -> "resolved"
      [] st = "destroy" -> "settled"
      [] OTHER -> "none"

Phases == [c \in Clients |-> PhaseOf(stage[c])]
SessionsOf == [c \in Clients |-> {s \in alive : opener[s] = c}]
Uses == [w \in Workers |-> IF using[w] = None THEN None ELSE opener[using[w]]]

Promise == INSTANCE CrossingTransactions WITH
    phase <- Phases, sessions <- SessionsOf, uses <- Uses, ddl <- ran_ddl, refreshed <- settled

\* Slots found by reused addresses, filled by whichever thread gets there first,
\* taken out by Release and settled under another reused address do what the
\* source is promised: one Begin per transaction, every use through its session,
\* one Commit or Rollback, a refresh exactly for its own DDL, then the destruction
\* (IMPLEMENTING.md:307-311, :328).
ImplementsTransactions == Promise!Spec
=============================================================================
