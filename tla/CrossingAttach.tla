---------------------------- MODULE CrossingAttach ----------------------------
(***************************************************************************)
(* What an attach remembers of its source, and what it forgets             *)
(* (src/crossing_attach.cpp): the listing of each schema, the described    *)
(* table entries, the queue of Refresh calls, and the overlay of a          *)
(* transaction that ran DDL.  Clients look tables up, run DDL, commit and   *)
(* roll back concurrently while the source changes under them.              *)
(*                                                                          *)
(* A source call is never atomic with what is done with its reply, and it   *)
(* is made with a lock held: schemas_lock for a listing, the schema's       *)
(* state lock for a description.  Those two locks are explicit here.        *)
(* refresh_lock and transactions_lock are held for a few assignments and    *)
(* never across a call, so what they guard is one step.  A slot and its     *)
(* overlays belong to one transaction, whose statements follow one another, *)
(* so what happens under slot.lock alone is part of the client's step.      *)
(*                                                                          *)
(* A schema has one table.  What the source says of it is a snapshot: whose *)
(* change it shows, the number of that change, and whether the table exists *)
(* after it.  The source and the statements are external.                   *)
(***************************************************************************)
EXTENDS Naturals, FiniteSets

CONSTANTS
    Clients,     \* client connections, each running one transaction after another
    Schemas,     \* the schemas the source serves
    Entries,     \* addresses of table entries
    Owners,      \* schema entries of DuckDB's catalog a table entry hangs off
    MaxChanges,  \* the changes made to the source in one behaviour (bound)
    MaxHeld,     \* a statement that holds so many entries looks no more up (bound)
    None

ASSUME AttachAssumption ==
    /\ None \notin Clients
    /\ MaxChanges \in Nat
    /\ MaxHeld \in Nat

VARIABLES
    committed,       \* source: committed[s], the snapshot everybody may see
    private,         \* source: private[c][s], what c's session changed, or None
    changes,         \* source: the changes begun so far
    refresh_all, refresh_schemas,   \* the queued Refresh calls
    served,          \* served[s]: the listing's tables and schema description
    cache, stale, retired,          \* each schema's SchemaState
    overlay,         \* overlay[c][s] of c's slot, or None
    altered,         \* altered[c]: altered_schemas of c's slot, then settling's
    schemas_lock,    \* the client holding schemas_lock
    state_lock,      \* state_lock[s]: the client holding the schema state's lock
    pc,              \* pc[c]: where c is
    at, owner,       \* at[c], owner[c]: the schema and owner c's call is about
    pinning,         \* pinning[c]: the lookup is Pin's, with a null transaction
    verb,            \* verb[c]: the DDL under way, or None
    fetched,         \* fetched[c]: a reply the source has given and c has not stored
    held,            \* held[c]: the entries c's current statement points to
    result,          \* result[c]: what c's last lookup saw
    promised,        \* history: promised[s], the change lookups may count on
    floor,           \* history: floor[c], promised[at[c]] when c's lookup began
    owed             \* history: owed[c][s], the change c's commit published

sourceVars == <<committed, private, changes>>
listingVars == <<refresh_all, refresh_schemas, served>>
cacheVars == <<cache, stale, retired>>
slotVars == <<overlay, altered>>
locks == <<schemas_lock, state_lock>>
clientVars == <<pc, at, owner, pinning, verb, fetched, held, result>>
history == <<promised, floor, owed>>
vars == <<sourceVars, listingVars, cacheVars, slotVars, locks, clientVars, history>>

Changes == 0 .. MaxChanges
Snapshots == [by : Clients \cup {None}, n : Nat, exists : BOOLEAN]
Cached == [addr : Entries, snapshot : Snapshots, owner : Owners]
Overlays == [tables : Snapshots \cup {None}, cache : Cached \cup {None}, retired : SUBSET Entries]
Listings == [tables : Snapshots \cup {None}, schema : Snapshots \cup {None}]
Unlisted == [tables |-> None, schema |-> None]
Verbs == {"create", "replace", "drop"}
PCs == {"idle", "authorize", "schema", "schema_replied", "tables", "listing", "listed", "state",
        "cache", "describe", "described", "ddl", "retire", "retiring", "resolve", "settle"}
Results == [snapshot : Snapshots, floor : Nat, own : BOOLEAN]

\* None is none of the values it stands in for.
ASSUME NoneAssumption ==
    /\ None \notin Snapshots /\ None \notin Cached /\ None \notin Overlays /\ None \notin Results

TypeOK ==
    /\ committed \in [Schemas -> Snapshots]
    /\ private \in [Clients -> [Schemas -> Snapshots \cup {None}]]
    /\ changes \in Changes
    /\ refresh_all \in BOOLEAN
    /\ refresh_schemas \subseteq Schemas
    /\ served \in [Schemas -> Listings]
    /\ cache \in [Schemas -> Cached \cup {None}]
    /\ stale \in [Schemas -> BOOLEAN]
    /\ retired \in [Schemas -> SUBSET Entries]
    /\ overlay \in [Clients -> [Schemas -> Overlays \cup {None}]]
    /\ altered \in [Clients -> SUBSET Schemas]
    /\ schemas_lock \in Clients \cup {None}
    /\ state_lock \in [Schemas -> Clients \cup {None}]
    /\ pc \in [Clients -> PCs]
    /\ at \in [Clients -> Schemas]
    /\ owner \in [Clients -> Owners]
    /\ pinning \in [Clients -> BOOLEAN]
    /\ verb \in [Clients -> Verbs \cup {None}]
    /\ fetched \in [Clients -> Snapshots \cup {None}]
    /\ held \in [Clients -> SUBSET Entries]
    /\ result \in [Clients -> Results \cup {None}]
    /\ promised \in [Schemas -> Nat]
    /\ floor \in [Clients -> Nat]
    /\ owed \in [Clients -> [Schemas -> Nat]]

Init ==
    /\ committed = [s \in Schemas |-> [by |-> None, n |-> 0, exists |-> TRUE]]
    /\ private = [c \in Clients |-> [s \in Schemas |-> None]]
    /\ changes = 0
    /\ refresh_all = FALSE
    /\ refresh_schemas = {}
    /\ served = [s \in Schemas |-> Unlisted]
    /\ cache = [s \in Schemas |-> None]
    /\ stale = [s \in Schemas |-> FALSE]
    /\ retired = [s \in Schemas |-> {}]
    /\ overlay = [c \in Clients |-> [s \in Schemas |-> None]]
    /\ altered = [c \in Clients |-> {}]
    /\ schemas_lock = None
    /\ state_lock = [s \in Schemas |-> None]
    /\ pc = [c \in Clients |-> "idle"]
    /\ at \in [Clients -> Schemas]
    /\ owner \in [Clients -> Owners]
    /\ pinning = [c \in Clients |-> FALSE]
    /\ verb = [c \in Clients |-> None]
    /\ fetched = [c \in Clients |-> None]
    /\ held = [c \in Clients |-> {}]
    /\ result = [c \in Clients |-> None]
    /\ promised = [s \in Schemas |-> 0]
    /\ floor = [c \in Clients |-> 0]
    /\ owed = [c \in Clients |-> [s \in Schemas |-> 0]]

-----------------------------------------------------------------------------
\* The schemas a queued Refresh covers.
Queued == IF refresh_all THEN Schemas ELSE refresh_schemas

\* Mutant: a state some lookup has locked is left alone.
ApplyRefreshesToUnlocked ==
    /\ refresh_all' = FALSE
    /\ refresh_schemas' = {}
    /\ stale' = [s \in Schemas |-> stale[s] \/ (s \in Queued /\ state_lock[s] = None)]

\* ApplyRefreshes: the queue is taken, the covered listings are dropped and the
\* covered states marked stale, without waiting for a state's lock.  A schema that
\* was never looked up has no state to mark, and no cache to forget either.
ApplyRefreshes ==
    /\ refresh_all' = FALSE
    /\ refresh_schemas' = {}
    /\ stale' = [s \in Schemas |-> stale[s] \/ s \in Queued]

\* The listings as ApplyRefreshes leaves them.
RefreshedListings == [s \in Schemas |-> IF s \in Queued THEN Unlisted ELSE served[s]]

\* The entries some statement points to.
Pointed == UNION {held[c] : c \in Clients}

\* The address of what a cache holds, as a set.
Addr(cached) == IF cached = None THEN {} ELSE {cached.addr}

\* Retired entries are never freed.  One that no statement points to can no longer
\* be told from a freed one, so only those still pointed to are kept here.
Retired(entries) == entries \cap Pointed

\* Mutant: what was retired before is freed with the overlay.
CacheAlone(o) == Retired(Addr(o.cache))

\* What is retired of an overlay that ends or starts over.
Abandoned(o) == o.retired \cup Retired(Addr(o.cache))

\* What is retired of an entry a cache gives up.
RetiredOf(cached) == Retired(Addr(cached))

\* The addresses of the entries the attach owns.
Owned ==
    (UNION {Addr(cache[s]) \cup retired[s] : s \in Schemas})
    \cup (UNION {IF overlay[c][s] = None THEN {}
                 ELSE Addr(overlay[c][s].cache) \cup overlay[c][s].retired :
                     c \in Clients, s \in Schemas})

\* A new entry for c's call, at an address nothing uses.
HasRoom == Entries \ (Owned \cup Pointed) # {}
NewEntry(c, snapshot) ==
    [addr |-> CHOOSE e \in Entries : e \notin Owned \cup Pointed,
     snapshot |-> snapshot, owner |-> owner[c]]

\* Mutant: the lock outlives the lookup.
KeepState(s) == UNCHANGED state_lock

\* The state's lock is released.
UnlockState(s) == state_lock' = [state_lock EXCEPT ![s] = None]

\* Mutant: a transaction sees its own tables once they have been listed.
SeesOwnListed(c) == ~pinning[c] /\ overlay[c][at[c]] # None /\ overlay[c][at[c]].tables # None

\* c has its own view of s: a transaction was passed and it altered the schema.
SeesOwn(c) == ~pinning[c] /\ overlay[c][at[c]] # None

\* A lookup of c in s begins, for a null transaction when pin is TRUE.
BeginLookup(c, s, pin) ==
    /\ pinning' = [pinning EXCEPT ![c] = pin]
    /\ floor' = [floor EXCEPT ![c] = promised[s]]

\* What follows a lookup: a plain one is over; Authorize's is followed by Pin, a
\* lookup of its own, unless a table to be dropped was not found; and Pin's by the
\* source's Ddl.
AfterLookup(c, found) ==
    \/ /\ verb[c] = None \/ (verb[c] = "drop" /\ ~pinning[c] /\ ~found)
       /\ pc' = [pc EXCEPT ![c] = "idle"]
       /\ verb' = [verb EXCEPT ![c] = None]
       /\ UNCHANGED <<pinning, floor>>
    \/ /\ verb[c] # None /\ ~pinning[c] /\ (verb[c] = "drop" => found)
       /\ pc' = [pc EXCEPT ![c] = "tables"]
       /\ BeginLookup(c, at[c], TRUE)
       /\ UNCHANGED verb
    \/ /\ verb[c] # None /\ pinning[c]
       /\ pc' = [pc EXCEPT ![c] = "ddl"]
       /\ UNCHANGED <<verb, pinning, floor>>

\* c's lookup returns the entry at the addresses, none when the name is not served,
\* on the strength of the snapshot.
Return(c, addresses, snapshot) ==
    /\ held' = [held EXCEPT ![c] = @ \cup addresses]
    /\ result' = [result EXCEPT ![c] = [snapshot |-> snapshot, floor |-> floor[c], own |-> ~pinning[c]]]
    /\ AfterLookup(c, snapshot.exists)

\* c's lookup goes on.
Continue(c, where) ==
    /\ pc' = [pc EXCEPT ![c] = where]
    /\ UNCHANGED <<held, result, verb, pinning, floor>>

-----------------------------------------------------------------------------
\* LookupTable is called by a statement of c.
StartLookup(c) ==
    /\ pc[c] = "idle"
    /\ Cardinality(held[c]) < MaxHeld
    /\ \E s \in Schemas :
          /\ at' = [at EXCEPT ![c] = s]
          /\ BeginLookup(c, s, FALSE)
    /\ \E o \in Owners : owner' = [owner EXCEPT ![c] = o]
    /\ pc' = [pc EXCEPT ![c] = "tables"]
    /\ result' = [result EXCEPT ![c] = None]
    /\ UNCHANGED <<sourceVars, listingVars, cacheVars, slotVars, locks, verb, fetched, held,
                   promised, owed>>

\* The whole lookup of a transaction that altered the schema: the session is
\* asked for its tables and its description, once each until the next DDL, and
\* both stay in the overlay.
LookupOwn(c) ==
    LET s == at[c]
        o == overlay[c][s]
        tables == IF o.tables = None THEN private[c][s] ELSE o.tables
        hit == o.cache # None /\ o.cache.owner = owner[c]
        found == IF hit THEN o.cache ELSE NewEntry(c, private[c][s])
        dropped == IF hit THEN {} ELSE RetiredOf(o.cache)
    IN
    /\ pc[c] = "tables"
    /\ SeesOwn(c)
    /\ IF tables.exists
       THEN /\ hit \/ HasRoom
            /\ overlay' = [overlay EXCEPT ![c][s] =
                  [tables |-> tables, cache |-> found, retired |-> o.retired \cup dropped]]
            /\ Return(c, {found.addr}, found.snapshot)
       ELSE /\ overlay' = [overlay EXCEPT ![c][s].tables = tables]
            /\ Return(c, {}, tables)
    /\ UNCHANGED <<sourceVars, listingVars, cacheVars, altered, locks, at, owner, fetched,
                   promised, owed>>

-----------------------------------------------------------------------------
\* WithTables takes schemas_lock and applies the queued refreshes.  A schema
\* already listed answers at once; otherwise the source is asked with the lock
\* held.
ListTables(c) ==
    LET tables == RefreshedListings[at[c]].tables IN
    /\ pc[c] = "tables"
    /\ ~SeesOwn(c)
    /\ schemas_lock = None
    /\ ApplyRefreshes
    /\ served' = RefreshedListings
    /\ \/ /\ tables = None
          /\ schemas_lock' = c
          /\ Continue(c, "listing")
       \/ /\ tables # None
          /\ UNCHANGED schemas_lock
          /\ IF tables.exists THEN Continue(c, "state") ELSE Return(c, {}, tables)
    /\ UNCHANGED <<sourceVars, cache, retired, slotVars, state_lock, at, owner, fetched,
                   promised, owed>>

\* The source answers Tables or DescribeSchema with what is committed now.
SourceLists(c) ==
    /\ pc[c] \in {"listing", "schema"}
    /\ fetched' = [fetched EXCEPT ![c] = committed[at[c]]]
    /\ pc' = [pc EXCEPT ![c] = IF @ = "listing" THEN "listed" ELSE "schema_replied"]
    /\ UNCHANGED <<sourceVars, listingVars, cacheVars, slotVars, locks, at, owner, pinning, verb,
                   held, result, history>>

\* The reply is stored, whatever was refreshed meanwhile, and the lookup goes on
\* with what it fetched.
StoreTables(c) ==
    /\ pc[c] = "listed"
    /\ served' = [served EXCEPT ![at[c]].tables = fetched[c]]
    /\ fetched' = [fetched EXCEPT ![c] = None]
    /\ schemas_lock' = None
    /\ IF fetched[c].exists THEN Continue(c, "state") ELSE Return(c, {}, fetched[c])
    /\ UNCHANGED <<sourceVars, refresh_all, refresh_schemas, cacheVars, slotVars, state_lock, at,
                   owner, promised, owed>>

\* StateOf applies the refreshes again, under schemas_lock.
StateOf(c) ==
    /\ pc[c] = "state"
    /\ schemas_lock = None
    /\ ApplyRefreshes
    /\ served' = RefreshedListings
    /\ pc' = [pc EXCEPT ![c] = "cache"]
    /\ UNCHANGED <<sourceVars, cache, retired, slotVars, locks, at, owner, pinning, verb,
                   fetched, held, result, history>>

-----------------------------------------------------------------------------
\* RetireIfStale and the cache lookup of GetOrDescribe, under the state's lock.
\* A hit returns; a stale entry or one of another owner is retired; a miss asks
\* the source with the lock held.
SearchCache(c) ==
    LET s == at[c]
        hit == ~stale[s] /\ cache[s] # None /\ cache[s].owner = owner[c]
    IN
    /\ pc[c] = "cache"
    /\ state_lock[s] = None
    /\ stale' = [stale EXCEPT ![s] = FALSE]
    /\ \/ /\ hit
          /\ Return(c, {cache[s].addr}, cache[s].snapshot)
          /\ UNCHANGED <<cache, retired, state_lock>>
       \/ /\ ~hit
          /\ cache' = [cache EXCEPT ![s] = None]
          /\ retired' = [retired EXCEPT ![s] = @ \cup RetiredOf(cache[s])]
          /\ state_lock' = [state_lock EXCEPT ![s] = c]
          /\ Continue(c, "describe")
    /\ UNCHANGED <<sourceVars, listingVars, slotVars, schemas_lock, at, owner, fetched,
                   promised, owed>>

\* The source answers Describe with what is committed now, or throws because the
\* table is gone, which ends the lookup, its DDL if any, and releases the lock.
SourceDescribes(c) ==
    /\ pc[c] = "describe"
    /\ \/ /\ committed[at[c]].exists
          /\ fetched' = [fetched EXCEPT ![c] = committed[at[c]]]
          /\ pc' = [pc EXCEPT ![c] = "described"]
          /\ UNCHANGED <<state_lock, verb>>
       \/ /\ ~committed[at[c]].exists
          /\ pc' = [pc EXCEPT ![c] = "idle"]
          /\ verb' = [verb EXCEPT ![c] = None]
          /\ UnlockState(at[c])
          /\ UNCHANGED fetched
    /\ UNCHANGED <<sourceVars, listingVars, cacheVars, slotVars, schemas_lock, at, owner, pinning,
                   held, result, history>>

\* The description becomes an entry of the cache and is returned.
StoreEntry(c) ==
    LET s == at[c]
        e == NewEntry(c, fetched[c])
    IN
    /\ pc[c] = "described"
    /\ HasRoom
    /\ cache' = [cache EXCEPT ![s] = e]
    /\ Return(c, {e.addr}, fetched[c])
    /\ fetched' = [fetched EXCEPT ![c] = None]
    /\ UnlockState(s)
    /\ UNCHANGED <<sourceVars, listingVars, stale, retired, slotVars, schemas_lock, at, owner,
                   promised, owed>>

-----------------------------------------------------------------------------
\* Ddl: Authorize looks at the schema's description for a CREATE, at the table's
\* for a DROP, at both for a REPLACE.
StartDdl(c) ==
    /\ pc[c] = "idle"
    /\ Cardinality(held[c]) < MaxHeld
    /\ changes < MaxChanges
    /\ changes' = changes + 1
    /\ \E s \in Schemas :
          /\ at' = [at EXCEPT ![c] = s]
          /\ BeginLookup(c, s, FALSE)
    /\ \E o \in Owners : owner' = [owner EXCEPT ![c] = o]
    /\ \E v \in Verbs :
          /\ verb' = [verb EXCEPT ![c] = v]
          /\ pc' = [pc EXCEPT ![c] = IF v = "drop" THEN "tables" ELSE "authorize"]
    /\ result' = [result EXCEPT ![c] = None]
    /\ UNCHANGED <<committed, private, listingVars, cacheVars, slotVars, locks, fetched, held,
                   promised, owed>>

\* Authorize has the schema's description: a REPLACE looks at the table, a CREATE
\* goes straight to Pin.
Authorized(c) ==
    /\ pc' = [pc EXCEPT ![c] = "tables"]
    /\ BeginLookup(c, at[c], verb[c] = "create")

\* DescribedSchema takes schemas_lock, applies the refreshes and asks the source
\* for a schema it has not described.
DescribeSchema(c) ==
    /\ pc[c] = "authorize"
    /\ schemas_lock = None
    /\ ApplyRefreshes
    /\ served' = RefreshedListings
    /\ \/ /\ RefreshedListings[at[c]].schema = None
          /\ schemas_lock' = c
          /\ pc' = [pc EXCEPT ![c] = "schema"]
          /\ UNCHANGED <<pinning, floor>>
       \/ /\ RefreshedListings[at[c]].schema # None
          /\ Authorized(c)
          /\ UNCHANGED schemas_lock
    /\ UNCHANGED <<sourceVars, cache, retired, slotVars, state_lock, at, owner, verb, fetched,
                   held, result, promised, owed>>

StoreSchema(c) ==
    /\ pc[c] = "schema_replied"
    /\ served' = [served EXCEPT ![at[c]].schema = fetched[c]]
    /\ fetched' = [fetched EXCEPT ![c] = None]
    /\ schemas_lock' = None
    /\ Authorized(c)
    /\ UNCHANGED <<sourceVars, refresh_all, refresh_schemas, cacheVars, slotVars, state_lock, at,
                   owner, verb, held, result, promised, owed>>

\* What the session makes of the table.
SessionDdl(c, s) ==
    [by |-> c, n |-> IF private[c][s] = None THEN 1 ELSE private[c][s].n + 1,
     exists |-> verb[c] # "drop"]

\* Mutant: the overlay's entries outlive the next DDL.
KeptOverlay(o) ==
    [tables |-> None, cache |-> IF o = None THEN None ELSE o.cache,
     retired |-> IF o = None THEN {} ELSE o.retired]

\* The overlay of a schema altered for the first time, or once more.
NewOverlay(o) ==
    [tables |-> None, cache |-> None, retired |-> IF o = None THEN {} ELSE Abandoned(o)]

\* The session's Ddl throws, or changes the source for this transaction alone;
\* the schema is then altered and its overlay starts over, its entries retired.
Ddl(c) ==
    LET s == at[c] IN
    /\ pc[c] = "ddl"
    /\ \/ UNCHANGED <<private, slotVars>>
       \/ /\ private' = [private EXCEPT ![c][s] = SessionDdl(c, s)]
          /\ altered' = [altered EXCEPT ![c] = @ \cup {s}]
          /\ overlay' = [overlay EXCEPT ![c][s] = NewOverlay(@)]
    /\ pc' = [pc EXCEPT ![c] = "idle"]
    /\ verb' = [verb EXCEPT ![c] = None]
    /\ result' = [result EXCEPT ![c] = None]
    /\ UNCHANGED <<committed, changes, listingVars, cacheVars, locks, at, owner, pinning, fetched,
                   held, history>>

\* The statement ends and lets its entries go.  An autocommitted statement ends
\* after its transaction.
EndStatement(c) ==
    LET pointed == UNION {held[d] : d \in Clients \ {c}} IN
    /\ pc[c] = "idle"
    /\ held[c] # {}
    /\ held' = [held EXCEPT ![c] = {}]
    /\ retired' = [s \in Schemas |-> retired[s] \cap pointed]
    /\ overlay' = [d \in Clients |-> [s \in Schemas |->
          IF overlay[d][s] = None THEN None
          ELSE [overlay[d][s] EXCEPT !.retired = @ \cap pointed]]]
    /\ UNCHANGED <<sourceVars, listingVars, cache, stale, altered, locks, pc, at, owner, pinning,
                   verb, fetched, result, history>>

-----------------------------------------------------------------------------
\* Release takes the slot out of begun, hands its altered schemas to settling and
\* retires its overlays, one schema after another.
StartRelease(c) ==
    /\ pc[c] = "idle"
    /\ altered[c] # {}
    /\ pc' = [pc EXCEPT ![c] = "retire"]
    /\ result' = [result EXCEPT ![c] = None]
    /\ UNCHANGED <<sourceVars, listingVars, cacheVars, slotVars, locks, at, owner, pinning, verb,
                   fetched, held, history>>

Overlaid(c) == {s \in Schemas : overlay[c][s] # None}

\* Retire asks for the schema's state, which applies the refreshes ...
RetireStateOf(c) ==
    /\ pc[c] = "retire"
    /\ schemas_lock = None
    /\ ApplyRefreshes
    /\ served' = RefreshedListings
    /\ \E s \in Overlaid(c) : at' = [at EXCEPT ![c] = s]
    /\ pc' = [pc EXCEPT ![c] = "retiring"]
    /\ UNCHANGED <<sourceVars, cache, retired, slotVars, locks, owner, pinning, verb, fetched,
                   held, result, history>>

\* Mutant: the overlay's cache becomes the schema's.
RetireOverlayIntoCache(c) ==
    LET s == at[c]
        o == overlay[c][s]
    IN
    /\ pc[c] = "retiring"
    /\ state_lock[s] = None
    /\ cache' = [cache EXCEPT ![s] = o.cache]
    /\ retired' = [retired EXCEPT ![s] = @ \cup o.retired \cup Retired(Addr(cache[s]))]
    /\ overlay' = [overlay EXCEPT ![c][s] = None]
    /\ pc' = [pc EXCEPT ![c] = IF Overlaid(c) = {s} THEN "resolve" ELSE "retire"]
    /\ UNCHANGED <<sourceVars, listingVars, stale, altered, locks, at, owner, pinning,
                   verb, fetched, held, result, history>>

\* ... and moves the overlay's entries to its retired ones, under its lock.
RetireOverlay(c) ==
    LET s == at[c] IN
    /\ pc[c] = "retiring"
    /\ state_lock[s] = None
    /\ retired' = [retired EXCEPT ![s] = @ \cup Abandoned(overlay[c][s])]
    /\ overlay' = [overlay EXCEPT ![c][s] = None]
    /\ pc' = [pc EXCEPT ![c] = IF Overlaid(c) = {s} THEN "resolve" ELSE "retire"]
    /\ UNCHANGED <<sourceVars, listingVars, cache, stale, altered, locks, at, owner, pinning,
                   verb, fetched, held, result, history>>

\* The source resolves the session: its changes become the committed ones or, on
\* a rollback, are gone.  A Commit or Rollback that throws may have done either.
Resolve(c) ==
    /\ pc[c] = "resolve"
    /\ \/ /\ committed' = [s \in Schemas |->
                IF private[c][s] = None THEN committed[s]
                ELSE [by |-> None, n |-> committed[s].n + 1, exists |-> private[c][s].exists]]
          /\ owed' = [owed EXCEPT ![c] = [s \in Schemas |->
                IF private[c][s] = None THEN 0 ELSE committed[s].n + 1]]
       \/ UNCHANGED <<committed, owed>>
    /\ private' = [private EXCEPT ![c] = [s \in Schemas |-> None]]
    /\ pc' = [pc EXCEPT ![c] = "settle"]
    /\ UNCHANGED <<changes, listingVars, cacheVars, slotVars, locks, at, owner, pinning, verb,
                   fetched, held, result, promised, floor>>

-----------------------------------------------------------------------------
Larger(m, n) == IF m > n THEN m ELSE n

\* Refresh(schema): the queue remembers the schema, unless it covers all.
Enqueue(s) ==
    /\ refresh_schemas' = IF refresh_all THEN refresh_schemas ELSE refresh_schemas \cup {s}
    /\ UNCHANGED refresh_all

\* Somebody who knows what is committed calls Refresh: the lookups that begin
\* after it may count on that.
RefreshSchema(s) ==
    /\ Enqueue(s)
    /\ promised' = [promised EXCEPT ![s] = committed[s].n]
    /\ UNCHANGED <<sourceVars, served, cacheVars, slotVars, locks, clientVars, floor, owed>>

RefreshAll ==
    /\ refresh_all' = TRUE
    /\ refresh_schemas' = {}
    /\ promised' = [s \in Schemas |-> committed[s].n]
    /\ UNCHANGED <<sourceVars, served, cacheVars, slotVars, locks, clientVars, floor, owed>>

\* Settled refreshes the altered schemas one by one ...
Settle(c) ==
    /\ pc[c] = "settle"
    /\ \E s \in altered[c] :
          /\ Enqueue(s)
          /\ altered' = [altered EXCEPT ![c] = @ \ {s}]
    /\ UNCHANGED <<sourceVars, served, cacheVars, overlay, locks, clientVars, history>>

\* ... and Commit or Rollback returns: whoever saw a commit return may count on
\* what it published.
Settled(c) ==
    /\ pc[c] = "settle"
    /\ altered[c] = {}
    /\ pc' = [pc EXCEPT ![c] = "idle"]
    /\ promised' = [s \in Schemas |-> Larger(promised[s], owed[c][s])]
    /\ owed' = [owed EXCEPT ![c] = [s \in Schemas |-> 0]]
    /\ UNCHANGED <<sourceVars, listingVars, cacheVars, slotVars, locks, at, owner, pinning, verb,
                   fetched, held, result, floor>>

\* Somebody else changes a table at the source.
SourceChanges(s) ==
    /\ changes < MaxChanges
    /\ changes' = changes + 1
    /\ \E exists \in BOOLEAN :
          committed' = [committed EXCEPT ![s] = [by |-> None, n |-> @.n + 1, exists |-> exists]]
    /\ UNCHANGED <<private, listingVars, cacheVars, slotVars, locks, clientVars, history>>

-----------------------------------------------------------------------------
Lookup(c) ==
    LookupOwn(c) \/ ListTables(c) \/ StoreTables(c) \/ StateOf(c) \/ SearchCache(c) \/ StoreEntry(c)

DdlStep(c) == DescribeSchema(c) \/ StoreSchema(c) \/ Ddl(c)

Release(c) == RetireStateOf(c) \/ RetireOverlay(c) \/ Resolve(c) \/ Settle(c) \/ Settled(c)

SourceReplies(c) == SourceLists(c) \/ SourceDescribes(c)

Goes(c) == Lookup(c) \/ DdlStep(c) \/ Release(c) \/ SourceReplies(c)

Starts(c) == StartLookup(c) \/ StartDdl(c) \/ StartRelease(c) \/ EndStatement(c)

Next ==
    \/ \E c \in Clients : Starts(c) \/ Goes(c)
    \/ \E s \in Schemas : RefreshSchema(s) \/ SourceChanges(s)
    \/ RefreshAll

Spec == Init /\ [][Next]_vars

\* A thread inside a call keeps running and the source answers.  Nothing is assumed
\* of who gets a lock first, nor that anybody starts anything.
FairSpec == Spec /\ \A c \in Clients : WF_vars(Goes(c))

-----------------------------------------------------------------------------
\* A lookup that begins after Refresh returned, or after the commit of a DDL
\* returned, answers from what the source held then or later: no listing or
\* description fetched before survives in the caches (crossing_attach.hpp:55-60),
\* even one whose source call was under way when Refresh was called.
FreshLookups ==
    \A c \in Clients :
        (result[c] # None /\ result[c].snapshot.by = None) => result[c].snapshot.n >= result[c].floor

\* Nothing an unresolved or rolled back transaction did is visible outside it: what
\* all transactions share comes from committed snapshots alone, and no lookup
\* returns another session's work.
OthersIsolated ==
    /\ \A s \in Schemas :
          /\ served[s].tables # None => served[s].tables.by = None
          /\ cache[s] # None => cache[s].snapshot.by = None
    /\ \A c \in Clients : result[c] # None => result[c].snapshot.by \in {c, None}

\* A transaction that ran DDL on a schema sees its own last change there, in every
\* statement until it resolves, whatever is refreshed or committed meanwhile.
SeesOwnDdl ==
    \A c \in Clients :
        (pc[c] = "idle" /\ result[c] # None /\ result[c].own /\ private[c][at[c]] # None)
            => result[c].snapshot = private[c][at[c]]

\* A statement's raw pointers stay good: the attach still owns each entry that was
\* handed out, through a refresh, an owner's change, another DDL and the release of
\* the overlay it came from (crossing_attach.cpp:31).
PointersStayGood == Pointed \subseteq Owned

-----------------------------------------------------------------------------
\* The inductive invariant behind these.

\* A client that lists holds schemas_lock; one that describes holds its schema's
\* lock, and the cache it is going to fill is empty.
LocksHeld ==
    \A c \in Clients :
        /\ pc[c] \in {"listing", "listed", "schema", "schema_replied"} => schemas_lock = c
        /\ pc[c] \in {"describe", "described"} => state_lock[at[c]] = c /\ cache[at[c]] = None

\* A reply shows what was committed, and no less than its lookup may count on.
RepliesCommitted ==
    /\ \A s \in Schemas : committed[s].by = None
    /\ \A c \in Clients :
          /\ fetched[c] # None => fetched[c].by = None
          /\ pc[c] \in {"listed", "described", "schema_replied"} => fetched[c] # None
          /\ pc[c] \in {"listed", "described"} => fetched[c].n >= floor[c]

Releasing == {"retire", "retiring", "resolve"}

\* A transaction has an overlay of each schema it altered, until it is released,
\* and the overlay shows the session's last change.
OverlayOwn(c, s) ==
    /\ private[c][s] # None => private[c][s].by = c /\ s \in altered[c]
    /\ overlay[c][s] # None =>
          /\ private[c][s] # None
          /\ overlay[c][s].tables # None => overlay[c][s].tables = private[c][s]
          /\ overlay[c][s].cache # None => overlay[c][s].cache.snapshot = private[c][s]
    /\ private[c][s] # None /\ pc[c] \notin Releasing => overlay[c][s] # None
    /\ pc[c] \in {"resolve", "settle"} => overlay[c][s] = None
    /\ pc[c] = "settle" => private[c][s] = None

OverlaysOwn == \A c \in Clients, s \in Schemas : OverlayOwn(c, s)

SharedLookup == {"listing", "listed", "state", "cache", "describe", "described"}

\* A lookup among the shared caches is not of a schema its transaction altered, and
\* what a transaction saw of its own changes is still so.
ResultsOwn ==
    \A c \in Clients :
        /\ pc[c] \in SharedLookup => ~SeesOwn(c)
        /\ pc[c] = "retiring" => overlay[c][at[c]] # None
        /\ pc[c] \in Releasing \cup {"settle"} => result[c] = None
        /\ result[c] # None /\ result[c].own /\ private[c][at[c]] # None
              => result[c].snapshot = private[c][at[c]]

\* Nobody may count on more than is committed.
CountsBounded ==
    /\ \A s \in Schemas : promised[s] <= committed[s].n
    /\ \A c \in Clients : \A s \in Schemas :
          owed[c][s] <= committed[s].n /\ (owed[c][s] # 0 => pc[c] = "settle")
    /\ \A c \in Clients : pc[c] \in SharedLookup \cup {"tables"} => floor[c] <= promised[at[c]]

\* Whatever is remembered of s, or about to be, from before its change m is going to
\* be forgotten before the next lookup reaches it.
Forgotten(s, m) ==
    /\ served[s].tables # None /\ served[s].tables.n < m => s \in Queued
    /\ cache[s] # None /\ cache[s].snapshot.n < m => stale[s] \/ s \in Queued
    /\ \A c \in Clients :
          at[c] = s =>
              /\ pc[c] = "listed" /\ fetched[c].n < m => s \in Queued
              /\ pc[c] = "described" /\ fetched[c].n < m => stale[s] \/ s \in Queued

\* It is so for what a Refresh or a commit promised, and for a commit under way as
\* soon as it queued the schema.
PromisesKept ==
    \A s \in Schemas :
        /\ Forgotten(s, promised[s])
        /\ \A c \in Clients : owed[c][s] # 0 /\ s \notin altered[c] => Forgotten(s, owed[c][s])

\* A lookup that applied the refreshes reads nothing older than its floor.
FloorKept ==
    \A c \in Clients : pc[c] = "cache" =>
        /\ cache[at[c]] # None /\ cache[at[c]].snapshot.n < floor[c] => stale[at[c]]
        /\ \A d \in Clients :
              pc[d] = "described" /\ at[d] = at[c] /\ fetched[d].n < floor[c] => stale[at[c]]

Inv ==
    /\ TypeOK
    /\ LocksHeld
    /\ RepliesCommitted
    /\ OverlaysOwn
    /\ ResultsOwn
    /\ CountsBounded
    /\ PromisesKept
    /\ FloorKept
    /\ OthersIsolated /\ PointersStayGood /\ FreshLookups

\* Every call returns, with no lock left held and none waited for in a circle, once
\* the source answers what it is asked and nothing new is started: not a listing
\* behind another's listing, not a commit behind a description.
CallsReturn ==
    <>[][\E c \in Clients : Goes(c)]_vars => \A c \in Clients : []<>(pc[c] = "idle")

=============================================================================
